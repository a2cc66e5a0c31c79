---------------------------- MODULE MCContainers ----------------------------
(* Four addresses of sizes one, two, two and five: every mixture of items  *)
(* that fits or does not fit into a cache of four.  Three keys, two of     *)
(* which collide, in two buckets of a table.                               *)
EXTENDS Containers, TLC

CONSTANTS a1, a2, a3, a4, k1, k2, k3, k4, b1, b2

Sizes == a1 :> 1 @@ a2 :> 2 @@ a3 :> 2 @@ a4 :> 5

Distinct == a1 :> k1 @@ a2 :> k2 @@ a3 :> k3 @@ a4 :> k4

\* Addresses of different sizes with one key.
Colliding == a1 :> k1 @@ a2 :> k1 @@ a3 :> k2 @@ a4 :> k3

Buckets == k1 :> b1 @@ k2 :> b1 @@ k3 :> b2

\* The addresses of the table's memory are only compared.
Addresses == Permutations(Address)

=============================================================================
