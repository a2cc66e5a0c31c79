------------------------------ MODULE MCShared ------------------------------
(* Memory that several nodes read, every address written by one of them.     *)
EXTENDS CoherenceProperties, TLC

CONSTANTS homes, clients, Writer

\* One address of each writer: of the home node, and of a client.
Divided == homes :> {Home} @@ clients :> {Writer}
OneWrites == [a \in Addr |-> {Writer}]

\* Words are only copied and compared, so renaming them changes nothing.
Words == Permutations(Value)

=============================================================================
