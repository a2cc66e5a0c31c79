----------------------------- MODULE MCLockTable -----------------------------
(* The lock node and two other nodes; one lock for both modes, one that      *)
(* only writers use.                                                         *)
EXTENDS LockTable

CONSTANTS data, log

UsesOfAll == [n \in Node |-> {<<data, "SHAREDLOCK">>, <<data, "EXCLUSIVE">>,
                              <<log, "EXCLUSIVE">>}]

=============================================================================
