----------------------------- MODULE Containers -----------------------------
(***************************************************************************)
(* The two containers of a node side by side: its cache, for what other    *)
(* nodes have allocated, and a hash table of its program, for what the     *)
(* node itself has.  They share no variable, so that nothing is to be      *)
(* learnt from their interleavings: a behaviour uses one of them, and the  *)
(* other stays as it is.                                                   *)
(***************************************************************************)
EXTENDS Cache

CONSTANTS
    TableKey, Bucket, hashBucket, Word, Zero, Address, NoEntry, Absent, Contended

VARIABLES
    container,                                          \* the one that is used
    storage, amountElements, memory, answer, ended      \* HashTable

Table == INSTANCE HashTable WITH
    Key <- TableKey, Value <- Word, Gaddr <- Address, out <- answer

ASSUME ContainersAssumption == Table!TableAssumption

tableVars == <<storage, amountElements, memory, answer, ended>>
containerVars == <<container, vars, tableVars>>

ContainersInit == container \in {"cache", "table"} /\ Init /\ Table!Init

InCache == container = "cache" /\ Next /\ UNCHANGED <<container, tableVars>>
InTable == container = "table" /\ Table!Next /\ UNCHANGED <<container, vars>>

ContainersSpec == ContainersInit /\ [][InCache \/ InTable]_containerVars

-----------------------------------------------------------------------------
(* What HashTable promises, and a comment on insert does; each is explained *)
(* where it is defined.                                                     *)

\* Every address that is allocated is named by exactly one element.
ElementsOwnMemory == Table!ElementsOwnMemory

\* The table is a map of stacks.
ImplementsLifoMap == Table!ImplementsLifoMap

\* Inserting a key that is there shows the value it had.
InsertIsNonOverwriting == Table!InsertIsNonOverwriting

=============================================================================
