------------------------------- MODULE LifoMap -------------------------------
(***************************************************************************)
(* What HashTable is, seen through insert, erase, get, count, operator[],  *)
(* size and clear: under every key a stack of values.  insert pushes,      *)
(* erase pops, and a lookup sees the top.  A stack is a set of cells and   *)
(* which of them is above which.                                           *)
(***************************************************************************)
EXTENDS Integers

CONSTANTS Key, Cell, Value, Zero, Absent, Contended

VARIABLES
    stacks,  \* stacks[k]: the cells under k
    above,   \* <<c, d>> when c is above d in their stack
    value,   \* value[c]: the value in a cell, Absent in a free one
    size,    \* the number of values
    out      \* what the last lookup returned

mapVars == <<stacks, above, value, size, out>>

MapInit ==
    /\ stacks = [k \in Key |-> {}] /\ above = {}
    /\ value = [c \in Cell |-> Absent] /\ size = 0
    /\ out = Absent

\* The cell that a lookup sees.
IsTop(k, c) == c \in stacks[k] /\ \A d \in stacks[k] \ {c} : <<c, d>> \in above

Push(k, v) ==
    \E c \in Cell :
        /\ value[c] = Absent
        /\ stacks' = [stacks EXCEPT ![k] = @ \cup {c}]
        /\ above' = above \cup ({c} \X stacks[k])
        /\ value' = [value EXCEPT ![c] = v]
        /\ size' = size + 1

\* The new value may be lost when other nodes hold the lock.
Insert(k, v) ==
    /\ \/ Push(k, v)
       \/ Contended /\ \E w \in Value : Push(k, w)
    /\ UNCHANGED out

Erase(k) ==
    /\ \E c \in Cell :
          /\ IsTop(k, c)
          /\ stacks' = [stacks EXCEPT ![k] = @ \ {c}]
          /\ above' = above \ ({c} \X Cell)
          /\ value' = [value EXCEPT ![c] = Absent]
    /\ size' = size - 1
    /\ UNCHANGED out

\* A lookup that is refused the lock returns zero.
Lookup(k) ==
    /\ \/ \E c \in Cell : IsTop(k, c) /\ out' = value[c]
       \/ stacks[k] # {} /\ Contended /\ out' = Zero
       \/ stacks[k] = {} /\ out' = Absent
    /\ UNCHANGED <<stacks, above, value, size>>

\* operator[] of an absent key inserts what it finds in fresh memory.
Create(k) ==
    /\ stacks[k] = {}
    /\ \E v \in Value : /\ Push(k, v)
                        /\ \/ out' = v
                           \/ Contended /\ out' = Zero

Clear ==
    /\ stacks' = [k \in Key |-> {}] /\ above' = {}
    /\ value' = [c \in Cell |-> Absent] /\ size' = 0
    /\ UNCHANGED out

MapNext ==
    \/ \E k \in Key : Erase(k) \/ Lookup(k) \/ Create(k)
    \/ \E k \in Key, v \in Value : Insert(k, v)
    \/ Clear

MapSpec == MapInit /\ [][MapNext]_mapVars

=============================================================================
