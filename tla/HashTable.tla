------------------------------ MODULE HashTable ------------------------------
(***************************************************************************)
(* The hash table of app/HashTable.h: chains of elements, each of which    *)
(* names a global address that Node::Malloc returned and that holds the    *)
(* value.  The table belongs to one thread of one node, so its operations  *)
(* are atomic; the memory behind it is Node's, as api.cpp handles an       *)
(* address that is local to the table's node.                              *)
(***************************************************************************)
EXTENDS Integers, Sequences, SequencesExt

CONSTANTS
    Key, Bucket,
    hashBucket,   \* the bucket of a key
    Value,
    Zero,         \* the value read returns when its lock is refused
    Gaddr,        \* global addresses: the bound on live elements
    NoEntry,      \* nothing is allocated at an address
    Absent,       \* the empty optional
    Contended     \* TRUE: other nodes may hold the lock on this node's memory

\* iscached is plausible when it is one of the enumerators; memory that
\* malloc has just returned may hold anything, a vector of sharers included.
SaveData == [data : Value, plausible : BOOLEAN, shared : BOOLEAN]

TableAssumption ==
    /\ hashBucket \in [Key -> Bucket]
    /\ Zero \in Value /\ Absent \notin Value
    /\ NoEntry \notin SaveData
    /\ Contended \in BOOLEAN

VARIABLES
    storage,         \* storage[b]: the chain of bucket b, its head first
    amountElements,
    memory,          \* memory[g]: the SaveData at g
    out,             \* what the last lookup returned
    ended            \* an undefined access has ended the process

vars == <<storage, amountElements, memory, out, ended>>

Elem == [key : Key, gaddr : Gaddr]

TypeOK ==
    /\ storage \in [Bucket -> Seq(Elem)]
    /\ amountElements \in Nat
    /\ memory \in [Gaddr -> SaveData \cup {NoEntry}]
    /\ out \in Value \cup {Absent}
    /\ ended \in BOOLEAN

Init ==
    /\ storage = [b \in Bucket |-> << >>]
    /\ amountElements = 0
    /\ memory = [g \in Gaddr |-> NoEntry]
    /\ out = Absent
    /\ ended = FALSE

Chain(k) == storage[hashBucket[k]]
Matches(k) == {i \in DOMAIN Chain(k) : Chain(k)[i].key = k}

\* The first element of k in its chain.
Position(k) == CHOOSE i \in Matches(k) : \A j \in Matches(k) : i <= j
Found(k) == Chain(k)[Position(k)]

Granted == IF Contended THEN BOOLEAN ELSE {TRUE}
Written(v) == [data |-> v, plausible |-> TRUE, shared |-> FALSE]

\* Node::write on a local address: a vector of sharers that was never one is
\* walked; otherwise the entry is overwritten.
WriteEnds(d) == d.plausible /\ d.shared

\* Node::Free walks it whatever iscached holds.
FreeEnds(d) == d.shared

\* Mutant: the element before the one erased is dropped with it.
UnlinkFromHead(chain, i) == SubSeq(chain, i + 1, Len(chain))

Unlink(chain, i) == RemoveAt(chain, i)

End == ended' = TRUE /\ UNCHANGED <<storage, amountElements, memory, out>>

\* Mutant: the new element joins its chain at the end.
PrependLast(k, g) ==
    /\ storage' = [storage EXCEPT ![hashBucket[k]] = Append(@, [key |-> k, gaddr |-> g])]
    /\ amountElements' = amountElements + 1

\* Node::Malloc and the new element at the head of its chain.
Prepend(k, g) ==
    /\ storage' = [storage EXCEPT ![hashBucket[k]] = <<[key |-> k, gaddr |-> g]>> \o @]
    /\ amountElements' = amountElements + 1

insert(k, v) ==
    \E g \in Gaddr, d \in SaveData, granted \in Granted :
        /\ ~ ended /\ memory[g] = NoEntry
        /\ IF granted /\ WriteEnds(d)
           THEN End
           ELSE /\ Prepend(k, g)
                /\ memory' = [memory EXCEPT ![g] =
                                 IF granted THEN Written(v) ELSE d]
                /\ UNCHANGED <<out, ended>>

erase(k) ==
    /\ ~ ended /\ Matches(k) # {}
    /\ IF FreeEnds(memory[Found(k).gaddr])
       THEN End
       ELSE /\ storage' = [storage EXCEPT ![hashBucket[k]] =
                              Unlink(@, Position(k))]
            /\ memory' = [memory EXCEPT ![Found(k).gaddr] = NoEntry]
            /\ amountElements' = amountElements - 1
            /\ UNCHANGED <<out, ended>>

\* Node::read: zero when refused, a null dereference when implausible.
Read(d, granted) ==
    /\ out' = IF granted THEN d.data ELSE Zero
    /\ granted => d.plausible

\* get, and operator[] of a key that is there.
get(k) ==
    /\ ~ ended
    /\ \/ /\ Matches(k) = {}
          /\ out' = Absent
          /\ UNCHANGED <<storage, amountElements, memory, ended>>
       \/ /\ Matches(k) # {}
          /\ \E granted \in Granted :
                \/ /\ Read(memory[Found(k).gaddr], granted)
                   /\ UNCHANGED <<storage, amountElements, memory, ended>>
                \/ granted /\ ~ memory[Found(k).gaddr].plausible /\ End

\* operator[] of a key that is not there: allocate, read what is there.
create(k) ==
    /\ ~ ended /\ Matches(k) = {}
    /\ \E g \in Gaddr, d \in SaveData, granted \in Granted :
        /\ memory[g] = NoEntry
        /\ \/ /\ Read(d, granted)
              /\ Prepend(k, g)
              /\ memory' = [memory EXCEPT ![g] = d]
              /\ UNCHANGED ended
           \/ granted /\ ~ d.plausible /\ End

\* clear, which the destructor calls.
clear ==
    /\ ~ ended
    /\ IF \E b \in Bucket : \E i \in DOMAIN storage[b] :
              FreeEnds(memory[storage[b][i].gaddr])
       THEN End
       ELSE /\ storage' = [b \in Bucket |-> << >>]
            /\ memory' = [g \in Gaddr |->
                   IF \E b \in Bucket : \E i \in DOMAIN storage[b] :
                          storage[b][i].gaddr = g
                   THEN NoEntry ELSE memory[g]]
            /\ amountElements' = 0
            /\ UNCHANGED <<out, ended>>

Next ==
    \/ \E k \in Key : erase(k) \/ get(k) \/ create(k)
    \/ \E k \in Key, v \in Value : insert(k, v)
    \/ clear

Spec == Init /\ [][Next]_vars

-----------------------------------------------------------------------------
Elements == UNION {{<<b, i>> : i \in DOMAIN storage[b]} : b \in Bucket}
GaddrAt(e) == storage[e[1]][e[2]].gaddr

\* Every address that Malloc returned and Free has not taken back is named by
\* exactly one element of the chains, so that no element dangles after an
\* erase or a clear of others and no memory is lost by either.
ElementsOwnMemory ==
    /\ TypeOK
    /\ \A e, f \in Elements : GaddrAt(e) = GaddrAt(f) => e = f
    /\ {GaddrAt(e) : e \in Elements} = {g \in Gaddr : memory[g] # NoEntry}

\* The elements of one key in their chain are that key's stack: an insert
\* shadows the values before it, erase uncovers the last of them, collisions in
\* a bucket disturb nobody, and size counts shadowed values too.
Cells(k) == {Chain(k)[i].gaddr : i \in Matches(k)}
Above ==
    {p \in Gaddr \X Gaddr : \E b \in Bucket : \E i, j \in DOMAIN storage[b] :
        /\ i < j /\ storage[b][i].key = storage[b][j].key
        /\ p = <<storage[b][i].gaddr, storage[b][j].gaddr>>}
Map == INSTANCE LifoMap WITH
    Cell <- Gaddr, stacks <- [k \in Key |-> Cells(k)], above <- Above,
    value <- [g \in Gaddr |-> IF memory[g] = NoEntry THEN Absent ELSE memory[g].data],
    size <- amountElements
ImplementsLifoMap == Map!MapSpec

\* The value that a lookup of a present key finds.
Shown(k) == memory[Found(k).gaddr].data

\* "insert value to HT if not exists; used for non-overwriting inserts": the
\* value that a present key shows does not change when it is inserted again.
InsertIsNonOverwriting ==
    [][\A k \in Key : Matches(k) # {} /\ (\E v \in Value : insert(k, v))
           => Shown(k)' = Shown(k)]_vars

=============================================================================
