-------------------------------- MODULE Cache --------------------------------
(***************************************************************************)
(* The cache of a node, with the sizes of its items, the keys that the     *)
(* hash of an address gives them, and the order in which they were used.   *)
(* It belongs to the node's one thread: performRead looks an address up    *)
(* and adds what it fetched, performWrite alters it, handleInvalidation    *)
(* removes it.                                                             *)
(***************************************************************************)
EXTENDS Integers, SequencesExt

CONSTANTS
    Gaddr,     \* the remote addresses
    size,      \* size[a]: GlobalAddress::size
    Key,
    keyOf,     \* keyOf[a]: GlobalAddressHash, an exclusive or that may collide
    Value, None,
    maxsize,   \* Cache::maxsize
    MaxCount   \* bound: no call once availablesize or lost is beyond it

ASSUME CacheAssumption ==
    /\ size \in [Gaddr -> Nat \ {0}] /\ keyOf \in [Gaddr -> Key]
    /\ None \notin Value /\ None \notin Gaddr
    /\ maxsize \in Nat /\ MaxCount \in Nat

VARIABLES
    items,          \* items[k]: the CacheItem under k
    recent,         \* the keys of the items, the one used last at the end
    availablesize,
    lost,           \* the room of the items that were removed, and of those that
                    \* another of the same key replaced, less the replacement's
                    \* (history)
    out,            \* what the last call did, under which key, with which value
    status          \* up, dead (std::terminate) or in an endless loop

vars == <<items, recent, availablesize, lost, out, status>>

CacheItem == [globalAddress : Gaddr, data : Value]
NoItem == [globalAddress |-> None, data |-> None]
NoAnswer == <<"none", None, None>>
Answer(what, a, v) == <<what, keyOf[a], v>>
Present == {k \in Key : items[k] # NoItem}

TypeOK ==
    /\ items \in [Key -> CacheItem \cup {NoItem}]
    /\ recent \in Seq(Key)
    /\ availablesize \in Nat /\ lost \in Int
    /\ status \in {"up", "dead", "spin"}

Init ==
    /\ items = [k \in Key |-> NoItem]
    /\ recent = << >>
    /\ availablesize = maxsize /\ lost = 0
    /\ out = NoAnswer /\ status = "up"

Called == status = "up" /\ availablesize <= MaxCount /\ lost \in -MaxCount .. MaxCount

Item(a, v) == [globalAddress |-> a, data |-> v]
Touched(k) == Append(RemoveFirst(recent, k), k)

\* The keys of the n items used last: removeOldestItem, called n times, keeps
\* the item with the greatest lastused in "latest" and erases that one.
Latest(n) == {recent[i] : i \in (Len(recent) - n + 1) .. Len(recent)}

\* The room each item takes.
room == [k \in Present |-> size[items[k].globalAddress]]

\* Mutant: the room of an evicted item is not given back.
RoomKept(n) == availablesize

RoomAfter(n) == availablesize + SumFunctionOnSet(room, Latest(n))

\* removeOldestItem, n times.
Evict(n) ==
    /\ items' = [k \in Key |-> IF k \in Latest(n) THEN NoItem ELSE items[k]]
    /\ recent' = SubSeq(recent, 1, Len(recent) - n)
    /\ availablesize' = RoomAfter(n)

Insert(a, v) ==
    /\ availablesize >= size[a]
    /\ items' = [items EXCEPT ![keyOf[a]] = Item(a, v)]
    /\ recent' = Touched(keyOf[a])
    /\ availablesize' = availablesize - size[a]

\* The new item is inserted while there is room.  Otherwise items are evicted
\* until there is, and the new one is dropped; with none left the loop goes
\* on.  "throw" without an exception terminates the process.
addCacheItem(a, v) ==
    \/ /\ size[a] <= maxsize
       /\ Insert(a, v)
       /\ out' = Answer("stored", a, v) /\ UNCHANGED <<lost, status>>
    \/ /\ availablesize < size[a] /\ size[a] <= maxsize
       /\ \E n \in 1 .. Len(recent) :
            /\ RoomAfter(n) >= size[a]
            /\ \A m \in 1 .. (n - 1) : RoomAfter(m) < size[a]
            /\ Evict(n)
       /\ out' = Answer("stored", a, v) /\ UNCHANGED <<lost, status>>
    \/ /\ availablesize < size[a] /\ size[a] <= maxsize
       /\ RoomAfter(Len(recent)) < size[a]
       /\ Evict(Len(recent))
       /\ status' = "spin" /\ out' = NoAnswer /\ UNCHANGED lost
    \/ /\ size[a] > maxsize
       /\ status' = "dead" /\ out' = NoAnswer
       /\ UNCHANGED <<items, recent, availablesize, lost>>

\* performRead: a lookup; when it finds nothing the fetched value is added.
getCacheItem(a) ==
    /\ Called /\ items[keyOf[a]] # NoItem
    /\ recent' = Touched(keyOf[a])
    /\ out' = Answer("found", a, items[keyOf[a]].data)
    /\ UNCHANGED <<items, availablesize, lost, status>>

Fetch(a, v) == Called /\ items[keyOf[a]] = NoItem /\ addCacheItem(a, v)

\* Mutants: the item that is there stays as it is, or is inserted over.
alterCacheItemKeeping(a, v) ==
    /\ Called
    /\ IF items[keyOf[a]] # NoItem
       THEN /\ out' = Answer("stored", a, v)
            /\ UNCHANGED <<items, recent, availablesize, lost, status>>
       ELSE addCacheItem(a, v)
alterCacheItemAnew(a, v) == Called /\ addCacheItem(a, v)

\* performWrite.  An item that is replaced, though it be one of another address
\* and size, gives no room back and takes none.
alterCacheItem(a, v) ==
    /\ Called
    /\ IF items[keyOf[a]] # NoItem
       THEN /\ items' = [items EXCEPT ![keyOf[a]] = Item(a, v)]
            /\ recent' = Touched(keyOf[a])
            /\ out' = Answer("stored", a, v)
            /\ lost' = lost + size[items[keyOf[a]].globalAddress] - size[a]
            /\ UNCHANGED <<availablesize, status>>
       ELSE addCacheItem(a, v)

\* handleInvalidation: the room is not given back.
removeCacheItem(a) ==
    LET k == keyOf[a] IN
    /\ Called
    /\ items' = [items EXCEPT ![k] = NoItem]
    /\ recent' = RemoveFirst(recent, k)
    /\ lost' = IF items[k] = NoItem THEN lost
               ELSE lost + size[items[k].globalAddress]
    /\ out' = Answer("removed", a, items[k].data)
    /\ UNCHANGED <<availablesize, status>>

Next ==
    \/ \E a \in Gaddr : getCacheItem(a) \/ removeCacheItem(a)
    \/ \E a \in Gaddr, v \in Value : Fetch(a, v) \/ alterCacheItem(a, v)

Spec == Init /\ [][Next]_vars

-----------------------------------------------------------------------------
Used == SumFunction(room)

\* The list of uses names exactly the items that are there, so that eviction
\* always finds an item while there is one; and room is in use, free, or was
\* lost by an invalidation or a collision: no other sequence of adds,
\* alterations and evictions loses or invents any.
RoomAccounted ==
    /\ TypeOK
    /\ Latest(Len(recent)) = Present /\ Len(recent) = Cardinality(Present)
    /\ availablesize + Used + lost = maxsize

\* addCacheItem fails to end only when invalidations and collisions have cost
\* so much room that some item does not even fit into an empty cache.
HangsOnlyWhenDrained ==
    status = "spin" => \E a \in Gaddr : size[a] <= maxsize /\ lost + size[a] > maxsize

\* The cache is a map that forgets but never shows an old value, whatever the
\* order of calls and evictions; addresses with the same key share one value.
Map == INSTANCE ForgetfulMap WITH shown <- [k \in Key |-> items[k].data]
ImplementsForgetfulMap == Map!MapSpec

\* What the name removeOldestItem says: of two items the one that was used
\* earlier is evicted first.
EvictsOldest ==
    [][\A a \in Gaddr, v \in Value, i, j \in DOMAIN recent :
           Fetch(a, v) /\ i < j /\ items'[recent[j]] = NoItem
               => items'[recent[i]] = NoItem]_vars

=============================================================================
