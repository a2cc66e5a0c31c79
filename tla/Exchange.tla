------------------------------- MODULE Exchange -------------------------------
(***************************************************************************)
(* The two peers of a tcp connection write a record and then read one, at  *)
(* both ends in this order and several times: the addresses of their queue *)
(* pairs, then for every call the regions that the other may write.        *)
(* tcp::write and tcp::read loop over send and recv, which move as many    *)
(* bytes as they like; the stream knows no records.                        *)
(*                                                                         *)
(* The kernel's part, a stream that holds Capacity bytes for each side, is *)
(* external.  A peer may end at any time if MayEnd.                        *)
(***************************************************************************)
EXTENDS Naturals, Sequences, FiniteSetsExt

CONSTANTS
    Peer,
    Rounds,     \* how many records each of them writes
    Size,       \* the bytes of a record
    Capacity,   \* the bytes the kernel holds for a reader
    MayEnd

ExchangeAssumption ==
    /\ \E p, q \in Peer : p # q /\ Peer = {p, q}
    /\ Rounds \in Nat \ {0} /\ Size \in Nat \ {0} /\ Capacity \in Nat /\ MayEnd \in BOOLEAN

VARIABLES
    pc,       \* the loop a peer is in
    round,    \* and the round it is in
    current,  \* the bytes done of this record
    wire,     \* wire[p]: the bytes p has sent that have not been received
    buffer,   \* what p reads into
    got       \* the records p has read

vars == <<pc, round, current, wire, buffer, got>>

Other(p) == CHOOSE q \in Peer : q # p

\* The byte at an offset of p's record of a round.
Byte(p, r, i) == <<p, r, i>>
RecordOf(p, r) == [i \in 1 .. Size |-> Byte(p, r, i)]

TypeOK ==
    /\ pc \in [Peer -> {"write", "read", "closed", "ended"}]
    /\ round \in [Peer -> 1 .. (Rounds + 1)] /\ current \in [Peer -> 0 .. (Size - 1)]
    /\ \A p \in Peer : /\ Len(wire[p]) <= Capacity /\ Len(got[p]) <= Rounds
                       /\ DOMAIN buffer[p] = 1 .. Size

Init ==
    /\ pc = [p \in Peer |-> "write"] /\ round = [p \in Peer |-> 1]
    /\ current = [p \in Peer |-> 0] /\ wire = [p \in Peer |-> << >>]
    /\ buffer = [p \in Peer |-> RecordOf(p, 1)]
    /\ got = [p \in Peer |-> << >>]

-----------------------------------------------------------------------------

\* A turn of the loop of tcp::write: send takes some of what is left.  The
\* record is in the variable that will be read into.
Write(p) ==
    /\ pc[p] = "write"
    /\ \E res \in 1 .. Min({Size - current[p], Capacity - Len(wire[p])}) :
          LET to == current[p] + res IN
          /\ wire' = [wire EXCEPT ![p] = @ \o SubSeq(buffer[p], current[p] + 1, to)]
          /\ current' = [current EXCEPT ![p] = IF to = Size THEN 0 ELSE to]
          /\ pc' = [pc EXCEPT ![p] = IF to = Size THEN "read" ELSE "write"]
    /\ UNCHANGED <<round, buffer, got>>

\* What p has read becomes known; the next call has a record of its own.
Took(p, record) ==
    /\ got' = [got EXCEPT ![p] = Append(@, record)]
    /\ round' = [round EXCEPT ![p] = @ + 1]
    /\ pc' = [pc EXCEPT ![p] = IF round[p] = Rounds THEN "closed" ELSE "write"]
    /\ buffer' = [buffer EXCEPT ![p] = RecordOf(p, round[p] + 1)]
    /\ current' = [current EXCEPT ![p] = 0]

\* Mutant: every turn reads to the beginning of the record.
ReadAtStart(p) ==
    LET from == wire[Other(p)] IN
    /\ pc[p] = "read"
    /\ \E res \in 1 .. Min({Size - current[p], Len(from)}) :
          LET to   == current[p] + res
              read == [i \in 1 .. Size |-> IF i <= res THEN from[i] ELSE buffer[p][i]] IN
          /\ wire' = [wire EXCEPT ![Other(p)] = SubSeq(@, res + 1, Len(@))]
          /\ IF to = Size
             THEN Took(p, read)
             ELSE /\ current' = [current EXCEPT ![p] = to]
                  /\ buffer' = [buffer EXCEPT ![p] = read]
                  /\ UNCHANGED <<pc, round, got>>

\* A turn of the loop of tcp::read.
Read(p) ==
    LET from == wire[Other(p)] IN
    /\ pc[p] = "read"
    /\ \E res \in 1 .. Min({Size - current[p], Len(from)}) :
          LET to   == current[p] + res
              read == [i \in 1 .. Size |-> IF i \in (current[p] + 1) .. to
                                           THEN from[i - current[p]] ELSE buffer[p][i]] IN
          /\ wire' = [wire EXCEPT ![Other(p)] = SubSeq(@, res + 1, Len(@))]
          /\ IF to = Size
             THEN Took(p, read)
             ELSE /\ current' = [current EXCEPT ![p] = to]
                  /\ buffer' = [buffer EXCEPT ![p] = read]
                  /\ UNCHANGED <<pc, round, got>>

\* send or recv fails when the other end is gone, and nobody catches that.  A
\* recv that finds the end of the stream instead is tried again for ever.
Fail(p) ==
    /\ pc[p] \in {"write", "read"} /\ pc[Other(p)] \in {"closed", "ended"}
    /\ pc[Other(p)] = "closed" => wire[Other(p)] = << >>
    /\ pc' = [pc EXCEPT ![p] = "ended"]
    /\ UNCHANGED <<round, current, wire, buffer, got>>

End(p) ==
    /\ MayEnd /\ pc[p] \in {"write", "read"}
    /\ pc' = [pc EXCEPT ![p] = "ended"]
    /\ UNCHANGED <<round, current, wire, buffer, got>>

Next == \E p \in Peer : Write(p) \/ Read(p) \/ Fail(p) \/ End(p)

Spec == Init /\ [][Next]_vars

FairSpec == Spec /\ \A p \in Peer : WF_vars(Write(p) \/ Read(p))

-----------------------------------------------------------------------------
\* However send and recv cut the stream, both sides read the records that the
\* other wrote, whole and in step.
RecordsSwapped == INSTANCE Swap
ImplementsSwap == RecordsSwapped!Spec

\* Both may write first: a side that is not deserted gets through, and only one
\* that the other has deserted may read for ever.
PeersFinish ==
    \A p \in Peer : pc[p] \in {"write", "read"} ~>
        pc[p] \in {"closed", "ended"} \/ pc[Other(p)] = "ended"

=============================================================================
