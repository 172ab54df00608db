-------------------------- MODULE MultipartTracker --------------------------
(***************************************************************************)
(* The sender's side of one message, patterns/delivery/                    *)
(* multipart_tracker.hpp: the parts a message is cut into, which of them   *)
(* have been sent ("acquired") and acknowledged, and the choice of the     *)
(* part to send next.  Parts are indexed from 0; part i travels under the  *)
(* serial number first + i.  A time point is a Boolean: TRUE once passed.  *)
(***************************************************************************)
EXTENDS Integers, FiniteSets, FiniteSetsExt

CONSTANT Window  \* _window_size, 200 in the code

ASSUME WindowAssumption == Window \in Nat

Tracker ==
    [id : Nat, count : Nat, first : Nat, acked : SUBSET Nat,
     acquired : SUBSET Nat, current : Nat, headingExp : BOOLEAN, exp : BOOLEAN]

\* A tracker as constructed, and as reset() leaves it.
NewTracker(id, count, first) ==
    [id |-> id, count |-> count, first |-> first, acked |-> {},
     acquired |-> {}, current |-> 0, headingExp |-> TRUE, exp |-> TRUE]

ResetTracker(t) == NewTracker(t.id, t.count, t.first)

Indices(t) == 0 .. (t.count - 1)

LastSn(t) == t.first + t.count - 1

InRangeFromBelow(t, sn) == sn <= LastSn(t)  \* mutant
InRange(t, sn) == t.first <= sn /\ sn <= LastSn(t)

IsAllButOneAcked(t) == Cardinality(t.acked) >= t.count - 1  \* mutant
\* _remain_parts_count = 0
IsComplete(t) == t.acked = Indices(t)

\* Defined for a serial number in range; every acknowledgement, a repeated
\* one too, restarts the expiration of the parts.
TrackerAcknowledge(t, sn) ==
    [t EXCEPT !.acked = @ \cup {sn - t.first}, !.exp = FALSE]

\* All parts are acquired: wait acknowledgement for them until expiration.
AwaitingAcks(t) == t.acquired = Indices(t) /\ ~t.exp

OutOfWindow(t) == Cardinality(t.acquired) > Cardinality(t.acked) + Window

AwaitingHeading(t) == t.current > 0 /\ 0 \notin t.acked

\* The parts of which acquire_next_part sends the first; none when it
\* returns 0.
Sendable(t) ==
    {i \in Indices(t) \ t.acked :
        /\ ~AwaitingAcks(t)
        /\ ~OutOfWindow(t)
        /\ IF AwaitingHeading(t) THEN i = 0 /\ t.headingExp
           ELSE IF t.current < t.count THEN i >= t.current
           ELSE t.exp}

NextPart(t) == Min(Sendable(t))

\* The state after part i is sent; the heading restarts both expirations,
\* any other part restarts none.
AcquirePart(t, i) ==
    [t EXCEPT !.current = i + 1, !.acquired = @ \cup {i},
              !.headingExp = @ /\ i # 0, !.exp = @ /\ i # 0]

\* What a SYN reply (id, sn) does to the tracker: the acknowledged parts
\* become the prefix the receiver has; acquired and the time points stay.
ResetPast(t, id, sn) ==  \* mutant
    IF sn = 0 \/ id # t.id THEN ResetTracker(t)
    ELSE [t EXCEPT !.acked = 0 .. (sn - t.first + 1), !.current = sn - t.first + 2]
ResetTo(t, id, sn) ==
    IF sn = 0 \/ id # t.id THEN ResetTracker(t)
    ELSE [t EXCEPT !.acked = 0 .. (sn - t.first), !.current = sn - t.first + 1]
=============================================================================
