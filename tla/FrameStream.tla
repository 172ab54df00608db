---------------------------- MODULE FrameStream ----------------------------
(***************************************************************************)
(* A connection from the packets one peer writes to those the other peer   *)
(* reads: the account of a socket in writer_pool.hpp with its queue        *)
(* (priority_writer_queue.hpp) and its poller (linux/writer_poller.cpp),   *)
(* the frames (priority_frame.hpp) packets are cut into, and the account   *)
(* in input_controller.hpp that puts them together again.                  *)
(*                                                                         *)
(* The bytes of a packet are all alike: a payload is a sequence with the   *)
(* packet as often as it has bytes.                                        *)
(***************************************************************************)
EXTENDS PriorityTracker, Sequences, SequencesExt

CONSTANTS
    Packets,
    Size,           \* the bytes of each packet
    EmptyFrame,     \* empty_frame_size(): the bytes of a frame besides its payload
    FrameSizes,     \* what max_frame_size is set to
    Throttling,     \* bandwidth_throttling
    RateLimit,      \* the bytes to send in a second
    SlowSteps,      \* whether half a second may pass between a step and the next
    Garbled,        \* what is read when the bytes of several packets are taken for one
    MaxRefusals     \* bound: how often the socket takes no more

ASSUME StreamAssumption ==
    /\ Garbled \notin Packets /\ Size \in [Packets -> Nat \ {0}]
    /\ EmptyFrame \in Nat \ {0}
    /\ FrameSizes # {} /\ IsFiniteSet(FrameSizes)
    /\ \A f \in FrameSizes : f \in Nat /\ f > EmptyFrame
    /\ Throttling \in {"unlimited", "adaptive", "custom"}
    /\ RateLimit \in Nat \ {0} /\ MaxRefusals \in Nat
    /\ SlowSteps \in BOOLEAN

VARIABLES
    queue,      \* _qpool: the packets of each priority, with the bytes not packed yet
    frame,      \* _frame: the bytes of it not sent yet
    idle,       \* _empty
    turn,       \* _priority_tracker
    maxFrame, rate, recent,     \* max_frame_size and the bandwidth data of the account
    writable,   \* "no", "soon" (writable_time_point is to come) or "yes"
    again,      \* writable_counter
    watched,    \* the poller waits until the socket is writable
    dropping,   \* the poller has the socket among its _removable
    polling,    \* the step has sent and is about to poll
    flight,     \* the frames packed and not parsed yet
    raw,        \* how many bytes of them have arrived
    pool,       \* the payloads of each priority that make no packet yet
    failed,     \* history: an assertion has thrown, or the front of an empty queue was read
    written, read,  \* history: the packets of each priority
    cut,        \* history: the size the last frame was cut for
    waiting,    \* history: the frames of others since a priority has waited
    refusals    \* history: how often the socket took no more

account == <<maxFrame, rate, recent, again>>
poller == <<writable, watched, dropping, polling>>
sender == <<queue, frame, idle, turn, flight, cut, waiting>>
receiver == <<raw, pool, read>>
vars == <<sender, account, poller, receiver, failed, written, refusals>>

-----------------------------------------------------------------------------
(* The writer queue.                                                       *)

Enqueue(p, packet) ==
    /\ ~failed
    /\ \A q \in Priorities : packet \notin ToSet(written[q])
    /\ queue' = [queue EXCEPT ![p] = Append(@, [packet |-> packet, left |-> Size[packet]])]
    /\ idle' = FALSE
    /\ written' = [written EXCEPT ![p] = Append(@, packet)]
    /\ UNCHANGED <<frame, turn, flight, cut, waiting, account, poller, receiver, failed, refusals>>

Ready == {p \in Priorities : queue[p] # <<>>}

\* next_priority: the priority whose turn it is, or the next one with packets.  A
\* queue of one priority is not looked at.
NextPriority == IF PriorityCount = 1 THEN 0 ELSE FirstReady(NextTurn(turn), Ready)

\* mutant
TurnStays(p) == turn

TurnOf(p) == IF PriorityCount = 1 THEN turn ELSE SkipTo(NextTurn(turn), p)

\* mutant
PayloadPastSize(front, size) == Min({front.left, size})

\* mutant
PayloadOfSeveral(front, size) == size - EmptyFrame

\* pack: the payload is of one packet.
Payload(front, size) == Min({front.left + EmptyFrame, size}) - EmptyFrame

\* mutant
AfterPackDropping(p, n) == [queue EXCEPT ![p] = Tail(@)]

AfterPack(p, n) ==
    LET front == Head(queue[p])
    IN  [queue EXCEPT ![p] = IF front.left = n THEN Tail(@)
                             ELSE <<[front EXCEPT !.left = front.left - n]>> \o Tail(@)]

\* History: the others that have packets have waited for one more frame.
Waited(p) ==
    [q \in Priorities |-> IF q = p \/ q \notin Ready THEN 0 ELSE waiting[q] + 1]

-----------------------------------------------------------------------------
(* Bandwidth.                                                              *)

\* A refusal makes the adaptive rate slower, the more the higher it is.
SlowerRate ==
    IF rate >= 1024 * 1024 * 1024 THEN rate \div 10
    ELSE IF rate >= 1024 * 1024 THEN (rate * 2) \div 3
    ELSE IF rate >= 1024 THEN (rate * 10) \div 11
    ELSE IF rate > 2 THEN (rate * 100) \div 101 ELSE rate

RateNow == IF Throttling = "adaptive" /\ again > 0 THEN SlowerRate ELSE rate

\* mutant
TunedUncounted(over) == IF Throttling = "unlimited" THEN maxFrame ELSE Min({maxFrame, RateNow})

\* tune_frame_size; over: more than a second has passed since the count began.
Tuned(over) ==
    IF Throttling = "unlimited" THEN maxFrame
    ELSE IF over THEN Min({maxFrame, RateNow})
    ELSE IF recent < RateNow THEN Max({Min({maxFrame, RateNow - recent}), maxFrame})
    ELSE 0

\* The count matters only to a limit.
Counted(over, n) ==
    recent' = IF Throttling = "unlimited" THEN 0 ELSE (IF over THEN 0 ELSE recent) + n

SetFrameSize(size) ==
    /\ ~failed
    /\ maxFrame' = size
    /\ UNCHANGED <<sender, rate, recent, again, poller, receiver, failed, written, refusals>>

-----------------------------------------------------------------------------
(* The writer pool: a step sends, then polls.                              *)

\* do_send of an account that may send, with a frame size.
Sends(over, size) ==
    /\ ~failed /\ ~polling /\ writable = "yes"
    /\ size = Tuned(over)
    /\ polling' = TRUE
    /\ rate' = RateNow
    /\ UNCHANGED <<maxFrame, dropping, receiver, written>>

AgainNow == IF Throttling = "adaptive" THEN 0 ELSE again

\* mutant
RefusedUnwatched(left) ==
    /\ refusals < MaxRefusals
    /\ refusals' = refusals + 1
    /\ frame' = left
    /\ writable' = "no" /\ again' = AgainNow + 1
    /\ UNCHANGED watched

\* The socket takes no more: the frame is kept until it does.
Refused(left) ==
    /\ refusals < MaxRefusals
    /\ refusals' = refusals + 1
    /\ frame' = left
    /\ writable' = "no" /\ again' = AgainNow + 1
    /\ watched' = TRUE

\* The socket takes a part of the frame, or nothing.
Transmit(over, left) ==
    \/ \E n \in 1 .. left :
           /\ frame' = left - n
           /\ Counted(over, n)
           /\ again' = AgainNow
           /\ UNCHANGED <<writable, watched, refusals>>
    \/ Refused(left) /\ Counted(over, 0)

SendsNothing(over) ==
    /\ again' = AgainNow
    /\ Counted(over, 0)
    /\ UNCHANGED <<queue, frame, flight, cut, waiting, writable, watched, refusals>>

\* An assertion throws.
SendThrows(over) ==
    /\ failed' = TRUE
    /\ SendsNothing(over)
    /\ UNCHANGED <<idle, turn>>

\* The account may not send yet.
NotWritable ==
    /\ ~failed /\ ~polling /\ writable # "yes"
    /\ polling' = TRUE
    /\ UNCHANGED <<sender, account, writable, watched, dropping, receiver, failed, written,
                   refusals>>

Throttle(over) ==
    /\ Sends(over, 0)
    /\ SendsNothing(over)
    /\ UNCHANGED <<idle, turn, failed>>

\* acquire_frame: the frame that is not sent whole, if it is not too long now.
SendRest(over, size) ==
    /\ size > 0 /\ Sends(over, size)
    /\ frame > 0
    /\ IF frame > size THEN SendThrows(over)
       ELSE Transmit(over, frame) /\ UNCHANGED <<queue, idle, turn, flight, cut, waiting, failed>>

SendNoFrame(over, size) ==
    /\ size > 0 /\ Sends(over, size)
    /\ frame = 0
    /\ idle \/ (PriorityCount > 1 /\ Ready = {})
    /\ idle' = TRUE
    /\ turn' = IF idle THEN turn ELSE SkipAll(NextTurn(turn))
    /\ SendsNothing(over) /\ UNCHANGED failed

SendFrame(over, size) ==
    LET p == NextPriority
        front == Head(queue[p])
        n == Payload(front, size)
    IN  /\ size > 0 /\ Sends(over, size)
        /\ frame = 0 /\ ~idle /\ (PriorityCount = 1 \/ Ready # {})
        /\ IF queue[p] = <<>> \/ n <= 0 THEN SendThrows(over)
           ELSE /\ Transmit(over, n + EmptyFrame)
                /\ queue' = AfterPack(p, n)
                /\ turn' = TurnOf(p)
                /\ flight' = Append(flight, [priority |-> p, packet |-> front.packet, bytes |-> n])
                /\ cut' = size /\ waiting' = Waited(p)
                /\ UNCHANGED <<idle, failed>>

Bytes(frames) == FoldLeft(LAMBDA sum, f : sum + f.bytes + EmptyFrame, 0, frames)

\* The bytes the socket has taken that have not arrived.
InTransit == Bytes(flight) - frame - raw

\* What was to be removed at the last poll is no longer watched, even if it has
\* been asked for since.  A socket with nothing in transit is writable.
Poll ==
    LET still == watched /\ ~dropping
    IN  /\ ~failed /\ polling
        /\ polling' = FALSE
        /\ watched' = still
        /\ \/ still /\ writable' = "soon" /\ dropping' = TRUE
           \/ (still => InTransit > 0) /\ dropping' = FALSE /\ UNCHANGED writable
        /\ UNCHANGED <<sender, account, receiver, failed, written, refusals>>

\* The half a second of writable_time_point has passed.
Ripens ==
    /\ writable = "soon"
    /\ SlowSteps \/ ~dropping
    /\ writable' = "yes"
    /\ UNCHANGED <<sender, account, watched, dropping, polling, receiver, failed, written,
                   refusals>>

-----------------------------------------------------------------------------
(* The receiving end.                                                      *)

\* The frames that are complete once there are that many bytes.
Complete(bytes) ==
    Max({j \in 0 .. Len(flight) : Bytes(SubSeq(flight, 1, j)) <= bytes})

\* The payloads of the first j frames, by priority.
Payloads(p, j) ==
    FlattenSeq([i \in 1 .. j |->
        [b \in 1 .. IF flight[i].priority = p THEN flight[i].bytes ELSE 0 |-> flight[i].packet]])

\* process_input: the bytes of a priority are a packet once there are as many as
\* the packet they begin with is long.
Parsed(bytes) ==
    FoldLeft(LAMBDA parsed, b :
                 LET rest == Append(parsed.rest, b)
                 IN  IF Len(rest) < Size[Head(rest)] THEN [parsed EXCEPT !.rest = rest]
                     ELSE [packets |-> Append(parsed.packets,
                                              IF ToSet(rest) = {b} THEN b ELSE Garbled),
                           rest |-> <<>>],
             [packets |-> <<>>, rest |-> <<>>],
             bytes)

Receive(n) ==
    LET j == Complete(raw + n)
        parsed == [p \in Priorities |-> Parsed(pool[p] \o Payloads(p, j))]
    IN  /\ n <= InTransit
        /\ raw' = raw + n - Bytes(SubSeq(flight, 1, j))
        /\ flight' = SubSeq(flight, j + 1, Len(flight))
        /\ pool' = [p \in Priorities |-> parsed[p].rest]
        /\ read' = [p \in Priorities |-> read[p] \o parsed[p].packets]
        /\ UNCHANGED <<queue, frame, idle, turn, cut, waiting, account, poller, failed,
                       written, refusals>>

-----------------------------------------------------------------------------

Init ==
    /\ queue = [p \in Priorities |-> <<>>]
    /\ frame = 0 /\ idle = TRUE /\ turn = InitialTurn
    /\ maxFrame \in FrameSizes /\ rate = RateLimit /\ recent = 0
    /\ writable = "no" /\ again = 0
    /\ watched = TRUE /\ dropping = FALSE /\ polling = FALSE
    /\ flight = <<>> /\ raw = 0 /\ failed = FALSE
    /\ pool = queue /\ written = queue /\ read = queue
    /\ cut = 0 /\ waiting = [p \in Priorities |-> 0] /\ refusals = 0

SendAt(over) ==
    \/ Throttle(over)
    \/ \E size \in {Tuned(over)} :
           SendRest(over, size) \/ SendNoFrame(over, size) \/ SendFrame(over, size)

Send == NotWritable \/ \E over \in BOOLEAN : SendAt(over)

Arrive == \E n \in 1 .. Bytes(flight) : Receive(n)

Next ==
    \/ \E p \in Priorities, packet \in Packets : Enqueue(p, packet)
    \/ \E size \in FrameSizes : SetFrameSize(size)
    \/ Send \/ Poll \/ Ripens \/ Arrive

Spec == Init /\ [][Next]_vars

\* The peer goes on with its steps, time passes, and what is sent arrives.  Time
\* passes too while the account is throttled: of the steps that could send, some
\* are more than a second after the count began.
Fairness ==
    /\ WF_vars(Send) /\ WF_vars(Poll) /\ WF_vars(Ripens) /\ WF_vars(Arrive)
    /\ SF_vars(SendAt(TRUE))

FairSpec == Spec /\ Fairness

-----------------------------------------------------------------------------
(* Properties.                                                             *)

Entry == [packet : Packets, left : Nat \ {0}]

TypeOK ==
    /\ queue \in [Priorities -> Seq(Entry)] /\ turn \in PriorityTracker
    /\ frame \in 0 .. Max(FrameSizes) /\ cut \in 0 .. Max(FrameSizes)
    /\ maxFrame \in FrameSizes /\ rate \in 1 .. RateLimit /\ recent \in Nat
    /\ writable \in {"no", "soon", "yes"} /\ again \in 0 .. MaxRefusals
    /\ {idle, watched, dropping, polling, failed} \subseteq BOOLEAN
    /\ flight \in Seq([priority : Priorities, packet : Packets, bytes : Nat \ {0}])
    /\ raw \in Nat /\ InTransit \in Nat
    /\ pool \in [Priorities -> Seq(Packets)]
    /\ written \in [Priorities -> Seq(Packets)] /\ waiting \in [Priorities -> Nat]

\* No assertion of the queue or of the frame throws out of peer::step: the queue
\* that is packed has a packet, the frame has room for a byte, and the rest of a
\* frame fits the size it is asked for with (priority_writer_queue.hpp:70, :125,
\* :146, priority_frame.hpp:96).
AssertionsHold == ~failed

SmallestSize == IF Throttling = "unlimited" THEN maxFrame ELSE Min({maxFrame, rate})

\* An assertion throws for three reasons only: a queue of one priority was not looked
\* at and is empty, the rate has fallen so far that a frame has no room for a byte, or
\* the rest of a frame is longer than the size that is asked for now, which has become
\* smaller since the frame was cut to fit (priority_writer_queue.hpp:58, :125,
\* priority_frame.hpp:96).
ThrowsOnlyWhenShrunk ==
    failed => \/ PriorityCount = 1 /\ queue[0] = <<>>
              \/ SmallestSize <= EmptyFrame
              \/ SmallestSize < frame /\ frame <= cut

\* A priority that has packets waits for no more frames of the others than a round
\* of their weights and, as a skip comes before the count (priority_tracker.hpp:52),
\* one more of each.
ServedInTurn ==
    \A p \in Priorities :
        waiting[p] <= MapThenSumSet(LAMBDA q : Distribution[q] + 1, Priorities \ {p})

\* A socket that takes no more is waited for, so that it will be written to again
\* (writer_pool.hpp:444, writer_poller.hpp:52).
StaysWatched == writable = "no" => watched /\ ~dropping

\* No more than the limit is sent in a second (writer_pool.hpp:509).
RateKept == Throttling = "unlimited" \/ recent <= rate

\* What is sent in a second is over the limit by less than a frame, and stays there
\* while the adaptive rate goes down (writer_pool.hpp:509, :515).
RateWithinFrame ==
    Throttling = "unlimited" \/ recent < RateLimit + Max(FrameSizes)

Channel == INSTANCE PriorityChannel

\* However packets are cut, interleaved, sent in parts and put together, they are
\* read as PriorityChannel promises.
ImplementsChannel == Channel!Spec

\* What is written is read in the end.
EventuallyRead == \A p \in Priorities : <>[](read[p] = written[p])
=============================================================================
