------------------------------ MODULE Delivery ------------------------------
(***************************************************************************)
(* Reliable delivery between two nodes of a mesh: the delivery_controller  *)
(* that the manager of each node keeps for its peer (patterns/delivery/),  *)
(* wired to the node by reliable_node.hpp.  A controller holds both        *)
(* directions: trackers of the messages it sends, assemblers of those it   *)
(* receives.                                                               *)
(*                                                                         *)
(* The link is what the node below offers: one FIFO queue per direction    *)
(* and priority, emptied when the channel breaks.  Each end notices a      *)
(* break, and a new channel, in its own time.                              *)
(***************************************************************************)
EXTENDS Integers, Sequences, FiniteSets, FiniteSetsExt,
        PriorityTracker, MultipartTracker, MultipartAssembler

CONSTANTS
    Nodes,
    Peer,           \* the node each node exchanges messages with
    Senders,        \* the nodes whose application sends messages
    PartCounts,     \* numbers of parts of the messages sent
    SynMayExpire,   \* whether a SYN reply may take longer than the timeout
    MaxMessages,    \* bound on messages accepted, over all nodes
    MaxInFlight,    \* bound on packets in flight when a part or SYN is sent
    MaxBreaks,      \* bound on channel breaks
    MaxReroutes,    \* bound on losses of packets under a surviving route
    MaxRestarts     \* bound on restarts of a process

ASSUME DeliveryAssumption ==
    /\ Peer \in [Nodes -> Nodes]
    /\ \A n \in Nodes : Peer[n] # n /\ Peer[Peer[n]] = n
    /\ Senders \subseteq Nodes
    /\ PartCounts \subseteq Nat
    /\ SynMayExpire \in BOOLEAN
    /\ {MaxMessages, MaxInFlight, MaxBreaks, MaxReroutes, MaxRestarts} \subseteq Nat

VARIABLES
    created,      \* whether manager._controllers holds the controller
    suspended,    \* _suspended
    syn,          \* _syn_state
    synExp,       \* whether _exp_syn has passed
    turn,         \* _priority_tracker
    queue,        \* _trackers[p].q
    lastSn,       \* _trackers[p].last_sn
    assembler,    \* _assemblers[p].assembler
    chan,         \* packets sent by a node and not yet read by its peer
    link,         \* "up" while a channel connects the nodes
    reachable,    \* whether the node knows a route to its peer
    sent,         \* history: every message accepted, numbered from 1
    received,     \* history: messages passed to on_message_received
    delivered,    \* history: messages passed to on_message_delivered
    lost,         \* history: messages passed to on_message_lost
    abandoned,    \* history: messages queued in a process that restarted
    breaks, reroutes, restarts

synVars == <<created, suspended, syn, synExp>>
outVars == <<turn, queue, lastSn>>
netVars == <<chan, link, reachable>>
histVars == <<sent, received, delivered, lost, abandoned>>
boundVars == <<breaks, reroutes, restarts>>
vars == <<synVars, outVars, assembler, netVars, histVars, boundVars>>

SynStates == {"initial", "resuming", "requesting", "completed"}

Packet ==
    [type : {"syn_rst", "syn_req"}]
    \cup [type : {"syn_rep"}, sns : [Priorities -> Nat \X Nat]]
    \cup [type : {"ack"}, sn : Nat]
    \cup [type : {"message"}, id : Nat, sn : Nat, last : Nat]
    \* A part carries no message id; "of" is the message it was cut from.
    \cup [type : {"part"}, sn : Nat, of : Nat]

Message == [from : Nodes, priority : Priorities, first : Nat, count : Nat]

Init ==
    /\ created = [n \in Nodes |-> FALSE]
    /\ suspended = [n \in Nodes |-> FALSE]
    /\ syn = [n \in Nodes |-> "initial"]
    /\ synExp = [n \in Nodes |-> FALSE]
    /\ turn = [n \in Nodes |-> InitialTurn]
    /\ queue = [n \in Nodes |-> [p \in Priorities |-> <<>>]]
    /\ lastSn = [n \in Nodes |-> [p \in Priorities |-> 0]]
    /\ assembler = [n \in Nodes |-> [p \in Priorities |-> NoAssembler]]
    /\ chan = [n \in Nodes |-> [p \in Priorities |-> <<>>]]
    /\ link = "up"
    /\ reachable = [n \in Nodes |-> FALSE]
    /\ sent = <<>>
    /\ received = {}
    /\ delivered = {}
    /\ lost = {}
    /\ abandoned = {}
    /\ breaks = 0
    /\ reroutes = 0
    /\ restarts = 0

-----------------------------------------------------------------------------
(***************************************************************************)
(* The manager's loop.                                                     *)
(***************************************************************************)

Busy(n) == {p \in Priorities : queue[n][p] # <<>>}

\* step() gets past its first two returns.
Active(n) == ~suspended[n] /\ Busy(n) # {}

\* step() of such a controller throws in initiate_syn_request, and the
\* manager's step() never gets to step the node below: nothing is read.
Stuck(n) == Active(n) /\ syn[n] = "requesting" /\ synExp[n]

InFlight ==
    MapThenSumSet(LAMBDA n : MapThenSumSet(LAMBDA p : Len(chan[n][p]), Priorities), Nodes)

\* A packet sent into a broken channel is lost.
Send(n, p, packet) ==
    chan' = IF link = "up" THEN [chan EXCEPT ![n][p] = Append(@, packet)] ELSE chan

Front(n, p) == Head(queue[n][p])

SetFront(n, p, t) == [queue EXCEPT ![n][p][1] = t]

\* The queue of trackers with one more at its end.
EnqueuedInFront(n, p, t) == <<t>> \o queue[n][p]  \* mutant
Enqueued(n, p, t) == Append(queue[n][p], t)

\* The application of n sends a message of count parts.
EnqueueMessage(n, p, count) ==
    /\ reachable[n]
    /\ Len(sent) < MaxMessages
    /\ LET first == lastSn[n][p] + 1
           t == NewTracker(Len(sent) + 1, count, first)
       IN  /\ queue' = [queue EXCEPT ![n][p] = Enqueued(n, p, t)]
           /\ lastSn' = [lastSn EXCEPT ![n][p] = LastSn(t)]
           /\ sent' = Append(sent, [from |-> n, priority |-> p, first |-> first, count |-> count])
    /\ created' = [created EXCEPT ![n] = TRUE]
    /\ UNCHANGED <<suspended, syn, synExp, turn, assembler, netVars,
                   received, delivered, lost, abandoned, boundVars>>

SynRequestAlwaysReset(n) == [type |-> "syn_rst"]  \* mutant
SynRequest(n) == [type |-> IF syn[n] = "initial" THEN "syn_rst" ELSE "syn_req"]

InitiateSyn(n) ==
    /\ Active(n)
    /\ syn[n] \in {"initial", "resuming"}
    /\ InFlight < MaxInFlight
    /\ Send(n, 0, SynRequest(n))
    /\ syn' = [syn EXCEPT ![n] = "requesting"]
    /\ synExp' = [synExp EXCEPT ![n] = FALSE]
    /\ UNCHANGED <<created, suspended, outVars, assembler, link, reachable,
                   histVars, boundVars>>

Ready(n) == {p \in Busy(n) : Sendable(Front(n, p)) # {}}

PartPacket(t, i) ==
    IF i = 0 THEN [type |-> "message", id |-> t.id, sn |-> t.first, last |-> LastSn(t)]
    ELSE [type |-> "part", sn |-> t.first + i, of |-> t.id]

\* The scan over the priorities stops at the first that has a part to send.
SendPart(n) ==
    /\ Active(n)
    /\ syn[n] = "completed"
    /\ Ready(n) # {}
    /\ InFlight < MaxInFlight
    /\ LET p == FirstReady(turn[n], Ready(n))
           t == Front(n, p)
           i == NextPart(t)
       IN  /\ Send(n, p, PartPacket(t, i))
           /\ queue' = SetFront(n, p, AcquirePart(t, i))
           /\ turn' = [turn EXCEPT ![n] = NextTurn(SkipTo(@, p))]
    /\ UNCHANGED <<synVars, lastSn, assembler, link, reachable, histVars, boundVars>>

\* Nothing to send: every priority is skipped.
ScanInVain(n) ==
    /\ Active(n)
    /\ syn[n] = "completed"
    /\ Ready(n) = {}
    /\ turn' = [turn EXCEPT ![n] = SkipAll(@)]
    /\ UNCHANGED <<synVars, queue, lastSn, assembler, netVars, histVars, boundVars>>

-----------------------------------------------------------------------------
(***************************************************************************)
(* Incoming packets.  A node reads what its peer sent over the channel     *)
(* once its own end is ready; a packet creates the controller.             *)
(***************************************************************************)

Receivable(n, p) ==
    /\ link = "up"
    /\ reachable[n]
    /\ ~Stuck(n)
    /\ chan[Peer[n]][p] # <<>>

Incoming(n, p) == Head(chan[Peer[n]][p])

\* A packet of the type is read at priority p, the replies go out at q.
Exchange(n, p, type, q, replies) ==
    /\ Receivable(n, p)
    /\ Incoming(n, p).type = type
    /\ chan' = [chan EXCEPT ![Peer[n]][p] = Tail(@), ![n][q] = @ \o replies]
    /\ created' = [created EXCEPT ![n] = TRUE]
    /\ UNCHANGED <<link, reachable, sent, abandoned, boundVars>>

Assemblers(n) == {assembler[n][p] : p \in Priorities} \ {NoAssembler}

SynReply(as) ==
    [type |-> "syn_rep", sns |-> [p \in Priorities |-> <<as[p].id, LowestAckedSn(as[p])>>]]

ReceiveSynRst(n, p) ==
    LET reset == [q \in Priorities |-> NoAssembler]
    IN  /\ Exchange(n, p, "syn_rst", 0, <<SynReply(reset)>>)
        /\ assembler' = [assembler EXCEPT ![n] = reset]
        /\ lost' = lost \cup {a.id : a \in Assemblers(n)}
        /\ UNCHANGED <<suspended, syn, synExp, outVars, received, delivered>>

ReceiveSynReq(n, p) ==
    /\ Exchange(n, p, "syn_req", 0, <<SynReply(assembler[n])>>)
    /\ UNCHANGED <<suspended, syn, synExp, outVars, assembler, received, delivered, lost>>

\* The assertion of reset_to: a part of the message being sent.
ReplyMatches(n, sns) ==
    \A q \in Busy(n) :
        LET t == Front(n, q)
        IN  sns[q][1] = t.id /\ sns[q][2] # 0 => InRange(t, sns[q][2])

\* The message being sent at each priority goes on from where the receiver is.
ReceiveSynRep(n, p) ==
    LET sns == Incoming(n, p).sns
    IN  /\ Exchange(n, p, "syn_rep", 0, <<>>)
        /\ ReplyMatches(n, sns)
        /\ queue' = [queue EXCEPT ![n] = [q \in Priorities |->
               IF q \in Busy(n)
               THEN [queue[n][q] EXCEPT ![1] = ResetTo(Front(n, q), sns[q][1], sns[q][2])]
               ELSE <<>>]]
        /\ syn' = [syn EXCEPT ![n] = "completed"]
        /\ UNCHANGED <<suspended, synExp, turn, lastSn, assembler, received, delivered, lost>>

Acknowledges(n, p, sn) == queue[n][p] # <<>> /\ InRange(Front(n, p), sn)

\* The acknowledgement of a part of the message being sent; the last one
\* delivers it.
ReceiveAck(n, p) ==
    LET sn == Incoming(n, p).sn
        t == Front(n, p)
        acked == TrackerAcknowledge(t, sn)
    IN  /\ Exchange(n, p, "ack", p, <<>>)
        /\ Acknowledges(n, p, sn)
        /\ IF IsComplete(acked)
           THEN /\ queue' = [queue EXCEPT ![n][p] = Tail(@)]
                /\ delivered' = delivered \cup {t.id}
           ELSE /\ queue' = SetFront(n, p, acked)
                /\ UNCHANGED delivered
        /\ UNCHANGED <<suspended, syn, synExp, turn, lastSn, assembler, received, lost>>

IgnoreAck(n, p) ==
    /\ Exchange(n, p, "ack", p, <<>>)
    /\ ~Acknowledges(n, p, Incoming(n, p).sn)
    /\ UNCHANGED <<suspended, syn, synExp, outVars, assembler, received, delivered, lost>>

\* enqueue_ack_packet: a suspended controller acknowledges nothing.
Ack(n, sn) == IF suspended[n] THEN <<>> ELSE <<[type |-> "ack", sn |-> sn]>>

\* The assembler a heading puts in place of old.
StartedUnlessBusy(old, packet) ==  \* mutant
    IF old = NoAssembler
    THEN AssemblerAcknowledge(NewAssembler(packet.id, packet.sn, packet.last), packet.sn)
    ELSE old
Started(old, packet) ==
    AssemblerAcknowledge(NewAssembler(packet.id, packet.sn, packet.last), packet.sn)

\* The end of process_message_part: a whole message goes to the application.
KeepOrHandOver(n, p, a) ==
    /\ assembler' = [assembler EXCEPT ![n][p] = IF IsAssembled(a) THEN NoAssembler ELSE a]
    /\ received' = IF IsAssembled(a) THEN received \cup {a.id} ELSE received

\* The assertion on a repeated heading.
HeadingMatches(a, packet) ==
    a.id = packet.id => a.first = packet.sn /\ a.last = packet.last

\* A heading always starts a new assembler; the unfinished message of another
\* id is lost.
ReceiveHeading(n, p) ==
    LET packet == Incoming(n, p)
        old == assembler[n][p]
    IN  /\ Exchange(n, p, "message", p, Ack(n, packet.sn))
        /\ HeadingMatches(old, packet)
        /\ KeepOrHandOver(n, p, Started(old, packet))
        /\ lost' = IF old = NoAssembler \/ old.id = packet.id THEN lost ELSE lost \cup {old.id}
        /\ UNCHANGED <<suspended, syn, synExp, outVars, delivered>>

ReceivePart(n, p) ==
    LET packet == Incoming(n, p)
        a == assembler[n][p]
    IN  /\ Exchange(n, p, "part", p, Ack(n, packet.sn))
        /\ a # NoAssembler
        /\ AssemblerInRange(a, packet.sn)
        /\ KeepOrHandOver(n, p, AssemblerAcknowledge(a, packet.sn))
        /\ UNCHANGED <<suspended, syn, synExp, outVars, delivered, lost>>

\* A part that comes while no heading has is ignored, not acknowledged.
IgnorePart(n, p) ==
    /\ Exchange(n, p, "part", p, <<>>)
    /\ assembler[n][p] = NoAssembler
    /\ UNCHANGED <<suspended, syn, synExp, outVars, assembler, received, delivered, lost>>

Receive(n, p) ==
    \/ ReceiveSynRst(n, p)
    \/ ReceiveSynReq(n, p)
    \/ ReceiveSynRep(n, p)
    \/ ReceiveAck(n, p)
    \/ IgnoreAck(n, p)
    \/ ReceiveHeading(n, p)
    \/ ReceivePart(n, p)
    \/ IgnorePart(n, p)

-----------------------------------------------------------------------------
(***************************************************************************)
(* Time.  The parts' expiration is set whenever the heading's is, or later. *)
(***************************************************************************)

ExpireSyn(n) ==
    /\ SynMayExpire
    /\ syn[n] = "requesting"
    /\ ~synExp[n]
    /\ synExp' = [synExp EXCEPT ![n] = TRUE]
    /\ UNCHANGED <<created, suspended, syn, outVars, assembler, netVars, histVars, boundVars>>

ExpireTracker(n, p) ==
    /\ queue[n][p] # <<>>
    /\ LET t == Front(n, p)
       IN  /\ ~t.exp
           /\ queue' = SetFront(n, p,
                  IF t.headingExp THEN [t EXCEPT !.exp = TRUE] ELSE [t EXCEPT !.headingExp = TRUE])
    /\ UNCHANGED <<synVars, turn, lastSn, assembler, netVars, histVars, boundVars>>

-----------------------------------------------------------------------------
(***************************************************************************)
(* The node below: channels, routes and processes.                         *)
(***************************************************************************)

NoPackets == [n \in Nodes |-> [p \in Priorities |-> <<>>]]

Break ==
    /\ link = "up"
    /\ breaks < MaxBreaks
    /\ breaks' = breaks + 1
    /\ link' = "down"
    /\ chan' = NoPackets
    /\ UNCHANGED <<synVars, outVars, assembler, reachable, histVars, reroutes, restarts>>

\* One of several routes to the peer is lost.  The peer stays reachable, so
\* neither controller hears of it, but the packets that had not passed the
\* broken hop are gone.
Reroute(n, p) ==
    /\ link = "up"
    /\ reachable[n]
    /\ reroutes < MaxReroutes
    /\ reroutes' = reroutes + 1
    /\ \E kept \in 0 .. (Len(chan[n][p]) - 1) :
           chan' = [chan EXCEPT ![n][p] = SubSeq(@, 1, kept)]
    /\ UNCHANGED <<synVars, outVars, assembler, link, reachable, histVars, breaks, restarts>>

\* manager::suspend and manager::resume.
SuspendMissed(n) == UNCHANGED suspended  \* mutant
Suspend(n) == suspended' = [suspended EXCEPT ![n] = created[n]]

ResumeWithoutSyn(n) ==  \* mutant
    /\ suspended' = [suspended EXCEPT ![n] = FALSE]
    /\ UNCHANGED syn
Resume(n) ==
    /\ suspended' = [suspended EXCEPT ![n] = FALSE]
    /\ syn' = [syn EXCEPT ![n] = IF suspended[n] THEN "resuming" ELSE @]

\* on_node_unreachable at one end.
Unreachable(n) ==
    /\ link = "down"
    /\ reachable[n]
    /\ ~Stuck(n)
    /\ reachable' = [reachable EXCEPT ![n] = FALSE]
    /\ Suspend(n)
    /\ UNCHANGED <<created, syn, synExp, outVars, assembler, chan, link, histVars, boundVars>>

\* A new channel takes the place of one both ends have given up.
Reconnect ==
    /\ link = "down"
    /\ \A n \in Nodes : ~reachable[n]
    /\ link' = "up"
    /\ UNCHANGED <<synVars, outVars, assembler, chan, reachable, histVars, boundVars>>

\* on_route_ready at one end.
RouteReady(n) ==
    /\ link = "up"
    /\ ~reachable[n]
    /\ reachable' = [reachable EXCEPT ![n] = TRUE]
    /\ Resume(n)
    /\ UNCHANGED <<created, synExp, outVars, assembler, chan, link, histVars, boundVars>>

\* The process of n ends and starts again with nothing of its past.
Restart(n) ==
    /\ restarts < MaxRestarts
    /\ restarts' = restarts + 1
    /\ created' = [created EXCEPT ![n] = FALSE]
    /\ suspended' = [suspended EXCEPT ![n] = FALSE]
    /\ syn' = [syn EXCEPT ![n] = "initial"]
    /\ synExp' = [synExp EXCEPT ![n] = FALSE]
    /\ turn' = [turn EXCEPT ![n] = InitialTurn]
    /\ queue' = [queue EXCEPT ![n] = [p \in Priorities |-> <<>>]]
    /\ lastSn' = [lastSn EXCEPT ![n] = [p \in Priorities |-> 0]]
    /\ assembler' = [assembler EXCEPT ![n] = [p \in Priorities |-> NoAssembler]]
    /\ link' = "down"
    /\ chan' = NoPackets
    /\ reachable' = [reachable EXCEPT ![n] = FALSE]
    /\ abandoned' = abandoned \cup
           {i \in DOMAIN sent : sent[i].from = n /\ i \notin delivered}
    /\ UNCHANGED <<sent, received, delivered, lost, breaks, reroutes>>

Next ==
    \/ \E n \in Senders, p \in Priorities, count \in PartCounts : EnqueueMessage(n, p, count)
    \/ \E n \in Nodes :
           \/ InitiateSyn(n)
           \/ SendPart(n)
           \/ ScanInVain(n)
           \/ ExpireSyn(n)
           \/ Unreachable(n)
           \/ RouteReady(n)
           \/ Restart(n)
    \/ \E n \in Nodes, p \in Priorities :
           \/ Receive(n, p)
           \/ ExpireTracker(n, p)
           \/ Reroute(n, p)
    \/ Break
    \/ Reconnect

Spec == Init /\ [][Next]_vars

\* Each loop keeps running (reliable_node::run): it sends, reads, and the
\* node below reports routes and reconnects; time passes.
Fairness ==
    /\ WF_vars(Reconnect)
    /\ \A n \in Nodes :
           /\ WF_vars(InitiateSyn(n) \/ SendPart(n))
           /\ WF_vars(Unreachable(n))
           /\ WF_vars(RouteReady(n))
    /\ \A n \in Nodes, p \in Priorities :
           WF_vars(Receive(n, p)) /\ WF_vars(ExpireTracker(n, p))

FairSpec == Spec /\ Fairness

-----------------------------------------------------------------------------
(***************************************************************************)
(* Properties.                                                             *)
(***************************************************************************)

\* Every variable keeps the type its declaration gives it.
TypeOK ==
    /\ created \in [Nodes -> BOOLEAN]
    /\ suspended \in [Nodes -> BOOLEAN]
    /\ syn \in [Nodes -> SynStates]
    /\ synExp \in [Nodes -> BOOLEAN]
    /\ turn \in [Nodes -> PriorityTracker]
    /\ queue \in [Nodes -> [Priorities -> Seq(Tracker)]]
    /\ lastSn \in [Nodes -> [Priorities -> Nat]]
    /\ assembler \in [Nodes -> [Priorities -> Assembler]]
    /\ chan \in [Nodes -> [Priorities -> Seq(Packet)]]
    /\ link \in {"up", "down"}
    /\ reachable \in [Nodes -> BOOLEAN]
    /\ sent \in Seq(Message)
    /\ received \subseteq Nat
    /\ delivered \subseteq Nat
    /\ lost \subseteq Nat
    /\ abandoned \subseteq Nat
    /\ {breaks, reroutes, restarts} \subseteq Nat

\* on_message_delivered tells the sender the truth: whatever the breaks,
\* restarts, losses and timeouts between them, a message reported delivered
\* has been handed to the receiving application.
DeliveredWasReceived == delivered \subseteq received

\* While a sender is synchronized, every part it holds acknowledged is held by
\* the receiver's assembler of that message, or the message is complete: what
\* reset_to and the acknowledgements record is never ahead of the receiver.
AckedIsHeld ==
    \A n \in Nodes : link = "up" /\ reachable[n] /\ syn[n] = "completed" =>
        \A p \in Busy(n) :
            LET t == Front(n, p)
                a == assembler[Peer[n]][p]
            IN  t.id \in received \/ (t.acked # {} => a.id = t.id /\ t.acked \subseteq a.got)

\* No packet a controller is about to process fails an assertion of the code:
\* a repeated heading keeps its bounds, a part is in the range of the
\* assembler, a SYN reply names a part of the message being sent.
AssertionsHold ==
    \A n \in Nodes, p \in Priorities : Receivable(n, p) =>
        LET packet == Incoming(n, p)
            a == assembler[n][p]
        IN  /\ packet.type = "message" => HeadingMatches(a, packet)
            /\ packet.type = "part" => a = NoAssembler \/ AssemblerInRange(a, packet.sn)
            /\ packet.type = "syn_rep" => ReplyMatches(n, packet.sns)

\* A part names no message; the assembler it is filed in is nevertheless that
\* of the message it was cut from, so no payload mixes two messages.
PartsMatch ==
    \A n \in Nodes, p \in Priorities :
        Receivable(n, p) /\ Incoming(n, p).type = "part" =>
            assembler[n][p].id \in {NoMessage, Incoming(n, p).of}

\* on_message_lost is not a false alarm: a message reported lost to the
\* receiver has been forgotten by its sender, which restarted.
LostWasAbandoned == lost \subseteq abandoned

\* A controller sends only while the node knows a route: enqueue_private never
\* fails in step() and no controller suspends itself for good.
ActiveIsReachable == \A n \in Nodes : Active(n) => reachable[n]

\* next() compares the counter with == : were it ever past the weight, its
\* priority would keep the turn for ever and starve the others.
TurnWithinWeight == \A n \in Nodes : turn[n].counter <= Distribution[turn[n].priority]

\* The comment on _window_size, "Max number of parts awaiting acknowledgement".
WindowRespected ==
    \A n \in Nodes : \A p \in Busy(n) :
        Cardinality(Front(n, p).acquired \ Front(n, p).acked) <= Window

\* The assertion at the head of initiate_syn_request: a request is initiated
\* in the state initial or resuming.
SynAssertion == \A n \in Nodes : ~Stuck(n)

\* A message accepted is in the end reported delivered, unless its sender
\* restarts.
EventuallyDelivered ==
    \A i \in 1 .. MaxMessages : (i \in DOMAIN sent) ~> (i \in delivered \cup abandoned)

\* on_message_delivered, "Notify sender when message delivered to the receiver":
\* a message handed to the receiving application is in the end reported to its
\* sender, unless the sender restarts.
HandedOverIsConfirmed ==
    \A i \in 1 .. MaxMessages : (i \in received) ~> (i \in delivered \cup abandoned)

\* acquire_next_part returns "zero if all parts was acquired or there are no
\* expired parts": a synchronized sender repeats what was lost until the
\* receiver has the message.
LostPartsAreRepeated ==
    \A n \in Senders, i \in 1 .. MaxMessages :
        []<>(syn[n] = "completed") =>
            ((i \in DOMAIN sent /\ sent[i].from = n) ~> (i \in received \cup abandoned))

\* The controllers implement reliable transfer.
Transfer == INSTANCE ReliableTransfer WITH
    accepted <- [i \in DOMAIN sent |-> [from |-> sent[i].from, priority |-> sent[i].priority]],
    confirmed <- delivered,
    reported <- lost

ImplementsTransfer == Transfer!Spec
=============================================================================
