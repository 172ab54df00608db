-------------------------- MODULE DeliveryInvariant --------------------------
(***************************************************************************)
(* The inductive invariants of Delivery: what a sender, its receiver and   *)
(* the packets between them agree on (DeliveryInvariant, behind            *)
(* DeliveredWasReceived and AckedIsHeld), and which message they are at    *)
(* (DeliveryAgreement, behind the other safety properties and the          *)
(* refinement).  A flow is the pair of a sending node and a priority.      *)
(***************************************************************************)
EXTENDS Delivery

IsRequest(packet) == packet.type \in {"syn_rst", "syn_req"}

IsData(packet) == packet.type \in {"message", "part"}

MessageOf(packet) == IF packet.type = "message" THEN packet.id ELSE packet.of

\* The assembler at the receiving end of a flow.
Holder(n, p) == assembler[Peer[n]][p]

\* The receiver has had part i of message t.
Holds(n, p, t, i) ==
    t.id \in received \/ (Holder(n, p).id = t.id /\ i \in Holder(n, p).got)

HeadingInFlight(n, p, t) ==
    \E packet \in Range(chan[n][p]) : packet.type = "message" /\ packet.id = t.id

\* Two packets in this order in a queue: messages follow one another, the
\* headings of a message precede its other parts, and nothing of the SYN
\* exchange is there twice.
Precedes(a, b) ==
    /\ IsData(a) /\ IsData(b) =>
           /\ MessageOf(a) <= MessageOf(b)
           /\ MessageOf(a) = MessageOf(b) /\ b.type = "message" => a.type = "message"
    /\ ~(IsRequest(a) /\ IsRequest(b))
    /\ ~(a.type = "syn_rep" /\ b.type = "syn_rep")

InOrder(packets) ==
    \A i, j \in 1 .. Len(packets) : i < j => Precedes(packets[i], packets[j])

LinkInOrder ==
    /\ \A n \in Nodes, p \in Priorities : InOrder(chan[n][p])
    /\ link = "down" => \A n \in Nodes, p \in Priorities : chan[n][p] = <<>>

\* A controller takes part in an exchange only once it exists.
SynchronizedIsCreated ==
    \A n \in Nodes : syn[n] \in {"requesting", "completed"} => created[n]

\* A SYN request or reply is in flight only while the requester waits for it,
\* and never both; a reply tells what the replier holds.
RequestFits(n, p) ==
    /\ p = 0
    /\ reachable[n]
    /\ syn[n] = "requesting"
    /\ \A reply \in Range(chan[Peer[n]][0]) : reply.type # "syn_rep"

ReplyFits(n, p, packet) ==
    /\ p = 0
    /\ reachable[n]
    /\ syn[n] = "requesting"
    /\ \A q \in Priorities :
           packet.sns[q] = <<Holder(n, q).id, LowestAckedSn(Holder(n, q))>>

RequestsKnown(n, p) ==
    \A packet \in Range(chan[n][p]) : IsRequest(packet) => RequestFits(n, p)

RepliesKnown(n, p) ==
    \A packet \in Range(chan[Peer[n]][p]) : packet.type = "syn_rep" => ReplyFits(n, p, packet)

SynExchange ==
    \A n \in Nodes, p \in Priorities : RequestsKnown(n, p) /\ RepliesKnown(n, p)

\* The trackers of a flow, in the order of their messages and numbers.
QueueInOrder(n, p) ==
    \A k \in 1 .. Len(queue[n][p]) :
        LET t == queue[n][p][k]
        IN  /\ t.id \in 1 .. Len(sent)
            /\ t.first = sent[t.id].first
            /\ t.count = sent[t.id].count
            /\ LastSn(t) <= lastSn[n][p]
            /\ t.acked = {} \/ (k = 1 /\ 0 \in t.acked)
            /\ \A j \in 1 .. (k - 1) :
                   queue[n][p][j].id < t.id /\ LastSn(queue[n][p][j]) < t.first

\* The assembler of a flow is that of a message sent, not later than the one
\* being sent, and unfinished.
HolderKnown(n, p) ==
    LET a == Holder(n, p)
    IN  /\ \/ a = NoAssembler
           \/ /\ a.id \in 1 .. Len(sent)
              /\ a.first = sent[a.id].first
              /\ a.last = sent[a.id].first + sent[a.id].count - 1
              /\ a.got \subseteq 0 .. (a.last - a.first)
              /\ ~IsAssembled(a)
        /\ queue[n][p] # <<>> => a.id <= Front(n, p).id

\* A part in flight is of the message being sent, or of one delivered before.
\* Other parts than the heading are sent only when the heading is
\* acknowledged, and then the heading is not sent again.
DataFits(n, p, packet) ==
    /\ reachable[n]
    /\ syn[n] = "completed"
    /\ MessageOf(packet) \in 1 .. Len(sent)
    /\ packet.sn <= lastSn[n][p]
    /\ Holder(n, p).id <= MessageOf(packet)
    /\ packet.type = "message" =>
           /\ packet.sn = sent[packet.id].first
           /\ packet.last = sent[packet.id].first + sent[packet.id].count - 1
           /\ packet.sn <= packet.last
    /\ queue[n][p] # <<>> =>
           LET t == Front(n, p)
           IN  \/ MessageOf(packet) < t.id /\ packet.sn < t.first
               \/ /\ MessageOf(packet) = t.id
                  /\ InRange(t, packet.sn)
                  /\ IF packet.type = "part" THEN 0 \in t.acked ELSE t.acked \subseteq {0}

\* An acknowledgement in flight is of a part the receiver has had, or of a
\* message delivered before.
AckFits(n, p, packet) ==
    /\ reachable[n]
    /\ syn[n] = "completed"
    /\ packet.sn <= lastSn[n][p]
    /\ queue[n][p] # <<>> =>
           LET t == Front(n, p)
           IN  \/ packet.sn < t.first
               \/ /\ InRange(t, packet.sn)
                  /\ Holds(n, p, t, packet.sn - t.first)
                  /\ \/ packet.sn = t.first
                     \/ 0 \in t.acked /\ ~HeadingInFlight(n, p, t)

DataKnown(n, p) ==
    \A packet \in Range(chan[n][p]) : IsData(packet) => DataFits(n, p, packet)

AcksKnown(n, p) ==
    \A packet \in Range(chan[Peer[n]][p]) : packet.type = "ack" => AckFits(n, p, packet)

\* While a sender is synchronized the receiver has had every part the sender
\* holds acknowledged.
FrontHeld(n, p) ==
    link = "up" /\ reachable[n] /\ syn[n] = "completed" /\ queue[n][p] # <<>> =>
        \A i \in Front(n, p).acked : Holds(n, p, Front(n, p), i)

FlowInvariant(n, p) ==
    /\ QueueInOrder(n, p)
    /\ HolderKnown(n, p)
    /\ DataKnown(n, p)
    /\ AcksKnown(n, p)
    /\ FrontHeld(n, p)

DeliveryInvariant ==
    /\ LinkInOrder
    /\ SynchronizedIsCreated
    /\ SynExchange
    /\ \A n \in Nodes, p \in Priorities : FlowInvariant(n, p)
    /\ DeliveredWasReceived
-----------------------------------------------------------------------------

Settled == delivered \cup abandoned

OfFlow(n, p, i) == sent[i].from = n /\ sent[i].priority = p

\* Message i is the one being sent.
IsFront(n, p, i) == queue[n][p] # <<>> /\ i = Front(n, p).id

\* The trackers of a flow are those of its unsettled messages.
QueueComplete(n, p) ==
    /\ \A k \in 1 .. Len(queue[n][p]) :
           OfFlow(n, p, queue[n][p][k].id) /\ queue[n][p][k].id \notin Settled
    /\ \A i \in 1 .. Len(sent) : OfFlow(n, p, i) =>
           i \in Settled \/ \E k \in 1 .. Len(queue[n][p]) : queue[n][p][k].id = i

\* An unfinished assembler is of the message being sent, or of one that its
\* sender has forgotten.
HolderCurrent(n, p) ==
    LET a == Holder(n, p)
    IN  a # NoAssembler =>
            /\ OfFlow(n, p, a.id)
            /\ a.id \notin delivered
            /\ a.id \in abandoned \/ IsFront(n, p, a.id)

\* The heading of a message that has other parts is in flight only while that
\* message is being sent; the other parts, only while the receiver assembles
\* that message, or has handed it over and not begun with another.
DataCurrent(n, p, packet) ==
    LET i == MessageOf(packet)
    IN  /\ OfFlow(n, p, i) /\ i \notin abandoned
        /\ packet.type = "message" => sent[i].count = 1 \/ IsFront(n, p, i)
        /\ packet.type = "part" =>
               /\ sent[i].first < packet.sn
               /\ packet.sn <= sent[i].first + sent[i].count - 1
               /\ Holder(n, p).id \in {NoMessage, i}

\* Part i of the message being sent is in its assembler, or the message has
\* been handed over last.
HeldNow(n, p, i) ==
    LET t == Front(n, p)
        a == Holder(n, p)
    IN  (a.id = t.id /\ i \in a.got) \/ (a = NoAssembler /\ t.id \in received)

AckCurrent(n, p, packet) ==
    queue[n][p] # <<>> /\ Front(n, p).first <= packet.sn =>
        HeldNow(n, p, packet.sn - Front(n, p).first)

FrontCurrent(n, p) ==
    link = "up" /\ reachable[n] /\ syn[n] = "completed" /\ queue[n][p] # <<>> =>
        \A i \in Front(n, p).acked : HeldNow(n, p, i)

\* Until its peer has answered a process that is new, the peer assembles no
\* message of it.
Forgotten(n, p) ==
    syn[n] = "initial" \/ (\E packet \in Range(chan[n][0]) : packet.type = "syn_rst") =>
        Holder(n, p) = NoAssembler \/ Holder(n, p).id \in abandoned

FlowAgreement(n, p) ==
    /\ QueueComplete(n, p)
    /\ HolderCurrent(n, p)
    /\ \A packet \in Range(chan[n][p]) : IsData(packet) => DataCurrent(n, p, packet)
    /\ \A packet \in Range(chan[Peer[n]][p]) : packet.type = "ack" => AckCurrent(n, p, packet)
    /\ FrontCurrent(n, p)
    /\ Forgotten(n, p)

DeliveryAgreement ==
    /\ Settled \subseteq 1 .. Len(sent)
    /\ LostWasAbandoned
    /\ \A n \in Nodes, p \in Priorities : FlowAgreement(n, p)
=============================================================================
