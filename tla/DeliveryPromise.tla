---------------------------- MODULE DeliveryPromise ----------------------------
(***************************************************************************)
(* The proof that DeliveryAgreement is inductive, given DeliveryInvariant, *)
(* and what follows: the assertions of the code hold, no payload mixes two *)
(* messages, no message is reported lost that will come, and the           *)
(* controllers implement ReliableTransfer.                                 *)
(***************************************************************************)
EXTENDS DeliveryTruth

\* A step does nothing to a flow but lose packets or change what no part of
\* its agreement speaks of.
Undisturbed(n, p) ==
    /\ EndsKept(n, p)
    /\ abandoned' = abandoned
    /\ delivered \subseteq delivered'
    /\ \A i \in 1 .. Len(sent') : OfFlow(n, p, i)' =>
           i \in 1 .. Len(sent) /\ (i \in delivered' => i \in delivered)
    /\ syn'[n] = "initial" => syn[n] = "initial"
    /\ \A b \in Range(chan'[n][0]) : b.type = "syn_rst" =>
           b \in Range(chan[n][0]) \/ syn[n] = "initial"

\* The ids of what the agreement of a flow speaks of are those of messages
\* accepted.
LEMMA FlowIds ==
    ASSUME TypeOK, NEW n \in Nodes, NEW p \in Priorities, FlowInvariant(n, p)
    PROVE  /\ \A k \in 1 .. Len(queue[n][p]) : queue[n][p][k].id \in 1 .. Len(sent)
           /\ Holder(n, p) # NoAssembler => Holder(n, p).id \in 1 .. Len(sent)
           /\ \A b \in Range(chan[n][p]) : IsData(b) => MessageOf(b) \in 1 .. Len(sent)
<1>1. \A k \in 1 .. Len(queue[n][p]) : queue[n][p][k].id \in 1 .. Len(sent)
    BY DEF FlowInvariant, QueueInOrder
<1>2. Holder(n, p) # NoAssembler => Holder(n, p).id \in 1 .. Len(sent)
    BY DEF FlowInvariant, HolderKnown
<1>3. \A b \in Range(chan[n][p]) : IsData(b) => MessageOf(b) \in 1 .. Len(sent)
    BY DEF FlowInvariant, DataKnown, DataFits
<1> QED BY <1>1, <1>2, <1>3

\* The message being sent stays so.
LEMMA KeptIsFront ==
    ASSUME TypeOK, TypeOK', NEW n \in Nodes, NEW p \in Priorities, EndsKept(n, p),
           NEW i, IsFront(n, p, i)
    PROVE  IsFront(n, p, i)'
<1>1. queue[n][p] # <<>> /\ i = Front(n, p).id
    BY DEF IsFront
<1>2. queue'[n][p] # <<>> /\ Front(n, p)'.id = Front(n, p).id
    BY <1>1, KeptFront DEF EndsKept
<1> QED BY <1>1, <1>2 DEF IsFront

\* Each part of the agreement of an undisturbed flow holds still.
LEMMA KeptComplete ==
    ASSUME TypeOK, TypeOK', NEW n \in Nodes, NEW p \in Priorities, Undisturbed(n, p),
           FlowInvariant(n, p), QueueComplete(n, p)
    PROVE  QueueComplete(n, p)'
<1>1. /\ Len(queue'[n][p]) = Len(queue[n][p])
      /\ \A k \in 1 .. Len(queue[n][p]) :
             queue'[n][p][k].id = queue[n][p][k].id /\ queue[n][p][k].id \in 1 .. Len(sent)
    BY FlowIds DEF Undisturbed, EndsKept, TrackersKept
<1>2. \A i \in 1 .. Len(sent) :
          /\ i \in 1 .. Len(sent')
          /\ OfFlow(n, p, i)' <=> OfFlow(n, p, i)
    BY DEF Undisturbed, EndsKept, SentKept, OfFlow
<1>3. ASSUME NEW i \in 1 .. Len(sent), OfFlow(n, p, i)
      PROVE  i \in Settled' <=> i \in Settled
    BY <1>2, <1>3 DEF Undisturbed, Settled
<1>4. ASSUME NEW k \in 1 .. Len(queue'[n][p]), NEW i, i = queue'[n][p][k].id
      PROVE  OfFlow(n, p, i)' /\ i \notin Settled'
    <2>1. i \in 1 .. Len(sent) /\ queue[n][p][k].id = i
        BY <1>1, <1>4
    <2>2. OfFlow(n, p, i) /\ i \notin Settled
        BY <1>1, <1>4, <2>1 DEF QueueComplete
    <2> QED BY <1>2, <1>3, <2>1, <2>2
<1>5. ASSUME NEW i \in 1 .. Len(sent'), OfFlow(n, p, i)'
      PROVE  i \in Settled' \/ \E k \in 1 .. Len(queue'[n][p]) : queue'[n][p][k].id = i
    <2>1. i \in 1 .. Len(sent) /\ OfFlow(n, p, i)
        BY <1>2, <1>5 DEF Undisturbed
    <2>2. i \in Settled \/ \E k \in 1 .. Len(queue[n][p]) : queue[n][p][k].id = i
        BY <2>1 DEF QueueComplete
    <2> QED BY <1>1, <1>3, <2>1, <2>2
<1> QED BY ZenonT(60), <1>4, <1>5 DEF QueueComplete, OfFlow, Settled

\* The assembler stays that of the message being sent, or of one forgotten.
LEMMA KeptHolderCurrent ==
    ASSUME TypeOK, TypeOK', NEW n \in Nodes, NEW p \in Priorities, Undisturbed(n, p),
           FlowInvariant(n, p), HolderCurrent(n, p)
    PROVE  HolderCurrent(n, p)'
<1>1. Holder(n, p)' = Holder(n, p) /\ EndsKept(n, p)
    BY DEF Undisturbed, EndsKept, Holder
<1>2. PICK a : a = Holder(n, p)
    OBVIOUS
<1>3. SUFFICES ASSUME a # NoAssembler
               PROVE  OfFlow(n, p, a.id)' /\ a.id \notin delivered' /\ (a.id \in abandoned' \/ IsFront(n, p, a.id)')
    BY <1>1, <1>2 DEF HolderCurrent, OfFlow, IsFront
<1>4. a.id \in 1 .. Len(sent)
    BY <1>2, <1>3, FlowIds
<1>5. OfFlow(n, p, a.id) /\ a.id \notin delivered /\ (a.id \in abandoned \/ IsFront(n, p, a.id))
    BY <1>2, <1>3 DEF HolderCurrent
<1>6. a.id \in 1 .. Len(sent') /\ OfFlow(n, p, a.id)'
    BY <1>1, <1>4, <1>5 DEF EndsKept, SentKept, OfFlow
<1>7. IsFront(n, p, a.id) => IsFront(n, p, a.id)'
    BY <1>1, KeptIsFront
<1> QED BY <1>5, <1>6, <1>7 DEF Undisturbed

\* A part in flight stays of the message its receiver assembles.
LEMMA KeptDataCurrent ==
    ASSUME TypeOK, TypeOK', NEW n \in Nodes, NEW p \in Priorities, Undisturbed(n, p),
           NEW b, MessageOf(b) \in 1 .. Len(sent), DataCurrent(n, p, b)
    PROVE  DataCurrent(n, p, b)'
<1>1. Holder(n, p)' = Holder(n, p) /\ EndsKept(n, p)
    BY DEF Undisturbed, EndsKept, Holder
<1>2. PICK i : i = MessageOf(b)
    OBVIOUS
<1>3. MessageOf(b)' = i /\ i \in 1 .. Len(sent)
    BY <1>2 DEF MessageOf
<1>4. sent'[i] = sent[i]
    BY <1>1, <1>3 DEF EndsKept, SentKept
<1>5. IsFront(n, p, i) => IsFront(n, p, i)'
    BY <1>1, KeptIsFront
<1> QED BY <1>1, <1>2, <1>3, <1>4, <1>5 DEF Undisturbed, DataCurrent, OfFlow, IsFront

\* What the sender counts on stays in the assembler.
LEMMA KeptHeldNow ==
    ASSUME TypeOK, TypeOK', NEW n \in Nodes, NEW p \in Priorities, EndsKept(n, p),
           queue[n][p] # <<>>, NEW i, HeldNow(n, p, i)
    PROVE  HeldNow(n, p, i)'
<1>1. Holder(n, p)' = Holder(n, p)
    BY DEF EndsKept, Holder
<1>2. Front(n, p)'.id = Front(n, p).id
    BY KeptFront DEF EndsKept
<1> QED BY <1>1, <1>2 DEF HeldNow, EndsKept

\* An acknowledgement tells the truth when the part it names is held.
LEMMA AckStays ==
    ASSUME NEW n, NEW p, NEW b, NEW f,
           queue'[n][p] # <<>> => Front(n, p)'.first = f,
           queue'[n][p] # <<>> /\ f <= b.sn => HeldNow(n, p, b.sn - f)'
    PROVE  AckCurrent(n, p, b)'
BY DEF AckCurrent, HeldNow

\* A step that does not disturb the flow: of the packets in flight, and of a
\* sender that goes on synchronized, it is enough to know what was true before.
LEMMA KeptAgreement ==
    ASSUME TypeOK, TypeOK', NEW n \in Nodes, NEW p \in Priorities, Undisturbed(n, p),
           FlowInvariant(n, p), FlowAgreement(n, p),
           \A b \in Range(chan'[n][p]) : IsData(b) =>
               MessageOf(b) \in 1 .. Len(sent) /\ DataCurrent(n, p, b),
           \A b \in Range(chan'[Peer[n]][p]) : b.type = "ack" => AckCurrent(n, p, b),
           link' = "up" /\ reachable'[n] /\ syn'[n] = "completed" =>
               link = "up" /\ reachable[n] /\ syn[n] = "completed"
    PROVE  FlowAgreement(n, p)'
<1>1. QueueComplete(n, p)' /\ HolderCurrent(n, p)'
    BY KeptComplete, KeptHolderCurrent DEF FlowAgreement
<1>2. \A b \in Range(chan'[n][p]) : IsData(b)' => DataCurrent(n, p, b)'
    BY KeptDataCurrent DEF IsData
<1>3. EndsKept(n, p)
    BY DEF Undisturbed
<1>4. /\ queue'[n][p] # <<>> => queue[n][p] # <<>>
      /\ queue[n][p] # <<>> => Front(n, p)'.first = Front(n, p).first /\ Front(n, p)'.acked = Front(n, p).acked
    BY <1>3, KeptFront DEF EndsKept
<1>5. ASSUME NEW b \in Range(chan'[Peer[n]][p]), b.type = "ack" PROVE AckCurrent(n, p, b)'
    <2>1. PICK f : f = Front(n, p).first
        OBVIOUS
    <2>2. queue'[n][p] # <<>> => Front(n, p)'.first = f
        BY <1>4, <2>1
    <2>3. ASSUME queue'[n][p] # <<>>, f <= b.sn PROVE HeldNow(n, p, b.sn - f)'
        <3>1. queue[n][p] # <<>> /\ HeldNow(n, p, b.sn - f)
            BY <1>4, <1>5, <2>1, <2>3 DEF AckCurrent
        <3> QED BY <1>3, <3>1, KeptHeldNow
    <2> QED BY <2>2, <2>3, AckStays
<1>6. FrontCurrent(n, p)'
    <2>1. ASSUME link' = "up", reachable'[n], syn'[n] = "completed", queue'[n][p] # <<>>,
                 NEW i \in Front(n, p)'.acked
          PROVE  HeldNow(n, p, i)'
        <3>1. queue[n][p] # <<>> /\ i \in Front(n, p).acked
            BY <1>4, <2>1
        <3>2. HeldNow(n, p, i)
            BY <2>1, <3>1 DEF FlowAgreement, FrontCurrent
        <3> QED BY <1>3, <3>1, <3>2, KeptHeldNow
    <2> QED BY <2>1 DEF FrontCurrent
<1>7. Forgotten(n, p)'
    <2>1. Holder(n, p)' = Holder(n, p)
        BY <1>3 DEF EndsKept, Holder
    <2> QED BY <2>1 DEF FlowAgreement, Forgotten, Undisturbed
<1> QED BY <1>1, <1>2, <1>5, <1>6, <1>7 DEF FlowAgreement

\* A flow of which no packet is added.
LEMMA CalmFlow ==
    ASSUME TypeOK, TypeOK', NEW n \in Nodes, NEW p \in Priorities, Undisturbed(n, p),
           FlowInvariant(n, p), FlowAgreement(n, p),
           \A b \in Range(chan'[n][p]) : IsData(b) => b \in Range(chan[n][p]),
           \A b \in Range(chan'[Peer[n]][p]) : b.type = "ack" => b \in Range(chan[Peer[n]][p]),
           link' = "up" /\ reachable'[n] /\ syn'[n] = "completed" =>
               link = "up" /\ reachable[n] /\ syn[n] = "completed"
    PROVE  FlowAgreement(n, p)'
<1>1. \A b \in Range(chan'[n][p]) : IsData(b) =>
          MessageOf(b) \in 1 .. Len(sent) /\ DataCurrent(n, p, b)
    BY FlowIds DEF FlowAgreement
<1>2. \A b \in Range(chan'[Peer[n]][p]) : b.type = "ack" => AckCurrent(n, p, b)
    BY DEF FlowAgreement
<1> QED BY <1>1, <1>2, KeptAgreement

-----------------------------------------------------------------------------
(***************************************************************************)
(* The link.                                                               *)
(***************************************************************************)

\* Nothing is added to the packets in flight but the one sent.
LEMMA SentPackets ==
    ASSUME TypeOK, NEW n \in Nodes, NEW p \in Priorities, NEW packet \in Packet,
           Send(n, p, packet)
    PROVE  \A m \in Nodes, q \in Priorities : \A b \in Range(chan'[m][q]) :
               b \in Range(chan[m][q]) \/ (link = "up" /\ m = n /\ q = p /\ b = packet)
<1>1. CASE link = "up"
    <2>1. chan' = [chan EXCEPT ![n][p] = Append(chan[n][p], packet)]
        BY <1>1 DEF Send
    <2>2. chan \in [Nodes -> [Priorities -> Seq(Packet)]] /\ chan[n][p] \in Seq(Packet)
        BY DEF TypeOK
    <2>3. chan'[n][p] = Append(chan[n][p], packet)
        BY <2>1, <2>2
    <2>4. \A m \in Nodes, q \in Priorities : m # n \/ q # p => chan'[m][q] = chan[m][q]
        BY <2>1, <2>2
    <2>5. Range(chan'[n][p]) = Range(chan[n][p]) \cup {packet}
        BY <2>2, <2>3, AppendPacket
    <2> QED BY <1>1, <2>4, <2>5
<1>2. CASE link # "up"
    BY <1>2 DEF Send
<1> QED BY <1>1, <1>2

\* Nothing but the one reply, if any, when a packet is read.
LEMMA ExchangedPackets ==
    ASSUME TypeOK, LinkInOrder, NEW n \in Nodes, NEW p \in Priorities, NEW q \in Priorities,
           NEW type, NEW replies, Exchange(n, p, type, q, replies),
           replies = <<>> \/ (\E r \in Packet : replies = <<r>>)
    PROVE  /\ Incoming(n, p) \in Range(chan[Peer[n]][p])
           /\ \A m \in Nodes, k \in Priorities : \A b \in Range(chan'[m][k]) :
                  b \in Range(chan[m][k]) \/ (m = n /\ k = q /\ replies = <<b>>)
<1>0. PICK s : s = Peer[n]
    OBVIOUS
<1>1. s \in Nodes /\ s # n
    BY <1>0, FlowTypes
<1>2. chan[s][p] # <<>>
    BY <1>0 DEF Exchange, Receivable
<1>3. chan' = [chan EXCEPT ![s][p] = Tail(@), ![n][q] = @ \o replies]
    BY <1>0 DEF Exchange
<1>4. /\ chan \in [Nodes -> [Priorities -> Seq(Packet)]]
      /\ chan[s][p] \in Seq(Packet) /\ chan[n][q] \in Seq(Packet)
    BY <1>1 DEF TypeOK
<1>5. chan'[s][p] = Tail(chan[s][p]) /\ chan'[n][q] = chan[n][q] \o replies
    BY ZenonT(60), <1>1, <1>3, <1>4
<1>6. \A m \in Nodes, k \in Priorities :
          (m # s \/ k # p) /\ (m # n \/ k # q) => chan'[m][k] = chan[m][k]
    BY <1>1, <1>3, <1>4
<1>7. Incoming(n, p) \in Range(chan[s][p]) /\ Range(chan'[s][p]) \subseteq Range(chan[s][p])
    BY <1>0, <1>1, <1>2, <1>4, <1>5, ReadPacket DEF LinkInOrder, Incoming
<1>8. \A b \in Range(chan'[n][q]) : b \in Range(chan[n][q]) \/ replies = <<b>>
    <2>1. CASE replies = <<>>
        BY <1>4, <1>5, <2>1, ConcatEmptySeq
    <2>2. ASSUME NEW r \in Packet, replies = <<r>>
          PROVE  \A b \in Range(chan'[n][q]) : b \in Range(chan[n][q]) \/ replies = <<b>>
        <3>1. chan'[n][q] = Append(chan[n][q], r)
            BY <1>4, <1>5, <2>2, AppendIsConcat
        <3>2. Range(chan'[n][q]) = Range(chan[n][q]) \cup {r}
            BY <1>4, <3>1, AppendPacket
        <3> QED BY <2>2, <3>2
    <2> QED BY <2>1, <2>2
<1> QED BY <1>0, <1>6, <1>7, <1>8

\* The trackers after a change of the one of the message being sent.
LEMMA ChangedFront ==
    ASSUME TypeOK, NEW n \in Nodes, NEW p \in Priorities, queue[n][p] # <<>>,
           NEW u, queue' = SetFront(n, p, u),
           u.id = Front(n, p).id, u.first = Front(n, p).first, u.count = Front(n, p).count
    PROVE  /\ \A m \in Nodes, q \in Priorities : m # n \/ q # p => queue'[m][q] = queue[m][q]
           /\ queue'[n][p] # <<>> /\ Front(n, p)' = u
           /\ Len(queue'[n][p]) = Len(queue[n][p])
           /\ \A k \in 1 .. Len(queue[n][p]) : queue'[n][p][k].id = queue[n][p][k].id
           /\ u.acked = Front(n, p).acked => TrackersKept(n, p)
<1>1. queue \in [Nodes -> [Priorities -> Seq(Tracker)]] /\ queue[n][p] \in Seq(Tracker)
    BY DEF TypeOK
<1>2. \A m \in Nodes, q \in Priorities : m # n \/ q # p => queue'[m][q] = queue[m][q]
    BY <1>1 DEF SetFront
<1>3. queue'[n][p] = [queue[n][p] EXCEPT ![1] = u]
    BY <1>1 DEF SetFront
<1>4. Front(n, p) = queue[n][p][1] /\ Len(queue[n][p]) \in Nat \ {0}
    BY FlowTypes
<1>5. /\ Len(queue'[n][p]) = Len(queue[n][p])
      /\ \A k \in 1 .. Len(queue[n][p]) :
             queue'[n][p][k] = IF k = 1 THEN u ELSE queue[n][p][k]
      /\ queue'[n][p] # <<>> /\ Front(n, p)' = u
    BY <1>1, <1>3, <1>4 DEF Front
<1>6. u.acked = Front(n, p).acked => TrackersKept(n, p)
    BY ZenonT(60), <1>4, <1>5 DEF TrackersKept
<1>7. \A k \in 1 .. Len(queue[n][p]) : queue'[n][p][k].id = queue[n][p][k].id
    BY <1>4, <1>5
<1> QED BY <1>2, <1>5, <1>6, <1>7

-----------------------------------------------------------------------------
(***************************************************************************)
(* The steps that leave messages and assemblers alone.                     *)
(***************************************************************************)

\* A step that sends at most packets of the SYN exchange, and that changes no
\* queue but for the time points of its trackers.
LEMMA CalmStep ==
    ASSUME TypeOK, TypeOK', DeliveryInvariant, DeliveryAgreement,
           UNCHANGED <<lastSn, assembler, sent, received, delivered, lost, abandoned>>,
           \A n \in Nodes, p \in Priorities : TrackersKept(n, p),
           \A n \in Nodes, p \in Priorities : \A b \in Range(chan'[n][p]) :
               \/ b \in Range(chan[n][p])
               \/ b.type \in {"syn_req", "syn_rep"}
               \/ b.type = "syn_rst" /\ syn[n] = "initial",
           \A n \in Nodes : syn'[n] = "initial" => syn[n] = "initial",
           \A n \in Nodes : link' = "up" /\ reachable'[n] /\ syn'[n] = "completed" =>
               link = "up" /\ reachable[n] /\ syn[n] = "completed"
    PROVE  DeliveryAgreement'
<1>1. Settled' \subseteq 1 .. Len(sent') /\ LostWasAbandoned'
    BY DEF DeliveryAgreement, Settled, LostWasAbandoned
<1>2. ASSUME NEW n \in Nodes, NEW p \in Priorities PROVE FlowAgreement(n, p)'
    <2>1. FlowInvariant(n, p) /\ FlowAgreement(n, p) /\ Peer[n] \in Nodes /\ 0 \in Priorities
        <3>1. TypeOK /\ DeliveryInvariant /\ DeliveryAgreement /\ n \in Nodes /\ p \in Priorities
            OBVIOUS
        <3>2. FlowInvariant(n, p) /\ FlowAgreement(n, p)
            BY ONLY <3>1 DEF DeliveryInvariant, DeliveryAgreement
        <3>3. 0 \in Priorities
            BY ONLY DistributionAssumption DEF Priorities
        <3> QED BY ONLY <3>1, <3>2, <3>3, FlowTypes
    <2>2. EndsKept(n, p)
        <3>1. TrackersKept(n, p)
            OBVIOUS
        <3>2. lastSn' = lastSn /\ assembler' = assembler /\ sent' = sent /\ received' = received
            OBVIOUS
        <3> QED BY ONLY <3>1, <3>2 DEF EndsKept, SentKept
    <2>3. \A b \in Range(chan'[n][0]) : b.type = "syn_rst" =>
              b \in Range(chan[n][0]) \/ syn[n] = "initial"
        BY <2>1
    <2>4. \A i \in 1 .. Len(sent') : OfFlow(n, p, i)' =>
              i \in 1 .. Len(sent) /\ (i \in delivered' => i \in delivered)
        OBVIOUS
    <2>5. Undisturbed(n, p)
        BY <2>2, <2>3, <2>4 DEF Undisturbed
    <2>6. \A b \in Range(chan'[n][p]) : IsData(b) => b \in Range(chan[n][p])
        BY DEF IsData
    <2>7. \A b \in Range(chan'[Peer[n]][p]) : b.type = "ack" => b \in Range(chan[Peer[n]][p])
        BY <2>1
    <2> QED BY <2>1, <2>5, <2>6, <2>7, CalmFlow
<1> QED BY <1>1, <1>2 DEF DeliveryAgreement

\* The scan that finds nothing, the expirations, packets lost under a
\* surviving route, and a request sent.
LEMMA CalmSends ==
    ASSUME TypeOK, TypeOK', DeliveryInvariant, DeliveryAgreement,
           NEW n \in Nodes, NEW p \in Priorities,
           \/ ScanInVain(n) \/ ExpireSyn(n) \/ ExpireTracker(n, p) \/ Reroute(n, p)
           \/ InitiateSyn(n)
    PROVE  DeliveryAgreement'
<1>1. CASE ScanInVain(n) \/ ExpireSyn(n)
    <2>1. UNCHANGED <<syn, queue, lastSn, assembler, chan, link, reachable,
                      sent, received, delivered, lost, abandoned>>
        BY <1>1 DEF ScanInVain, ExpireSyn, synVars, outVars, netVars, histVars
    <2> QED BY <2>1, CalmStep DEF TrackersKept
<1>2. CASE ExpireTracker(n, p)
    <2>1. UNCHANGED <<syn, lastSn, assembler, chan, link, reachable,
                      sent, received, delivered, lost, abandoned>>
        BY <1>2 DEF ExpireTracker, synVars, netVars, histVars
    <2>2. PICK t : t = Front(n, p)
        OBVIOUS
    <2>3. queue[n][p] # <<>> /\ t \in Tracker
        BY <1>2, <2>2, FlowTypes DEF ExpireTracker
    <2>4. PICK u : u = IF t.headingExp THEN [t EXCEPT !.exp = TRUE] ELSE [t EXCEPT !.headingExp = TRUE]
        OBVIOUS
    <2>5. queue' = SetFront(n, p, u)
        BY <1>2, <2>2, <2>4 DEF ExpireTracker
    <2>6. u.id = t.id /\ u.first = t.first /\ u.count = t.count /\ u.acked = t.acked
        BY <2>3, <2>4 DEF Tracker
    <2>7. \A m \in Nodes, q \in Priorities : TrackersKept(m, q)
        BY SMTT(60), <2>2, <2>3, <2>5, <2>6, ChangedFront DEF TrackersKept
    <2> QED BY <2>1, <2>7, CalmStep
<1>3. CASE Reroute(n, p)
    <2>1. UNCHANGED <<syn, queue, lastSn, assembler, link, reachable,
                      sent, received, delivered, lost, abandoned>>
        BY <1>3 DEF Reroute, synVars, outVars, histVars
    <2>2. PICK kept \in 0 .. (Len(chan[n][p]) - 1) :
              chan' = [chan EXCEPT ![n][p] = SubSeq(chan[n][p], 1, kept)]
        BY <1>3 DEF Reroute
    <2>3. chan \in [Nodes -> [Priorities -> Seq(Packet)]] /\ chan[n][p] \in Seq(Packet)
        BY DEF TypeOK
    <2>4. kept \in 0 .. Len(chan[n][p]) /\ InOrder(chan[n][p])
        BY <2>2, <2>3, LenProperties DEF DeliveryInvariant, LinkInOrder
    <2>5. Range(chan'[n][p]) \subseteq Range(chan[n][p])
        BY <2>2, <2>3, <2>4, DropPackets
    <2>6. \A m \in Nodes, q \in Priorities : m # n \/ q # p => chan'[m][q] = chan[m][q]
        BY <2>2, <2>3
    <2>7. \A m \in Nodes, q \in Priorities : \A b \in Range(chan'[m][q]) : b \in Range(chan[m][q])
        BY <2>5, <2>6
    <2> QED BY ZenonT(60), <2>1, <2>7, CalmStep DEF TrackersKept
<1>4. CASE InitiateSyn(n)
    <2>1. /\ syn[n] \in {"initial", "resuming"} /\ syn' = [syn EXCEPT ![n] = "requesting"]
          /\ UNCHANGED <<queue, lastSn, assembler, link, reachable,
                         sent, received, delivered, lost, abandoned>>
        BY <1>4 DEF InitiateSyn, outVars, histVars
    <2>2. PICK packet : packet = SynRequest(n)
        OBVIOUS
    <2>3. /\ packet \in Packet
          /\ packet.type = "syn_req" \/ (packet.type = "syn_rst" /\ syn[n] = "initial")
        BY <2>2 DEF SynRequest, Packet
    <2>4. Send(n, 0, packet) /\ 0 \in Priorities
        BY <1>4, <2>2, DistributionAssumption DEF InitiateSyn, Priorities
    <2>5. \A m \in Nodes, q \in Priorities : \A b \in Range(chan'[m][q]) :
              b \in Range(chan[m][q]) \/ (m = n /\ b = packet)
        BY <2>3, <2>4, SentPackets
    <2>6. \A m \in Nodes : syn'[m] = IF m = n THEN "requesting" ELSE syn[m]
        BY <2>1 DEF TypeOK
    <2> QED BY <2>1, <2>3, <2>5, <2>6, CalmStep DEF TrackersKept
<1> QED BY <1>1, <1>2, <1>3, <1>4

\* The link breaks, an end gives the route up, a new channel is made, a route
\* becomes ready.
LEMMA CalmRoutes ==
    ASSUME TypeOK, TypeOK', SuspendedWhileUnreachable, DeliveryInvariant, DeliveryAgreement,
           NEW n \in Nodes, Break \/ Unreachable(n) \/ Reconnect \/ RouteReady(n)
    PROVE  DeliveryAgreement'
<1>1. CASE Break
    <2>1. /\ link' = "down"
          /\ UNCHANGED <<syn, queue, lastSn, assembler, sent, received, delivered, lost, abandoned>>
          /\ \A m \in Nodes, q \in Priorities : Range(chan'[m][q]) = {}
        BY <1>1 DEF Break, NoPackets, Range, synVars, outVars, histVars
    <2> QED BY <2>1, CalmStep DEF TrackersKept
<1>2. CASE Unreachable(n)
    <2>1. /\ link' = "down"
          /\ UNCHANGED <<syn, queue, lastSn, assembler, chan, sent, received, delivered, lost, abandoned>>
        BY <1>2 DEF Unreachable, outVars, histVars
    <2> QED BY <2>1, CalmStep DEF TrackersKept
<1>3. CASE Reconnect
    <2>1. /\ \A m \in Nodes : ~reachable'[m]
          /\ UNCHANGED <<syn, queue, lastSn, assembler, chan, sent, received, delivered, lost, abandoned>>
        BY <1>3 DEF Reconnect, synVars, outVars, histVars
    <2> QED BY <2>1, CalmStep DEF TrackersKept
<1>4. CASE RouteReady(n)
    <2>1. /\ ~reachable[n]
          /\ UNCHANGED <<queue, lastSn, assembler, chan, link, sent, received, delivered, lost, abandoned>>
          /\ reachable' = [reachable EXCEPT ![n] = TRUE]
          /\ syn' = [syn EXCEPT ![n] = IF suspended[n] THEN "resuming" ELSE @]
        BY <1>4 DEF RouteReady, Resume, outVars, histVars
    <2>2. syn'[n] # "completed" /\ (syn'[n] = "initial" => syn[n] = "initial")
        BY <2>1 DEF SuspendedWhileUnreachable, DeliveryInvariant, SynchronizedIsCreated, TypeOK
    <2>3. \A m \in Nodes : m # n => reachable'[m] = reachable[m] /\ syn'[m] = syn[m]
        BY <2>1 DEF TypeOK
    <2> QED BY <2>1, <2>2, <2>3, CalmStep DEF TrackersKept
<1> QED BY <1>1, <1>2, <1>3, <1>4

\* A request of a process that has a past, and packets ignored.
LEMMA CalmReads ==
    ASSUME TypeOK, TypeOK', DeliveryInvariant, DeliveryAgreement,
           NEW n \in Nodes, NEW p \in Priorities,
           ReceiveSynReq(n, p) \/ IgnoreAck(n, p) \/ IgnorePart(n, p)
    PROVE  DeliveryAgreement'
<1>1. UNCHANGED <<syn, queue, lastSn, assembler, link, reachable,
                  sent, received, delivered, lost, abandoned>>
    BY DEF ReceiveSynReq, IgnoreAck, IgnorePart, Exchange, outVars
<1>2. LinkInOrder /\ 0 \in Priorities
    BY DistributionAssumption DEF DeliveryInvariant, Priorities
<1>3. CASE ReceiveSynReq(n, p)
    <2>1. PICK reply : reply = SynReply(assembler[n])
        OBVIOUS
    <2>2. reply \in Packet /\ reply.type = "syn_rep"
        <3>1. \A q \in Priorities : assembler[n][q] \in Assembler
            BY DEF TypeOK
        <3>2. \A q \in Priorities : assembler[n][q].id \in Nat /\ LowestAckedSn(assembler[n][q]) \in Nat
            BY <3>1, AssemblerTypes DEF Assembler
        <3> QED BY <2>1, <3>2 DEF SynReply, Packet
    <2>3. Exchange(n, p, "syn_req", 0, <<reply>>)
        BY <1>3, <2>1 DEF ReceiveSynReq
    <2>4. \A m \in Nodes, k \in Priorities : \A b \in Range(chan'[m][k]) :
              b \in Range(chan[m][k]) \/ <<reply>> = <<b>>
        BY <1>2, <2>2, <2>3, ExchangedPackets
    <2>5. \A b : <<reply>> = <<b>> => b = reply
        OBVIOUS
    <2> QED BY <1>1, <2>2, <2>4, <2>5, CalmStep DEF TrackersKept
<1>4. CASE IgnoreAck(n, p) \/ IgnorePart(n, p)
    <2>1. \A m \in Nodes, k \in Priorities : Range(chan'[m][k]) \subseteq Range(chan[m][k])
        BY <1>2, <1>4, ReadLink DEF IgnoreAck, IgnorePart
    <2> QED BY <1>1, <2>1, CalmStep DEF TrackersKept
<1> QED BY <1>3, <1>4

-----------------------------------------------------------------------------
(***************************************************************************)
(* Restarts, and messages accepted and sent.                               *)
(***************************************************************************)

\* A restart abandons what its process has queued, and what its peer
\* assembles of it.
LEMMA RestartAgrees ==
    ASSUME TypeOK, TypeOK', DeliveryInvariant, DeliveryAgreement, NEW n \in Nodes, Restart(n)
    PROVE  DeliveryAgreement'
<1>1. /\ queue' = [queue EXCEPT ![n] = [p \in Priorities |-> <<>>]]
      /\ assembler' = [assembler EXCEPT ![n] = [p \in Priorities |-> NoAssembler]]
      /\ syn' = [syn EXCEPT ![n] = "initial"]
      /\ link' = "down"
      /\ chan' = NoPackets
      /\ abandoned' = abandoned \cup {i \in DOMAIN sent : sent[i].from = n /\ i \notin delivered}
      /\ UNCHANGED <<sent, delivered, lost>>
    BY DEF Restart
<1>2. DOMAIN sent = 1 .. Len(sent)
    BY DEF TypeOK
<1>3. Settled' \subseteq 1 .. Len(sent') /\ LostWasAbandoned'
    BY <1>1, <1>2 DEF DeliveryAgreement, Settled, LostWasAbandoned
<1>4. ASSUME NEW m \in Nodes, NEW p \in Priorities PROVE FlowAgreement(m, p)'
    <2>1. /\ Peer[m] \in Nodes /\ 0 \in Priorities
          /\ FlowInvariant(m, p) /\ FlowAgreement(m, p)
        BY SMTT(60), FlowTypes, DistributionAssumption DEF DeliveryInvariant, DeliveryAgreement, Priorities
    <2>2. Range(chan'[m][p]) = {} /\ Range(chan'[m][0]) = {} /\ Range(chan'[Peer[m]][p]) = {}
        BY <1>1, <2>1 DEF NoPackets, Range
    <2>3. /\ queue'[m][p] = IF m = n THEN <<>> ELSE queue[m][p]
          /\ Holder(m, p)' = IF Peer[m] = n THEN NoAssembler ELSE Holder(m, p)
          /\ m # n => syn'[m] = syn[m]
        BY ZenonT(60), <1>1, <2>1 DEF TypeOK, Holder
    <2>4. \A i \in 1 .. Len(sent) :
              /\ OfFlow(m, p, i)' = OfFlow(m, p, i)
              /\ OfFlow(n, p, i) => i \in Settled'
              /\ OfFlow(n, p, i) /\ i \notin delivered => i \in abandoned'
              /\ m # n /\ OfFlow(m, p, i) => (i \in Settled' <=> i \in Settled)
        BY <1>1, <1>2 DEF OfFlow, Settled
    <2>5. QueueComplete(m, p)'
        <3>1. CASE m = n
            BY <1>1, <2>3, <2>4, <3>1 DEF QueueComplete, OfFlow
        <3>2. CASE m # n
            <4>1. ASSUME NEW k \in 1 .. Len(queue[m][p]), NEW i, i = queue[m][p][k].id
                  PROVE  OfFlow(m, p, i)' /\ i \notin Settled'
                BY <2>1, <2>4, <3>2, <4>1, FlowIds DEF FlowAgreement, QueueComplete
            <4>2. ASSUME NEW i \in 1 .. Len(sent), OfFlow(m, p, i)
                  PROVE  i \in Settled' \/ \E k \in 1 .. Len(queue[m][p]) : queue[m][p][k].id = i
                BY <2>1, <2>4, <3>2, <4>2 DEF FlowAgreement, QueueComplete
            <4>3. queue'[m][p] = queue[m][p] /\ sent' = sent
                BY <1>1, <2>3, <3>2
            <4> QED BY ZenonT(60), <4>1, <4>2, <4>3 DEF QueueComplete, OfFlow, Settled
        <3> QED BY <3>1, <3>2
    <2>6. HolderCurrent(m, p)' /\ Forgotten(m, p)'
        <3>1. CASE Peer[m] = n
            BY <2>3, <3>1 DEF HolderCurrent, Forgotten
        <3>2. CASE Peer[m] # n /\ Holder(m, p) = NoAssembler
            BY <2>3, <3>2 DEF HolderCurrent, Forgotten
        <3>3. CASE Peer[m] # n /\ Holder(m, p) # NoAssembler
            <4>1. PICK i : i = Holder(m, p).id
                OBVIOUS
            <4>2. /\ i \in 1 .. Len(sent) /\ OfFlow(m, p, i) /\ i \notin delivered
                  /\ i \in abandoned \/ IsFront(m, p, i)
                BY <2>1, <3>3, <4>1, FlowIds DEF FlowAgreement, HolderCurrent
            <4>3. Holder(m, p)' = Holder(m, p) /\ OfFlow(m, p, i)' /\ i \notin delivered'
                BY <1>1, <2>3, <2>4, <3>3, <4>2
            <4>4. i \in abandoned' \/ (m # n /\ IsFront(m, p, i)')
                BY <1>1, <2>3, <2>4, <4>2 DEF IsFront, Front
            <4>5. HolderCurrent(m, p)'
                BY <4>1, <4>3, <4>4 DEF HolderCurrent, OfFlow, IsFront
            <4>6. Forgotten(m, p)'
                <5>1. CASE m = n
                    BY <2>4, <4>1, <4>2, <4>3, <5>1 DEF Forgotten
                <5>2. CASE m # n
                    BY <1>1, <2>1, <2>2, <2>3, <4>3, <5>2 DEF FlowAgreement, Forgotten
                <5> QED BY <5>1, <5>2
            <4> QED BY <4>5, <4>6
        <3> QED BY <3>1, <3>2, <3>3
    <2>7. FrontCurrent(m, p)'
        BY <1>1 DEF FrontCurrent
    <2> QED BY <2>2, <2>5, <2>6, <2>7 DEF FlowAgreement
<1> QED BY <1>3, <1>4 DEF DeliveryAgreement

\* A message accepted is the last of its flow, and not settled.
LEMMA EnqueueAgrees ==
    ASSUME TypeOK, TypeOK', DeliveryInvariant, DeliveryAgreement,
           NEW n \in Nodes, NEW p \in Priorities, NEW count \in Nat,
           EnqueueMessage(n, p, count)
    PROVE  DeliveryAgreement'
<1>1. PICK new, first, u :
          /\ new = Len(sent) + 1 /\ first = lastSn[n][p] + 1
          /\ u = NewTracker(new, count, first)
    OBVIOUS
<1>2. /\ queue' = [queue EXCEPT ![n][p] = Append(queue[n][p], u)]
      /\ lastSn' = [lastSn EXCEPT ![n][p] = LastSn(u)]
      /\ sent' = Append(sent, [from |-> n, priority |-> p, first |-> first, count |-> count])
      /\ UNCHANGED <<syn, assembler, chan, link, reachable, received, delivered, lost, abandoned>>
    BY <1>1 DEF EnqueueMessage, Enqueued, netVars
<1>3. u.id = new /\ u.first = first /\ u.acked = {}
    BY <1>1 DEF NewTracker
<1>4. /\ Len(sent) \in Nat /\ Len(sent') = new
      /\ sent'[new].from = n /\ sent'[new].priority = p
      /\ \A i \in 1 .. Len(sent) : i \in 1 .. Len(sent') /\ sent'[i] = sent[i]
    <2>1. sent \in Seq(Message) /\ Len(sent) \in Nat
        BY LenProperties DEF TypeOK
    <2> QED BY <1>1, <1>2, <2>1
<1>5. new \notin Settled
    BY <1>1, <1>4 DEF DeliveryAgreement
<1>6. Settled' \subseteq 1 .. Len(sent') /\ LostWasAbandoned'
    BY <1>2, <1>4 DEF DeliveryAgreement, Settled, LostWasAbandoned
<1>7. ASSUME NEW m \in Nodes, NEW k \in Priorities, m # n \/ k # p PROVE FlowAgreement(m, k)'
    <2>1. FlowInvariant(m, k) /\ FlowAgreement(m, k) /\ Peer[m] \in Nodes /\ 0 \in Priorities
        BY FlowTypes, DistributionAssumption DEF DeliveryInvariant, DeliveryAgreement, Priorities
    <2>2. queue'[m][k] = queue[m][k] /\ lastSn'[m][k] = lastSn[m][k]
        BY ZenonT(60), <1>2, <1>7 DEF TypeOK
    <2>3. EndsKept(m, k)
        BY ZenonT(60), <1>2, <1>4, <2>2 DEF EndsKept, TrackersKept, SentKept
    <2>4. \A i \in 1 .. Len(sent') : OfFlow(m, k, i)' => i \in 1 .. Len(sent)
        <3>1. ASSUME NEW i \in 1 .. Len(sent'), i \notin 1 .. Len(sent) PROVE i = new
            BY <1>1, <1>4, <3>1
        <3> QED BY <1>4, <1>7, <3>1 DEF OfFlow
    <2>5. Undisturbed(m, k)
        BY <1>2, <2>3, <2>4 DEF Undisturbed
    <2> QED BY <1>2, <2>1, <2>5, CalmFlow
<1>8. FlowAgreement(n, p)'
    <2>1. FlowInvariant(n, p) /\ FlowAgreement(n, p) /\ Peer[n] \in Nodes
        BY FlowTypes DEF DeliveryInvariant, DeliveryAgreement
    <2>2. PICK size : size = Len(queue[n][p])
        OBVIOUS
    <2>3. size \in Nat /\ queue[n][p] \in Seq(Tracker)
        BY <2>2, FlowTypes DEF TypeOK
    <2>4. queue'[n][p] = Append(queue[n][p], u) /\ Holder(n, p)' = Holder(n, p)
        BY <1>2, <2>1 DEF TypeOK, Holder
    <2>5. u \in Tracker
        <3>1. lastSn[n][p] \in Nat
            BY FlowTypes
        <3> QED BY <1>1, <1>4, <3>1 DEF NewTracker, Tracker
    <2>6. /\ Len(queue'[n][p]) = size + 1
          /\ queue'[n][p][size + 1] = u
          /\ \A k \in 1 .. size : queue'[n][p][k] = queue[n][p][k]
          /\ queue'[n][p] # <<>>
        BY SMTT(60), <2>2, <2>3, <2>4, <2>5, AppendProperties
    <2>7. Front(n, p)' = IF queue[n][p] = <<>> THEN u ELSE Front(n, p)
        BY <2>3, <2>4, <2>5, HeadTailAppend DEF Front
    <2>8. \A i \in 1 .. Len(sent) :
              /\ OfFlow(n, p, i)' = OfFlow(n, p, i)
              /\ i \in Settled' <=> i \in Settled
              /\ IsFront(n, p, i) => IsFront(n, p, i)'
        BY <1>2, <1>4, <2>6, <2>7 DEF OfFlow, Settled, IsFront
    <2>9. QueueComplete(n, p)'
        <3>1. ASSUME NEW k \in 1 .. Len(queue'[n][p]), NEW i, i = queue'[n][p][k].id
              PROVE  OfFlow(n, p, i)' /\ i \notin Settled'
            <4>1. CASE k = size + 1
                <5>1. i = new
                    BY <1>3, <2>6, <3>1, <4>1
                <5>2. new \notin Settled'
                    BY <1>2, <1>5 DEF Settled
                <5>3. OfFlow(n, p, new)'
                    BY <1>4 DEF OfFlow
                <5> QED BY <5>1, <5>2, <5>3
            <4>2. CASE k \in 1 .. size
                <5>1. i = queue[n][p][k].id
                    BY <2>6, <3>1, <4>2
                <5>2. i \in 1 .. Len(sent) /\ OfFlow(n, p, i) /\ i \notin Settled
                    BY <2>1, <2>2, <4>2, <5>1, FlowIds DEF FlowAgreement, QueueComplete
                <5> QED BY <2>8, <5>2
            <4> QED BY <2>3, <2>6, <4>1, <4>2
        <3>2. ASSUME NEW i \in 1 .. Len(sent'), OfFlow(n, p, i)'
              PROVE  i \in Settled' \/ \E k \in 1 .. Len(queue'[n][p]) : queue'[n][p][k].id = i
            <4>1. CASE i = new
                <5>1. size + 1 \in 1 .. Len(queue'[n][p]) /\ queue'[n][p][size + 1].id = i
                    BY <1>3, <2>3, <2>6, <4>1
                <5> QED BY <5>1
            <4>2. CASE i # new
                <5>1. i \in 1 .. Len(sent) /\ OfFlow(n, p, i)
                    BY <1>1, <1>4, <2>8, <3>2, <4>2
                <5>2. i \in Settled \/ \E k \in 1 .. size : queue[n][p][k].id = i
                    BY <2>1, <2>2, <5>1 DEF FlowAgreement, QueueComplete
                <5>3. \A k \in 1 .. size : k \in 1 .. Len(queue'[n][p])
                    BY <2>3, <2>6
                <5> QED BY <2>6, <2>8, <5>1, <5>2, <5>3
            <4> QED BY <4>1, <4>2
        <3> QED BY ZenonT(60), <3>1, <3>2 DEF QueueComplete, OfFlow, Settled
    <2>10. HolderCurrent(n, p)'
        <3>1. PICK a : a = Holder(n, p)
            OBVIOUS
        <3>2. ASSUME a # NoAssembler
              PROVE  OfFlow(n, p, a.id)' /\ a.id \notin delivered' /\ (a.id \in abandoned' \/ IsFront(n, p, a.id)')
            <4>1. a.id \in 1 .. Len(sent)
                BY <2>1, <3>1, <3>2, FlowIds
            <4> QED BY <1>2, <2>1, <2>8, <3>1, <3>2, <4>1 DEF FlowAgreement, HolderCurrent
        <3> QED BY <2>4, <3>1, <3>2 DEF HolderCurrent, OfFlow, IsFront
    <2>11. ASSUME NEW b \in Range(chan'[n][p]), IsData(b) PROVE DataCurrent(n, p, b)'
        <3>1. PICK i : i = MessageOf(b)
            OBVIOUS
        <3>2. i \in 1 .. Len(sent) /\ DataCurrent(n, p, b)
            BY <1>2, <2>1, <2>11, <3>1, FlowIds DEF FlowAgreement
        <3>3. sent'[i] = sent[i] /\ OfFlow(n, p, i)' = OfFlow(n, p, i) /\ (IsFront(n, p, i) => IsFront(n, p, i)')
            BY <1>4, <2>8, <3>2
        <3> QED BY <1>2, <2>4, <3>1, <3>2, <3>3 DEF DataCurrent, OfFlow, IsFront, MessageOf
    <2>12. ASSUME NEW b \in Range(chan'[Peer[n]][p]), b.type = "ack" PROVE AckCurrent(n, p, b)'
        <3>1. b \in Range(chan[Peer[n]][p]) /\ AckFits(n, p, b) /\ AckCurrent(n, p, b)
            BY <1>2, <2>1, <2>12 DEF FlowInvariant, AcksKnown, FlowAgreement
        <3>2. CASE queue[n][p] = <<>>
            <4>1. b \in Packet
                BY <2>1, <3>1, FlowTypes
            <4>2. b.sn \in Nat /\ lastSn[n][p] \in Nat /\ b.sn <= lastSn[n][p]
                BY <2>12, <3>1, <4>1, PacketFields, FlowTypes DEF AckFits
            <4>3. ~(Front(n, p)'.first <= b.sn)
                BY <1>1, <1>3, <2>7, <3>2, <4>2
            <4> QED BY <4>3 DEF AckCurrent
        <3>3. CASE queue[n][p] # <<>>
            BY <1>2, <2>4, <2>7, <3>1, <3>3 DEF AckCurrent, HeldNow
        <3> QED BY <3>2, <3>3
    <2>13. FrontCurrent(n, p)'
        BY <1>2, <1>3, <2>1, <2>4, <2>7 DEF FlowAgreement, FrontCurrent, HeldNow
    <2>14. Forgotten(n, p)'
        BY <1>2, <2>1, <2>4 DEF FlowAgreement, Forgotten
    <2> QED BY <2>9, <2>10, <2>11, <2>12, <2>13, <2>14 DEF FlowAgreement, IsData
<1> QED BY <1>6, <1>7, <1>8 DEF DeliveryAgreement

\* A part sent is of the message at the front; other parts than the heading,
\* only when the receiver has begun with it.
LEMMA SendPartAgrees ==
    ASSUME TypeOK, TypeOK', SuspendedWhileUnreachable, DeliveryInvariant, DeliveryAgreement,
           NEW n \in Nodes, SendPart(n)
    PROVE  DeliveryAgreement'
<1>1. PICK p, t, i, packet, u :
          /\ p = FirstReady(turn[n], Ready(n)) /\ t = Front(n, p) /\ i = NextPart(t)
          /\ packet = PartPacket(t, i) /\ u = AcquirePart(t, i)
    OBVIOUS
<1>2. /\ reachable[n] /\ syn[n] = "completed"
      /\ Send(n, p, packet)
      /\ queue' = SetFront(n, p, u)
      /\ UNCHANGED <<syn, lastSn, assembler, link, reachable, sent, received, delivered, lost, abandoned>>
    BY <1>1, ActiveHasRoute DEF SendPart, synVars, histVars
<1>3. p \in Priorities /\ queue[n][p] # <<>> /\ Sendable(t) # {}
    <2>1. turn[n] \in PriorityTracker /\ Ready(n) \subseteq Priorities /\ Ready(n) # {}
        BY DEF SendPart, TypeOK, Ready, Busy
    <2>2. p \in Ready(n)
        BY <1>1, <2>1, FirstReadyIsReady
    <2> QED BY <1>1, <2>1, <2>2 DEF Ready, Busy
<1>4. t \in Tracker /\ t = queue[n][p][1] /\ 1 \in 1 .. Len(queue[n][p])
    BY <1>1, <1>3, FlowTypes
<1>5. i \in 0 .. (t.count - 1) /\ (0 \notin t.acked => i = 0)
    BY <1>1, <1>3, <1>4, HeadingFirst
<1>6. u.id = t.id /\ u.first = t.first /\ u.count = t.count /\ u.acked = t.acked
    BY SMTT(60), <1>1, <1>4 DEF AcquirePart, Tracker
<1>7. /\ packet \in Packet /\ MessageOf(packet) = t.id
      /\ packet.sn = t.first + i
      /\ packet.type = IF i = 0 THEN "message" ELSE "part"
    <2>1. t.id \in Nat /\ t.first \in Nat /\ t.count \in Nat
        BY <1>4 DEF Tracker
    <2>2. t.first + i \in Nat /\ LastSn(t) \in Nat
        BY <1>5, <2>1 DEF LastSn
    <2> QED BY <1>1, <2>1, <2>2 DEF PartPacket, Packet, MessageOf
<1>8. \A m \in Nodes, q \in Priorities : TrackersKept(m, q)
    <2>1. u.id = Front(n, p).id /\ u.first = Front(n, p).first /\ u.count = Front(n, p).count
          /\ u.acked = Front(n, p).acked
        BY <1>1, <1>6
    <2>2. /\ \A m \in Nodes, q \in Priorities : m # n \/ q # p => queue'[m][q] = queue[m][q]
          /\ TrackersKept(n, p)
        BY <1>2, <1>3, <2>1, ChangedFront
    <2>3. ASSUME NEW m \in Nodes, NEW q \in Priorities, queue'[m][q] = queue[m][q]
          PROVE  TrackersKept(m, q)
        BY ONLY <2>3 DEF TrackersKept
    <2> QED BY <2>2, <2>3
<1>9. \A m \in Nodes, q \in Priorities : \A b \in Range(chan'[m][q]) :
          b \in Range(chan[m][q]) \/ (link = "up" /\ m = n /\ q = p /\ b = packet)
    BY <1>2, <1>3, <1>7, SentPackets
<1>10. FlowInvariant(n, p) /\ FlowAgreement(n, p)
    BY <1>3 DEF DeliveryInvariant, DeliveryAgreement
<1>11. /\ t.id \in 1 .. Len(sent) /\ t.first = sent[t.id].first /\ t.count = sent[t.id].count
       /\ OfFlow(n, p, t.id) /\ t.id \notin Settled
    BY <1>4, <1>10 DEF FlowInvariant, QueueInOrder, FlowAgreement, QueueComplete
<1>12. link = "up" => DataCurrent(n, p, packet)
    <2> SUFFICES ASSUME link = "up" PROVE DataCurrent(n, p, packet)
        OBVIOUS
    <2>1. OfFlow(n, p, t.id) /\ t.id \notin abandoned /\ IsFront(n, p, t.id)
        BY <1>1, <1>3, <1>11 DEF IsFront, Settled
    <2>2. ASSUME packet.type = "part"
          PROVE  /\ sent[t.id].first < packet.sn
                 /\ packet.sn <= sent[t.id].first + sent[t.id].count - 1
                 /\ Holder(n, p).id \in {NoMessage, t.id}
        <3>1. i # 0 /\ 0 \in t.acked
            BY <1>5, <1>7, <2>2
        <3>2. HeldNow(n, p, 0)
            BY <1>1, <1>2, <1>3, <1>10, <3>1 DEF FlowAgreement, FrontCurrent
        <3>3. Holder(n, p).id \in {NoMessage, t.id}
            BY <1>1, <3>2 DEF HeldNow, NoAssembler
        <3>4. t.first \in Nat /\ t.count \in Nat /\ i \in Nat
            BY <1>4, <1>5 DEF Tracker
        <3> QED BY <1>5, <1>7, <1>11, <3>1, <3>3, <3>4
    <2> QED BY <1>7, <2>1, <2>2 DEF DataCurrent
<1>13. Settled' \subseteq 1 .. Len(sent') /\ LostWasAbandoned'
    BY <1>2 DEF DeliveryAgreement, Settled, LostWasAbandoned
<1>14. ASSUME NEW m \in Nodes, NEW q \in Priorities PROVE FlowAgreement(m, q)'
    <2>1. FlowInvariant(m, q) /\ FlowAgreement(m, q) /\ Peer[m] \in Nodes /\ 0 \in Priorities
        BY SMTT(60), FlowTypes, DistributionAssumption DEF DeliveryInvariant, DeliveryAgreement, Priorities
    <2>2. packet.type # "syn_rst" /\ packet.type # "ack"
        BY <1>7
    <2>3. EndsKept(m, q)
        BY <1>2, <1>8 DEF EndsKept, SentKept
    <2>4. \A b \in Range(chan'[m][0]) : b.type = "syn_rst" => b \in Range(chan[m][0])
        BY <1>9, <2>1, <2>2
    <2>5. Undisturbed(m, q)
        BY <1>2, <2>3, <2>4 DEF Undisturbed
    <2>6. \A b \in Range(chan'[m][q]) : IsData(b) =>
              MessageOf(b) \in 1 .. Len(sent) /\ DataCurrent(m, q, b)
        <3>1. \A b \in Range(chan[m][q]) : IsData(b) =>
                  MessageOf(b) \in 1 .. Len(sent) /\ DataCurrent(m, q, b)
            BY <2>1, FlowIds DEF FlowAgreement
        <3> QED BY <1>7, <1>9, <1>11, <1>12, <3>1
    <2>7. \A b \in Range(chan'[Peer[m]][q]) : b.type = "ack" => AckCurrent(m, q, b)
        <3>1. \A b \in Range(chan'[Peer[m]][q]) : b.type = "ack" => b \in Range(chan[Peer[m]][q])
            BY <1>9, <2>1, <2>2
        <3> QED BY <2>1, <3>1 DEF FlowAgreement
    <2> QED BY <1>2, <2>1, <2>5, <2>6, <2>7, KeptAgreement
<1> QED BY <1>13, <1>14 DEF DeliveryAgreement

-----------------------------------------------------------------------------
(***************************************************************************)
(* The packets of the SYN exchange.                                        *)
(***************************************************************************)

\* The request of a process that is new: the messages reported lost are those
\* the peer assembled of the process before it.
LEMMA SynRstAgrees ==
    ASSUME TypeOK, TypeOK', DeliveryInvariant, DeliveryAgreement,
           NEW n \in Nodes, NEW p \in Priorities, ReceiveSynRst(n, p)
    PROVE  DeliveryAgreement'
<1>1. PICK s, reset, reply, packet :
          /\ s = Peer[n] /\ reset = [q \in Priorities |-> NoAssembler]
          /\ reply = SynReply(reset) /\ packet = Incoming(n, p)
    OBVIOUS
<1>2. s \in Nodes /\ s # n /\ Peer[s] = n /\ \A m \in Nodes : Peer[m] \in Nodes /\ (m # s => Peer[m] # n)
    BY <1>1, DeliveryAssumption
<1>3. 0 \in Priorities
    BY DistributionAssumption DEF Priorities
<1>4. /\ Exchange(n, p, "syn_rst", 0, <<reply>>)
      /\ packet.type = "syn_rst"
      /\ assembler' = [assembler EXCEPT ![n] = reset]
      /\ lost' = lost \cup {a.id : a \in Assemblers(n)}
      /\ UNCHANGED <<syn, queue, lastSn, link, reachable, sent, received, delivered, abandoned>>
    BY <1>1 DEF ReceiveSynRst, Exchange, outVars
<1>5. reply \in Packet /\ reply.type = "syn_rep"
    <2>1. NoAssembler.id \in Nat /\ LowestAckedSn(NoAssembler) \in Nat
        BY DEF NoAssembler, NoMessage, LowestAckedSn
    <2> QED BY <1>1, <2>1 DEF SynReply, Packet
<1>6. /\ packet \in Range(chan[s][p])
      /\ \A m \in Nodes, k \in Priorities : \A b \in Range(chan'[m][k]) :
             b \in Range(chan[m][k]) \/ b = reply
    <2>1. \A b : <<reply>> = <<b>> => b = reply
        OBVIOUS
    <2> QED BY SMTT(60), <1>1, <1>3, <1>4, <1>5, <2>1, ExchangedPackets DEF DeliveryInvariant
<1>7. p = 0 /\ syn[s] = "requesting"
    BY <1>2, <1>4, <1>6 DEF DeliveryInvariant, SynExchange, RequestsKnown, RequestFits, IsRequest
<1>8. \A q \in Priorities : Holder(s, q) = assembler[n][q] /\ Holder(s, q)' = NoAssembler
    BY <1>1, <1>2, <1>4 DEF Holder, TypeOK
<1>9. Settled' \subseteq 1 .. Len(sent') /\ LostWasAbandoned'
    <2>1. ASSUME NEW q \in Priorities, assembler[n][q] # NoAssembler
          PROVE  assembler[n][q].id \in abandoned
        BY <1>2, <1>4, <1>6, <1>7, <1>8, <2>1 DEF DeliveryAgreement, FlowAgreement, Forgotten
    <2>2. lost' \subseteq abandoned'
        BY <1>4, <2>1 DEF Assemblers, DeliveryAgreement, LostWasAbandoned
    <2> QED BY <1>4, <2>2 DEF DeliveryAgreement, Settled, LostWasAbandoned
<1>10. ASSUME NEW m \in Nodes, NEW k \in Priorities PROVE FlowAgreement(m, k)'
    <2>1. FlowInvariant(m, k) /\ FlowAgreement(m, k) /\ Peer[m] \in Nodes
        BY <1>2 DEF DeliveryInvariant, DeliveryAgreement
    <2>2. ~IsData(reply) /\ reply.type # "ack" /\ reply.type # "syn_rst"
        BY <1>5 DEF IsData
    <2>3. CASE m # s
        <3>1. EndsKept(m, k)
            BY ZenonT(60), <1>2, <1>4, <2>1, <2>3, UnchangedEnds DEF TypeOK
        <3>2. Undisturbed(m, k)
            BY <1>3, <1>4, <1>6, <2>2, <3>1 DEF Undisturbed
        <3>3. /\ \A b \in Range(chan'[m][k]) : IsData(b) => b \in Range(chan[m][k])
              /\ \A b \in Range(chan'[Peer[m]][k]) : b.type = "ack" => b \in Range(chan[Peer[m]][k])
            BY <1>6, <2>1, <2>2
        <3> QED BY <1>4, <2>1, <3>2, <3>3, CalmFlow
    <2>4. CASE m = s
        <3>1. \A b \in Range(chan'[s][k]) : ~IsData(b)
            BY <1>2, <1>6, <1>7, <2>1, <2>2, <2>4 DEF FlowInvariant, DataKnown, DataFits
        <3>2. \A b \in Range(chan'[n][k]) : b.type # "ack"
            BY <1>2, <1>6, <1>7, <2>1, <2>2, <2>4 DEF FlowInvariant, AcksKnown, AckFits
        <3>3. QueueComplete(s, k)'
            BY ZenonT(60), <1>4, <2>1, <2>4 DEF FlowAgreement, QueueComplete, OfFlow, Settled
        <3>4. HolderCurrent(s, k)' /\ Forgotten(s, k)' /\ FrontCurrent(s, k)'
            BY <1>4, <1>7, <1>8 DEF HolderCurrent, Forgotten, FrontCurrent
        <3> QED BY <1>2, <2>4, <3>1, <3>2, <3>3, <3>4 DEF FlowAgreement, IsData
    <2> QED BY <2>3, <2>4
<1> QED BY <1>9, <1>10 DEF DeliveryAgreement

\* The SYN reply: what the sender then holds acknowledged is in the assembler
\* of the message it goes on with.
LEMMA SynRepAgrees ==
    ASSUME TypeOK, TypeOK', DeliveryInvariant, DeliveryAgreement,
           NEW n \in Nodes, NEW p \in Priorities, ReceiveSynRep(n, p)
    PROVE  DeliveryAgreement'
<1>1. PICK s, packet : s = Peer[n] /\ packet = Incoming(n, p)
    OBVIOUS
<1>2. s \in Nodes /\ s # n /\ Peer[s] = n /\ \A m \in Nodes : Peer[m] \in Nodes
    BY <1>1, DeliveryAssumption
<1>3. 0 \in Priorities
    BY DistributionAssumption DEF Priorities
<1>4. /\ Exchange(n, p, "syn_rep", 0, <<>>)
      /\ packet.type = "syn_rep"
      /\ ReplyMatches(n, packet.sns)
      /\ syn' = [syn EXCEPT ![n] = "completed"]
      /\ queue' = [queue EXCEPT ![n] = [q \in Priorities |->
             IF q \in Busy(n)
             THEN [queue[n][q] EXCEPT ![1] = ResetTo(Front(n, q), packet.sns[q][1], packet.sns[q][2])]
             ELSE <<>>]]
      /\ UNCHANGED <<lastSn, assembler, link, reachable, sent, received, delivered, lost, abandoned>>
    BY <1>1 DEF ReceiveSynRep, Exchange
<1>5. /\ packet \in Range(chan[s][p])
      /\ \A m \in Nodes, k \in Priorities : \A b \in Range(chan'[m][k]) : b \in Range(chan[m][k])
    BY <1>1, <1>3, <1>4, ReadLink DEF DeliveryInvariant
<1>6. /\ p = 0 /\ syn[n] = "requesting"
      /\ \A q \in Priorities :
             packet.sns[q] = <<Holder(n, q).id, LowestAckedSn(Holder(n, q))>>
    BY <1>1, <1>4, <1>5 DEF DeliveryInvariant, SynExchange, RepliesKnown, ReplyFits
<1>7. \A k \in Priorities : \A b \in Range(chan[n][k]) : ~IsRequest(b) /\ ~IsData(b)
    <2>1. \A k \in Priorities : \A b \in Range(chan[n][k]) : ~IsRequest(b)
        BY <1>1, <1>4, <1>5, <1>6 DEF DeliveryInvariant, SynExchange, RequestsKnown, RequestFits
    <2>2. \A k \in Priorities : \A b \in Range(chan[n][k]) : ~IsData(b)
        BY <1>6 DEF DeliveryInvariant, FlowInvariant, DataKnown, DataFits
    <2> QED BY <2>1, <2>2
<1>8. \A k \in Priorities : \A b \in Range(chan[s][k]) : b.type # "ack"
    BY <1>1, <1>6 DEF DeliveryInvariant, FlowInvariant, AcksKnown, AckFits
<1>9. \A m \in Nodes : syn'[m] = IF m = n THEN "completed" ELSE syn[m]
    BY <1>4 DEF TypeOK
<1>10. Settled' \subseteq 1 .. Len(sent') /\ LostWasAbandoned'
    BY <1>4 DEF DeliveryAgreement, Settled, LostWasAbandoned
<1>11. ASSUME NEW m \in Nodes, NEW k \in Priorities, m # n PROVE FlowAgreement(m, k)'
    <2>1. FlowInvariant(m, k) /\ FlowAgreement(m, k) /\ Peer[m] \in Nodes /\ queue'[m] = queue[m]
        BY ZenonT(60), <1>2, <1>4, <1>11 DEF DeliveryInvariant, DeliveryAgreement, TypeOK
    <2>2. EndsKept(m, k)
        BY <1>4, <2>1, UnchangedEnds
    <2>3. Undisturbed(m, k)
        BY <1>3, <1>4, <1>5, <1>9, <1>11, <2>2 DEF Undisturbed
    <2> QED BY <1>4, <1>5, <1>9, <1>11, <2>1, <2>3, CalmFlow
<1>12. ASSUME NEW k \in Priorities PROVE FlowAgreement(n, k)'
    <2>1. FlowInvariant(n, k) /\ FlowAgreement(n, k)
        BY DEF DeliveryInvariant, DeliveryAgreement
    <2>2. /\ \A b \in Range(chan'[n][k]) : ~IsData(b)
          /\ \A b \in Range(chan'[n][0]) : b.type # "syn_rst"
          /\ \A b \in Range(chan'[Peer[n]][k]) : b.type # "ack"
        BY <1>1, <1>2, <1>3, <1>5, <1>7, <1>8 DEF IsRequest
    <2>3. Forgotten(n, k)'
        BY <1>9, <2>2 DEF Forgotten
    <2>4. PICK a : a = Holder(n, k)
        OBVIOUS
    <2>5. Holder(n, k)' = a /\ a \in Assembler
        BY <1>4, <2>4, FlowTypes DEF Holder
    <2>6. CASE queue[n][k] = <<>>
        <3>1. queue'[n][k] = queue[n][k]
            BY <1>4, <2>6 DEF Busy, TypeOK
        <3>2. QueueComplete(n, k)' /\ HolderCurrent(n, k)'
            BY ZenonT(60), <1>4, <2>1, <2>4, <2>5, <3>1
               DEF FlowAgreement, QueueComplete, HolderCurrent, OfFlow, Settled, IsFront, Front
        <3>3. FrontCurrent(n, k)'
            BY <2>6, <3>1 DEF FrontCurrent
        <3> QED BY <2>2, <2>3, <3>2, <3>3 DEF FlowAgreement, IsData
    <2>7. CASE queue[n][k] # <<>>
        <3>1. PICK t, low : t = Front(n, k) /\ low = LowestAckedSn(a)
            OBVIOUS
        <3>2. PICK u : u = ResetTo(t, a.id, low)
            OBVIOUS
        <3>3. /\ t \in Tracker /\ t = queue[n][k][1] /\ queue[n][k] \in Seq(Tracker)
              /\ Len(queue[n][k]) \in Nat \ {0} /\ low \in Nat
            <4>1. t \in Tracker /\ t = queue[n][k][1] /\ Len(queue[n][k]) \in Nat \ {0}
                BY <2>7, <3>1, FlowTypes
            <4>2. queue[n][k] \in Seq(Tracker)
                BY DEF TypeOK
            <4>3. low \in Nat
                BY <2>5, <3>1, AssemblerTypes
            <4> QED BY <4>1, <4>2, <4>3
        <3>4. packet.sns[k] = <<a.id, low>>
            BY <1>6, <2>4, <3>1
        <3>5. packet.sns[k][1] = a.id /\ packet.sns[k][2] = low
            BY <3>4
        <3>6. a.id = t.id /\ low # 0 => InRange(t, low)
            BY <1>4, <2>7, <3>1, <3>5 DEF ReplyMatches, Busy
        <3>7. /\ u.id = t.id
              /\ u.acked = {} \/ (a.id = t.id /\ low # 0 /\ u.acked = 0 .. (low - t.first))
            BY <3>2, <3>3, <3>6, ResetAcked
        <3>8. queue'[n][k] = [queue[n][k] EXCEPT ![1] = u]
            <4>1. queue'[n][k] =
                      [queue[n][k] EXCEPT ![1] = ResetTo(Front(n, k), packet.sns[k][1], packet.sns[k][2])]
                BY <1>4, <2>7 DEF Busy, TypeOK
            <4> QED BY <3>1, <3>2, <3>5, <4>1
        <3>9. /\ Len(queue'[n][k]) = Len(queue[n][k])
              /\ \A j \in 1 .. Len(queue[n][k]) : queue'[n][k][j].id = queue[n][k][j].id
              /\ queue'[n][k] # <<>> /\ Front(n, k)' = u
            BY <3>3, <3>7, <3>8 DEF Front
        <3>10. QueueComplete(n, k)'
            BY ZenonT(60), <1>4, <2>1, <3>9 DEF FlowAgreement, QueueComplete, OfFlow, Settled
        <3>11. HolderCurrent(n, k)'
            BY <1>4, <2>1, <2>4, <2>5, <2>7, <3>1, <3>7, <3>9
               DEF FlowAgreement, HolderCurrent, OfFlow, IsFront
        <3>12. ASSUME NEW i \in u.acked PROVE HeldNow(n, k, i)'
            <4>1. a.id = t.id /\ low # 0 /\ i \in 0 .. (low - t.first)
                BY <3>7, <3>12
            <4>2. t.id \in 1 .. Len(sent) /\ t.first = sent[t.id].first
                BY <2>1, <3>3 DEF FlowInvariant, QueueInOrder
            <4>3. a # NoAssembler
                BY <4>1, <4>2 DEF NoAssembler, NoMessage
            <4>4. a.first = t.first
                BY <2>1, <2>4, <4>1, <4>2, <4>3 DEF FlowInvariant, HolderKnown
            <4>5. i \in Nat /\ i <= low - a.first
                BY <3>3, <4>1, <4>4 DEF Tracker
            <4>6. i \in a.got
                BY <2>5, <3>1, <4>1, <4>5, PrefixHeld
            <4> QED BY <2>5, <3>7, <3>9, <4>1, <4>6 DEF HeldNow
        <3>13. FrontCurrent(n, k)'
            BY <3>9, <3>12 DEF FrontCurrent
        <3> QED BY <2>2, <2>3, <3>10, <3>11, <3>13 DEF FlowAgreement, IsData
    <2> QED BY <2>6, <2>7
<1> QED BY <1>10, <1>11, <1>12 DEF DeliveryAgreement

-----------------------------------------------------------------------------
(***************************************************************************)
(* Acknowledgements.                                                       *)
(***************************************************************************)

\* A receiver that still holds every part of the message being sent holds no
\* unfinished assembler of it.
LEMMA AllHeldIsOver ==
    ASSUME TypeOK, NEW n \in Nodes, NEW p \in Priorities, HolderKnown(n, p),
           NEW t \in Tracker, t = Front(n, p), t.id \in 1 .. Len(sent),
           t.count = sent[t.id].count, t.first = sent[t.id].first, Indices(t) # {},
           \A i \in Indices(t) : HeldNow(n, p, i)
    PROVE  Holder(n, p) # NoAssembler => Holder(n, p).id # t.id
<1> SUFFICES ASSUME NEW a, a = Holder(n, p), a # NoAssembler, a.id = t.id PROVE FALSE
    OBVIOUS
<1>1. /\ a.first = t.first
      /\ a.last = t.first + t.count - 1
      /\ a.got \subseteq 0 .. (a.last - a.first)
      /\ ~IsAssembled(a)
    BY DEF HolderKnown
<1>2. Indices(t) \subseteq a.got
    BY DEF HeldNow
<1>3. 0 .. (a.last - a.first) = Indices(t)
    BY <1>1 DEF Indices, Tracker
<1> QED BY <1>1, <1>2, <1>3 DEF IsAssembled

\* An acknowledgement of the message being sent. When it is the last one the
\* receiver has nothing left of that message, and no heading of it is in
\* flight unless it is all the message.
LEMMA AckAgrees ==
    ASSUME TypeOK, TypeOK', DeliveryInvariant, DeliveryInvariant', DeliveryAgreement,
           NEW n \in Nodes, NEW p \in Priorities, ReceiveAck(n, p)
    PROVE  DeliveryAgreement'
<1>1. PICK s, packet, t, sn :
          s = Peer[n] /\ packet = Incoming(n, p) /\ t = Front(n, p) /\ sn = packet.sn
    OBVIOUS
<1>2. PICK i, u : i = sn - t.first /\ u = TrackerAcknowledge(t, sn)
    OBVIOUS
<1>3. s \in Nodes /\ s # n /\ Peer[s] = n /\ \A m \in Nodes : Peer[m] \in Nodes
    BY <1>1, DeliveryAssumption
<1>4. /\ Exchange(n, p, "ack", p, <<>>) /\ link = "up" /\ packet.type = "ack"
      /\ queue[n][p] # <<>> /\ InRange(t, sn)
      /\ UNCHANGED <<syn, lastSn, assembler, link, reachable, sent, received, lost, abandoned>>
    BY <1>1 DEF ReceiveAck, Exchange, Receivable, Acknowledges
<1>5. /\ packet \in Range(chan[s][p])
      /\ \A m \in Nodes, k \in Priorities : Range(chan'[m][k]) \subseteq Range(chan[m][k])
    BY <1>1, <1>4, ReadLink DEF DeliveryInvariant
<1>6. FlowInvariant(n, p) /\ FlowAgreement(n, p) /\ FlowInvariant(n, p)'
    BY DEF DeliveryInvariant, DeliveryAgreement
<1>7. /\ t \in Tracker /\ t = queue[n][p][1] /\ queue[n][p] \in Seq(Tracker)
      /\ Len(queue[n][p]) \in Nat \ {0}
      /\ \A k \in 1 .. Len(queue[n][p]) : queue[n][p][k] \in Tracker
    <2>1. queue[n][p] \in Seq(Tracker)
        BY DEF TypeOK
    <2> QED BY <1>1, <1>4, <2>1, FlowTypes
<1>8. packet \in Packet /\ sn \in Nat
    <2>1. packet \in Packet
        BY <1>3, <1>5, FlowTypes
    <2> QED BY <1>1, <1>4, <2>1, PacketFields
<1>9. t.id \in Nat /\ t.first \in Nat /\ t.count \in Nat /\ t.acked \subseteq Nat
    BY <1>7 DEF Tracker
<1>10. i \in Indices(t) /\ t.first <= sn
    BY <1>2, <1>4, <1>8, <1>9 DEF InRange, LastSn, Indices
<1>11. /\ t.id \in 1 .. Len(sent) /\ t.first = sent[t.id].first /\ t.count = sent[t.id].count
       /\ OfFlow(n, p, t.id) /\ t.id \notin Settled
    BY <1>6, <1>7 DEF FlowInvariant, QueueInOrder, FlowAgreement, QueueComplete
<1>12. /\ reachable[n] /\ syn[n] = "completed"
       /\ HeldNow(n, p, i)
       /\ i = 0 \/ ~HeadingInFlight(n, p, t)
    <2>1. AckFits(n, p, packet) /\ AckCurrent(n, p, packet)
        BY <1>1, <1>4, <1>5, <1>6 DEF FlowInvariant, AcksKnown, FlowAgreement
    <2>2. ~(sn < t.first)
        BY <1>8, <1>9, <1>10
    <2> QED BY <1>1, <1>2, <1>4, <1>8, <1>9, <1>10, <2>1, <2>2 DEF AckFits, AckCurrent
<1>13. u.id = t.id /\ u.first = t.first /\ u.count = t.count /\ u.acked = t.acked \cup {i}
    BY <1>2, <1>7 DEF TrackerAcknowledge, Tracker
<1>14. \A j \in u.acked : HeldNow(n, p, j)
    BY <1>1, <1>4, <1>6, <1>12, <1>13 DEF FlowAgreement, FrontCurrent
<1>15. \/ /\ IsComplete(u)
          /\ queue' = [queue EXCEPT ![n][p] = Tail(queue[n][p])]
          /\ delivered' = delivered \cup {t.id}
       \/ /\ queue' = SetFront(n, p, u)
          /\ delivered' = delivered
    BY <1>1, <1>2 DEF ReceiveAck
<1>16. Settled' \subseteq 1 .. Len(sent') /\ LostWasAbandoned'
    BY <1>4, <1>11, <1>15 DEF DeliveryAgreement, Settled, LostWasAbandoned
<1>17. ASSUME NEW m \in Nodes, NEW k \in Priorities, m # n \/ k # p PROVE FlowAgreement(m, k)'
    <2>1. FlowInvariant(m, k) /\ FlowAgreement(m, k) /\ 0 \in Priorities
        BY DistributionAssumption DEF DeliveryInvariant, DeliveryAgreement, Priorities
    <2>2. queue'[m][k] = queue[m][k]
        <3>1. queue \in [Nodes -> [Priorities -> Seq(Tracker)]]
            BY DEF TypeOK
        <3> QED BY <1>15, <1>17, <3>1 DEF SetFront
    <2>3. EndsKept(m, k)
        BY <1>4, <2>2, UnchangedEnds
    <2>4. \A j \in 1 .. Len(sent') : OfFlow(m, k, j)' =>
              j \in 1 .. Len(sent) /\ (j \in delivered' => j \in delivered)
        BY <1>4, <1>11, <1>15, <1>17 DEF OfFlow
    <2>5. Undisturbed(m, k)
        BY <1>4, <1>5, <1>15, <2>1, <2>3, <2>4 DEF Undisturbed
    <2> QED BY <1>3, <1>4, <1>5, <2>1, <2>5, CalmFlow
<1>18. Holder(n, p)' = Holder(n, p)
    BY <1>4 DEF Holder
<1>19. Forgotten(n, p)'
    <2>1. 0 \in Priorities
        BY DistributionAssumption DEF Priorities
    <2> QED BY <1>4, <1>5, <1>6, <1>18, <2>1 DEF FlowAgreement, Forgotten
<1>20. PICK a : a = Holder(n, p)
    OBVIOUS
<1>21. a # NoAssembler =>
           /\ a.id \in 1 .. Len(sent) /\ OfFlow(n, p, a.id) /\ a.id \notin delivered
           /\ a.id \in abandoned \/ a.id = t.id
    BY <1>1, <1>6, <1>20, FlowIds DEF FlowAgreement, HolderCurrent, IsFront
<1>22. \A j \in 1 .. Len(sent) : OfFlow(n, p, j)' = OfFlow(n, p, j)
    BY <1>4 DEF OfFlow
<1>23. CASE /\ IsComplete(u)
            /\ queue' = [queue EXCEPT ![n][p] = Tail(queue[n][p])]
            /\ delivered' = delivered \cup {t.id}
    <2>1. u.acked = Indices(t)
        BY <1>13, <1>23 DEF IsComplete, Indices
    <2>2. a # NoAssembler => a.id # t.id
        BY ZenonT(60), <1>1, <1>6, <1>7, <1>10, <1>11, <1>14, <1>20, <2>1, AllHeldIsOver DEF FlowInvariant
    <2>3. PICK q : q = queue[n][p]
        OBVIOUS
    <2>4. queue'[n][p] = Tail(q)
        BY <1>23, <2>3 DEF TypeOK
    <2>5. /\ Len(queue'[n][p]) = Len(q) - 1
          /\ \A k \in 1 .. (Len(q) - 1) : queue'[n][p][k] = q[k + 1] /\ k + 1 \in 1 .. Len(q)
          /\ queue'[n][p] # <<>> => 2 \in 1 .. Len(q) /\ Front(n, p)' = q[2]
        <3>1. Tail(q) \in Seq(Tracker) /\ Len(Tail(q)) = Len(q) - 1
              /\ \A k \in 1 .. Len(Tail(q)) : Tail(q)[k] = q[k + 1]
            BY <1>4, <1>7, <2>3, HeadTailProperties
        <3>2. Tail(q) # <<>> => Len(q) - 1 # 0 /\ Head(Tail(q)) = Tail(q)[1]
            BY SMTT(60), <3>1, EmptySeq
        <3> QED BY <1>7, <2>3, <2>4, <3>1, <3>2 DEF Front
    <2>6. \A k \in 1 .. Len(q) : k # 1 => t.id < q[k].id /\ LastSn(t) < q[k].first /\ q[k].acked = {}
        <3>1. ASSUME NEW k \in 1 .. Len(q), k # 1
              PROVE  t.id < q[k].id /\ LastSn(t) < q[k].first /\ q[k].acked = {}
            <4>1. 1 \in 1 .. (k - 1)
                BY <1>7, <2>3, <3>1
            <4> QED BY <1>6, <1>7, <2>3, <3>1, <4>1 DEF FlowInvariant, QueueInOrder
        <3> QED BY <3>1
    <2>7. QueueComplete(n, p)'
        <3>1. ASSUME NEW k \in 1 .. Len(queue'[n][p]), NEW j, j = queue'[n][p][k].id
              PROVE  OfFlow(n, p, j)' /\ j \notin Settled'
            <4>1. k \in 1 .. (Len(q) - 1) /\ k + 1 \in 1 .. Len(q) /\ k + 1 # 1
                BY <1>7, <2>3, <2>5, <3>1
            <4>2. PICK m \in 1 .. Len(q) : m = k + 1 /\ m # 1
                BY <4>1
            <4>3. j = q[m].id
                BY <2>5, <3>1, <4>1, <4>2
            <4>4. j \in 1 .. Len(sent) /\ OfFlow(n, p, j) /\ j \notin Settled
                BY <1>6, <2>3, <4>2, <4>3, FlowIds DEF FlowAgreement, QueueComplete
            <4>5. j # t.id
                BY <1>9, <2>6, <4>2, <4>3, <4>4
            <4> QED BY <1>4, <1>22, <1>23, <4>4, <4>5 DEF Settled
        <3>2. ASSUME NEW j \in 1 .. Len(sent'), OfFlow(n, p, j)'
              PROVE  j \in Settled' \/ \E k \in 1 .. Len(queue'[n][p]) : queue'[n][p][k].id = j
            <4>1. j \in 1 .. Len(sent) /\ OfFlow(n, p, j)
                BY <1>4, <1>22, <3>2
            <4>2. j \in Settled \/ \E m \in 1 .. Len(q) : q[m].id = j
                BY <1>6, <2>3, <4>1 DEF FlowAgreement, QueueComplete
            <4>3. ASSUME NEW m \in 1 .. Len(q), q[m].id = j, j # t.id
                  PROVE  \E k \in 1 .. Len(queue'[n][p]) : queue'[n][p][k].id = j
                <5>1. m # 1
                    BY <1>7, <2>3, <4>3
                <5>2. PICK k \in 1 .. (Len(q) - 1) : m = k + 1
                    BY <1>7, <2>3, <5>1
                <5> QED BY <2>5, <4>3, <5>2
            <4> QED BY <1>4, <1>23, <4>2, <4>3 DEF Settled
        <3> QED BY ZenonT(60), <3>1, <3>2 DEF QueueComplete, OfFlow, Settled
    <2>8. HolderCurrent(n, p)'
        <3>1. a # NoAssembler =>
                  OfFlow(n, p, a.id)' /\ a.id \notin delivered' /\ a.id \in abandoned'
            BY <1>4, <1>21, <1>22, <1>23, <2>2
        <3> QED BY <1>18, <1>20, <3>1 DEF HolderCurrent, OfFlow, IsFront
    <2>9. ASSUME NEW b \in Range(chan'[n][p]), IsData(b) PROVE DataCurrent(n, p, b)'
        <3>1. PICK j : j = MessageOf(b)
            OBVIOUS
        <3>2. b \in Range(chan[n][p]) /\ DataFits(n, p, b) /\ DataCurrent(n, p, b) /\ j \in 1 .. Len(sent)
            BY <1>5, <1>6, <2>9, <3>1, FlowIds DEF FlowInvariant, DataKnown, FlowAgreement
        <3>3. b.type = "message" => sent[j].count = 1
            <4> SUFFICES ASSUME b.type = "message", sent[j].count # 1 PROVE FALSE
                OBVIOUS
            <4>1. j = t.id
                BY <1>1, <3>1, <3>2 DEF DataCurrent, IsFront
            <4>2. HeadingInFlight(n, p, t)
                BY <3>1, <3>2, <4>1 DEF HeadingInFlight, MessageOf
            <4>3. i = 0 /\ t.acked \cup {0} = Indices(t)
                BY <1>12, <1>13, <2>1, <4>2
            <4>4. t.acked \subseteq {0}
                BY <1>1, <1>4, <1>9, <3>1, <3>2, <4>1 DEF DataFits
            <4>5. 1 \in Indices(t)
                BY <1>9, <1>10, <1>11, <4>1 DEF Indices
            <4> QED BY <4>3, <4>4, <4>5
        <3> QED BY <1>4, <1>18, <1>22, <3>1, <3>2, <3>3 DEF DataCurrent, OfFlow, MessageOf, IsFront
    <2>10. ASSUME NEW b \in Range(chan'[Peer[n]][p]), b.type = "ack" PROVE AckCurrent(n, p, b)'
        <3>1. b \in Range(chan[s][p]) /\ AckFits(n, p, b) /\ b \in Packet
            BY ZenonT(60), <1>1, <1>3, <1>5, <1>6, <2>10, FlowTypes DEF FlowInvariant, AcksKnown
        <3>2. b.sn \in Nat
            BY <2>10, <3>1, PacketFields
        <3>3. LastSn(t) \in Int /\ b.sn <= LastSn(t)
            BY <1>1, <1>4, <1>9, <1>10, <3>1, <3>2 DEF AckFits, InRange, LastSn, Indices
        <3>4. queue'[n][p] # <<>> => Front(n, p)'.first \in Nat /\ LastSn(t) < Front(n, p)'.first
            <4>1. queue'[n][p] # <<>> => q[2] \in Tracker /\ LastSn(t) < q[2].first /\ Front(n, p)' = q[2]
                BY <1>7, <2>3, <2>5, <2>6
            <4> QED BY <4>1 DEF Tracker
        <3>5. ~(queue'[n][p] # <<>> /\ Front(n, p)'.first <= b.sn)
            BY <3>2, <3>3, <3>4
        <3> QED BY <3>5 DEF AckCurrent
    <2>11. FrontCurrent(n, p)'
        BY <2>5, <2>6 DEF FrontCurrent
    <2> QED BY <1>19, <1>16, <1>17, <2>7, <2>8, <2>9, <2>10, <2>11 DEF DeliveryAgreement, FlowAgreement, IsData
<1>24. CASE queue' = SetFront(n, p, u) /\ delivered' = delivered
    <2>1. /\ queue'[n][p] # <<>> /\ Front(n, p)' = u
          /\ Len(queue'[n][p]) = Len(queue[n][p])
          /\ \A k \in 1 .. Len(queue[n][p]) : queue'[n][p][k].id = queue[n][p][k].id
        BY <1>1, <1>4, <1>13, <1>24, ChangedFront
    <2>2. \A j : HeldNow(n, p, j) => HeldNow(n, p, j)'
        BY <1>1, <1>4, <1>13, <1>18, <2>1 DEF HeldNow
    <2>3. QueueComplete(n, p)'
        BY ZenonT(60), <1>4, <1>6, <1>24, <2>1 DEF FlowAgreement, QueueComplete, OfFlow, Settled
    <2>4. \A j : IsFront(n, p, j) => IsFront(n, p, j)'
        BY <1>1, <1>13, <2>1 DEF IsFront
    <2>5. HolderCurrent(n, p)'
        BY <1>4, <1>6, <1>18, <1>24, <2>4 DEF FlowAgreement, HolderCurrent, OfFlow, IsFront
    <2>6. ASSUME NEW b \in Range(chan'[n][p]), IsData(b) PROVE DataCurrent(n, p, b)'
        <3>1. DataCurrent(n, p, b)
            BY <1>5, <1>6, <2>6 DEF FlowAgreement
        <3> QED BY <1>4, <1>18, <2>4, <3>1 DEF DataCurrent, OfFlow, MessageOf, IsFront
    <2>7. ASSUME NEW b \in Range(chan'[Peer[n]][p]), b.type = "ack" PROVE AckCurrent(n, p, b)'
        <3>1. AckCurrent(n, p, b)
            BY <1>3, <1>5, <1>6, <2>7 DEF FlowAgreement
        <3>2. t.first <= b.sn => HeldNow(n, p, b.sn - t.first)
            BY <1>1, <1>4, <3>1 DEF AckCurrent
        <3>3. t.first <= b.sn => HeldNow(n, p, b.sn - t.first)'
            BY <2>2, <3>2
        <3> QED BY <1>13, <2>1, <3>3, AckStays
    <2>8. FrontCurrent(n, p)'
        BY <1>14, <2>1, <2>2 DEF FrontCurrent
    <2> QED BY <1>19, <1>16, <1>17, <2>3, <2>5, <2>6, <2>7, <2>8 DEF DeliveryAgreement, FlowAgreement, IsData
<1> QED BY <1>15, <1>23, <1>24

-----------------------------------------------------------------------------
(***************************************************************************)
(* Parts.                                                                  *)
(***************************************************************************)

\* A packet read is one in flight.
LEMMA IncomingInFlight ==
    ASSUME TypeOK, LinkInOrder, NEW n \in Nodes, NEW p \in Priorities, NEW s, s = Peer[n],
           NEW packet, packet = Incoming(n, p), Receivable(n, p)
    PROVE  packet \in Range(chan[s][p]) /\ packet \in Packet /\ s \in Nodes /\ Peer[s] = n
<1>1. s \in Nodes /\ Peer[s] = n
    BY DeliveryAssumption
<1>2. chan[s][p] # <<>> /\ chan[s][p] \in Seq(Packet)
    BY <1>1 DEF Receivable, TypeOK
<1>3. packet \in Range(chan[s][p])
    BY <1>1, <1>2, ReadPacket DEF LinkInOrder, Incoming
<1> QED BY <1>1, <1>3, FlowTypes

\* A part read and filed in the assembler that becomes a: unless it completes
\* the message it is of the message being sent, and a has all that its sender
\* counts on.
LEMMA FiledAgrees ==
    ASSUME TypeOK, TypeOK', DeliveryInvariant, DeliveryAgreement,
           NEW n \in Nodes, NEW p \in Priorities, NEW s, s = Peer[n],
           NEW packet, packet = Incoming(n, p),
           NEW type \in {"message", "part"}, NEW a,
           Exchange(n, p, type, p, Ack(n, packet.sn)),
           KeepOrHandOver(n, p, a),
           UNCHANGED <<syn, queue, lastSn, delivered>>,
           lost' \subseteq abandoned,
           IsAssembled(a) \/ IsFront(s, p, a.id),
           \A b \in Range(chan[s][p]) :
               Precedes(packet, b) /\ b.type = "part" => IsAssembled(a) \/ MessageOf(b) = a.id,
           NEW t, t = Front(s, p),
           queue[s][p] # <<>> =>
               /\ IsAssembled(a) => \A i : HeldNow(s, p, i) => t.id \in received \/ t.id = a.id
               /\ ~IsAssembled(a) => \A i \in t.acked : HeldNow(s, p, i) => i \in a.got
               /\ ~IsAssembled(a) => \A b \in Range(chan[n][p]) :
                      b.type = "ack" /\ t.first <= b.sn => b.sn - t.first \in a.got
               /\ t.first <= packet.sn => t.id = a.id /\ packet.sn - t.first \in a.got
    PROVE  DeliveryAgreement'
<1>1. s \in Nodes /\ Peer[s] = n /\ \A m \in Nodes : Peer[m] \in Nodes /\ (m # s => Peer[m] # n)
    BY DeliveryAssumption
<1>2. /\ packet.type = type /\ link = "up" /\ Receivable(n, p)
      /\ UNCHANGED <<link, reachable, sent, abandoned>>
    BY DEF Exchange, Receivable
<1>3. packet \in Range(chan[s][p]) /\ packet \in Packet
    BY <1>2, IncomingInFlight DEF DeliveryInvariant
<1>4. IsData(packet) /\ packet.sn \in Nat
    BY <1>2, <1>3, PacketFields DEF IsData
<1>5. FlowInvariant(s, p) /\ FlowAgreement(s, p)
    BY <1>1 DEF DeliveryInvariant, DeliveryAgreement
<1>6. syn[s] = "completed"
    BY <1>3, <1>4, <1>5 DEF FlowInvariant, DataKnown, DataFits
<1>7. /\ \A b \in Range(chan'[s][p]) : Precedes(packet, b)
      /\ \A m \in Nodes, k \in Priorities : \A b \in Range(chan'[m][k]) :
             b \in Range(chan[m][k]) \/ (m = n /\ k = p /\ b.type = "ack" /\ b.sn = packet.sn)
    <2>1. LinkInOrder
        BY DEF DeliveryInvariant
    <2>2. TypeOK /\ n \in Nodes /\ p \in Priorities /\ Exchange(n, p, type, p, Ack(n, packet.sn))
        OBVIOUS
    <2>3. AckedAfter(n, p, packet.sn)
        BY ONLY <1>4, <2>1, <2>2, AckLink
    <2>4. s = Peer[n] /\ packet = Incoming(n, p)
        OBVIOUS
    <2> QED BY ONLY <2>3, <2>4 DEF AckedAfter
<1>8. /\ \A m \in Nodes, k \in Priorities : m # n \/ k # p => assembler'[m][k] = assembler[m][k]
      /\ received \subseteq received'
      /\ \/ IsAssembled(a) /\ assembler'[n][p] = NoAssembler /\ received' = received \cup {a.id}
         \/ ~IsAssembled(a) /\ assembler'[n][p] = a /\ received' = received
    <2>1. assembler' = [assembler EXCEPT ![n][p] = IF IsAssembled(a) THEN NoAssembler ELSE a]
        BY DEF KeepOrHandOver
    <2>2. assembler \in [Nodes -> [Priorities -> Assembler]]
        BY DEF TypeOK
    <2> QED BY <2>1, <2>2 DEF KeepOrHandOver
<1>9. Settled' \subseteq 1 .. Len(sent') /\ LostWasAbandoned'
    BY <1>2 DEF DeliveryAgreement, Settled, LostWasAbandoned
<1>10. 0 \in Priorities
    BY DistributionAssumption DEF Priorities
<1>11. ASSUME NEW m \in Nodes, NEW k \in Priorities, m # s \/ k # p PROVE FlowAgreement(m, k)'
    <2>1. /\ Peer[m] \in Nodes /\ assembler'[Peer[m]][k] = assembler[Peer[m]][k]
          /\ FlowInvariant(m, k) /\ FlowAgreement(m, k)
        BY <1>1, <1>8, <1>11 DEF DeliveryInvariant, DeliveryAgreement
    <2>2. EndsKept(m, k)
        BY <1>2, <1>8, <2>1, UnchangedEnds
    <2>3. \A b \in Range(chan'[m][0]) : b.type = "syn_rst" => b \in Range(chan[m][0])
        BY <1>7, <1>10
    <2>4. Undisturbed(m, k)
        BY <1>2, <2>2, <2>3 DEF Undisturbed
    <2>5. \A b \in Range(chan'[m][k]) : IsData(b) => b \in Range(chan[m][k])
        BY <1>7 DEF IsData
    <2>6. \A b \in Range(chan'[Peer[m]][k]) : b.type = "ack" => b \in Range(chan[Peer[m]][k])
        BY <1>1, <1>7, <1>11, <2>1
    <2> QED BY <1>2, <2>1, <2>4, <2>5, <2>6, CalmFlow
<1>12. FlowAgreement(s, p)'
    <2>1. Holder(s, p)' = IF IsAssembled(a) THEN NoAssembler ELSE a
        BY <1>1, <1>8 DEF Holder
    <2>2. Front(s, p)' = t /\ (queue'[s][p] # <<>> <=> queue[s][p] # <<>>)
        BY DEF Front
    <2>3. QueueComplete(s, p)'
        BY ZenonT(60), <1>2, <1>5 DEF FlowAgreement, QueueComplete, OfFlow, Settled
    <2>4. HolderCurrent(s, p)'
        <3>1. CASE IsAssembled(a)
            BY <2>1, <3>1 DEF HolderCurrent
        <3>2. CASE ~IsAssembled(a)
            <4>1. queue[s][p] # <<>> /\ a.id = t.id /\ IsFront(s, p, a.id)
                BY <3>2 DEF IsFront
            <4>2. t = queue[s][p][1] /\ 1 \in 1 .. Len(queue[s][p])
                BY <1>1, <4>1, FlowTypes
            <4>3. OfFlow(s, p, a.id) /\ a.id \notin delivered
                <5>1. QueueComplete(s, p)
                    BY <1>5 DEF FlowAgreement
                <5>2. queue[s][p][1].id = a.id
                    BY <4>1, <4>2
                <5> QED BY ONLY <4>2, <5>1, <5>2 DEF QueueComplete, Settled
            <4>4. OfFlow(s, p, a.id)' /\ a.id \notin delivered' /\ IsFront(s, p, a.id)'
                BY <1>2, <2>2, <4>1, <4>3 DEF OfFlow, IsFront
            <4> QED BY <2>1, <3>2, <4>4 DEF HolderCurrent, OfFlow, IsFront
        <3> QED BY <3>1, <3>2
    <2>5. ASSUME NEW b \in Range(chan'[s][p]), IsData(b) PROVE DataCurrent(s, p, b)'
        <3>1. b \in Range(chan[s][p]) /\ Precedes(packet, b) /\ DataCurrent(s, p, b)
            BY <1>1, <1>5, <1>7, <2>5 DEF FlowAgreement, IsData
        <3>2. b.type = "part" => Holder(s, p)'.id \in {NoMessage, MessageOf(b)}
            BY <2>1, <3>1 DEF NoAssembler
        <3> QED BY <1>2, <2>2, <3>1, <3>2 DEF DataCurrent, OfFlow, MessageOf, IsFront, Front
    <2>6. ASSUME NEW i, queue[s][p] # <<>>,
                 IsAssembled(a) => t.id \in received \/ t.id = a.id,
                 ~IsAssembled(a) => i \in a.got
          PROVE  HeldNow(s, p, i)'
        <3>1. CASE IsAssembled(a)
            <4>1. Holder(s, p)' = NoAssembler /\ t.id \in received'
                BY <1>8, <2>1, <2>6, <3>1
            <4> QED BY <2>2, <4>1 DEF HeldNow
        <3>2. CASE ~IsAssembled(a)
            <4>1. Holder(s, p)' = a /\ a.id = t.id /\ i \in a.got
                BY <2>1, <2>6, <3>2 DEF IsFront
            <4> QED BY <2>2, <4>1 DEF HeldNow
        <3> QED BY <3>1, <3>2
    <2>7. ASSUME NEW b \in Range(chan'[n][p]), b.type = "ack" PROVE AckCurrent(s, p, b)'
        <3>1. ASSUME queue[s][p] # <<>>, t.first <= b.sn PROVE HeldNow(s, p, b.sn - t.first)'
            <4>1. CASE b \in Range(chan[n][p])
                <5>1. HeldNow(s, p, b.sn - t.first)
                    BY <1>1, <1>5, <2>7, <3>1, <4>1 DEF FlowAgreement, AckCurrent
                <5> QED BY <2>6, <2>7, <3>1, <4>1, <5>1
            <4>2. CASE b.sn = packet.sn
                BY <2>6, <3>1, <4>2
            <4> QED BY <1>1, <1>7, <2>7, <4>1, <4>2
        <3>2. PICK f : f = t.first
            OBVIOUS
        <3>3. queue'[s][p] # <<>> => Front(s, p)'.first = f
            BY <2>2, <3>2
        <3>4. queue'[s][p] # <<>> /\ f <= b.sn => HeldNow(s, p, b.sn - f)'
            BY <2>2, <3>1, <3>2
        <3> QED BY <3>3, <3>4, AckStays
    <2>8. FrontCurrent(s, p)'
        <3>1. ASSUME queue[s][p] # <<>>, reachable[s], NEW i \in t.acked PROVE HeldNow(s, p, i)'
            <4>1. HeldNow(s, p, i)
                BY <1>2, <1>5, <1>6, <3>1 DEF FlowAgreement, FrontCurrent
            <4> QED BY <2>6, <3>1, <4>1
        <3> QED BY <1>2, <2>2, <3>1 DEF FrontCurrent
    <2>9. Forgotten(s, p)'
        <3>1. \A b \in Range(chan'[s][0]) : b.type # "syn_rst"
            BY <1>1, <1>6, <1>7, <1>10
               DEF DeliveryInvariant, SynExchange, RequestsKnown, RequestFits, IsRequest
        <3> QED BY <1>6, <3>1 DEF Forgotten
    <2> QED BY <1>1, <2>3, <2>4, <2>5, <2>7, <2>8, <2>9 DEF FlowAgreement, IsData
<1> QED BY <1>9, <1>11, <1>12 DEF DeliveryAgreement

\* A heading: when it is not all of its message, that message is being sent,
\* at most its heading is acknowledged, and no message but a forgotten one was
\* being assembled in its place.
LEMMA HeadingAgrees ==
    ASSUME TypeOK, TypeOK', DeliveryInvariant, DeliveryAgreement,
           NEW n \in Nodes, NEW p \in Priorities, ReceiveHeading(n, p)
    PROVE  DeliveryAgreement'
<1>1. PICK s, packet, old, a, j, t :
          /\ s = Peer[n] /\ packet = Incoming(n, p)
          /\ old = assembler[n][p] /\ a = Started(old, packet)
          /\ j = packet.id /\ t = Front(s, p)
    OBVIOUS
<1>2. /\ Exchange(n, p, "message", p, Ack(n, packet.sn))
      /\ KeepOrHandOver(n, p, a)
      /\ lost' = IF old = NoAssembler \/ old.id = j THEN lost ELSE lost \cup {old.id}
      /\ UNCHANGED <<syn, queue, lastSn, delivered>>
      /\ packet.type = "message" /\ Receivable(n, p)
    BY <1>1 DEF ReceiveHeading, Exchange, outVars
<1>3. packet \in Range(chan[s][p]) /\ packet \in Packet /\ s \in Nodes /\ Peer[s] = n
    BY <1>1, <1>2, IncomingInFlight DEF DeliveryInvariant
<1>4. /\ FlowInvariant(s, p) /\ FlowAgreement(s, p)
      /\ DataFits(s, p, packet) /\ DataCurrent(s, p, packet)
    BY <1>2, <1>3
       DEF DeliveryInvariant, DeliveryAgreement, FlowInvariant, FlowAgreement, DataKnown, IsData
<1>5. /\ j \in 1 .. Len(sent) /\ MessageOf(packet) = j /\ j \in Nat
      /\ packet.sn = sent[j].first /\ packet.last = sent[j].first + sent[j].count - 1
      /\ packet.sn <= packet.last
      /\ packet.sn \in Nat /\ packet.last \in Nat
      /\ sent[j].count = 1 \/ IsFront(s, p, j)
    BY <1>1, <1>2, <1>3, <1>4, PacketFields DEF DataFits, DataCurrent, MessageOf
<1>6. sent[j].first \in Nat /\ sent[j].count \in Nat
    BY <1>5, <1>3, FlowTypes DEF Message
<1>7. /\ a.id = j /\ a.first = packet.sn /\ a.last = packet.last /\ a.got = {0}
    BY <1>1, <1>5 DEF Started, NewAssembler, AssemblerAcknowledge
<1>8. IsAssembled(a) \/ IsFront(s, p, j)
    <2>1. sent[j].count = 1 => a.last - a.first = 0
        BY <1>5, <1>6, <1>7
    <2>2. sent[j].count = 1 => IsAssembled(a)
        BY <1>7, <2>1 DEF IsAssembled
    <2> QED BY <1>5, <2>2
<1>9. queue[s][p] # <<>> =>
          /\ t \in Tracker /\ t.id \in Nat /\ t.first \in Nat /\ t.first = sent[t.id].first
          /\ \/ j < t.id /\ packet.sn < t.first
             \/ j = t.id /\ packet.sn = t.first /\ t.acked \subseteq {0}
    <2> SUFFICES ASSUME queue[s][p] # <<>>
                 PROVE  /\ t \in Tracker /\ t.id \in Nat /\ t.first \in Nat /\ t.first = sent[t.id].first
                        /\ \/ j < t.id /\ packet.sn < t.first
                           \/ j = t.id /\ packet.sn = t.first /\ t.acked \subseteq {0}
        OBVIOUS
    <2>1. t \in Tracker /\ t = queue[s][p][1] /\ 1 \in 1 .. Len(queue[s][p])
        BY <1>1, <1>3, FlowTypes
    <2>2. t.id \in Nat /\ t.first \in Nat /\ t.first = sent[t.id].first
        BY ZenonT(60), <1>4, <2>1 DEF FlowInvariant, QueueInOrder, Tracker
    <2>3. \/ MessageOf(packet) < t.id /\ packet.sn < t.first
          \/ /\ MessageOf(packet) = t.id /\ InRange(t, packet.sn)
             /\ IF packet.type = "part" THEN 0 \in t.acked ELSE t.acked \subseteq {0}
        <3>1. queue[s][p] # <<>> /\ t = Front(s, p) /\ DataFits(s, p, packet)
            BY <1>1, <1>4
        <3> QED BY ONLY <3>1 DEF DataFits
    <2>4. MessageOf(packet) = j /\ packet.type = "message" /\ packet.sn = sent[j].first
        BY <1>2, <1>5
    <2> QED BY ONLY <2>1, <2>2, <2>3, <2>4
<1>10. Holder(s, p) = old /\ old \in Assembler /\ old.id \in Nat /\ old.id <= j
    <2>1. Holder(s, p) = old
        BY <1>1, <1>3 DEF Holder
    <2> QED BY <1>3, <1>4, <1>5, <2>1, FlowTypes DEF DataFits, Assembler
<1>11. lost' \subseteq abandoned
    <2>1. ASSUME old # NoAssembler, old.id # j PROVE old.id \in abandoned
        <3>1. old.id \in abandoned \/ IsFront(s, p, old.id)
            BY <1>4, <1>10, <2>1 DEF FlowAgreement, HolderCurrent
        <3>2. ~IsFront(s, p, old.id)
            BY <1>1, <1>5, <1>9, <1>10, <2>1 DEF IsFront
        <3> QED BY <3>1, <3>2
    <2> QED BY <1>2, <2>1 DEF DeliveryAgreement, LostWasAbandoned
<1>12. \A b \in Range(chan[s][p]) :
           Precedes(packet, b) /\ b.type = "part" => IsAssembled(a) \/ MessageOf(b) = a.id
    <2> SUFFICES ASSUME NEW b \in Range(chan[s][p]), Precedes(packet, b), b.type = "part",
                        ~IsAssembled(a)
                 PROVE  MessageOf(b) = j
        BY <1>7
    <2>1. DataFits(s, p, b) /\ IsData(packet) /\ IsData(b)
        BY <1>2, <1>4 DEF FlowInvariant, DataKnown, IsData
    <2>2. j <= MessageOf(b) /\ MessageOf(b) \in Nat
        BY <1>5, <2>1 DEF Precedes, DataFits
    <2>3. queue[s][p] # <<>> /\ t.id = j
        BY <1>1, <1>8 DEF IsFront
    <2>4. MessageOf(b) <= t.id
        BY <1>1, <1>9, <2>1, <2>2, <2>3 DEF DataFits
    <2> QED BY <1>5, <2>2, <2>3, <2>4
<1>13. ASSUME queue[s][p] # <<>>
       PROVE  /\ IsAssembled(a) => \A i : HeldNow(s, p, i) => t.id \in received \/ t.id = a.id
              /\ ~IsAssembled(a) => \A i \in t.acked : HeldNow(s, p, i) => i \in a.got
              /\ ~IsAssembled(a) => \A b \in Range(chan[n][p]) :
                     b.type = "ack" /\ t.first <= b.sn => b.sn - t.first \in a.got
              /\ t.first <= packet.sn => t.id = a.id /\ packet.sn - t.first \in a.got
    <2>1. \A i : HeldNow(s, p, i) => t.id \in received \/ t.id = j
        BY <1>1, <1>5, <1>9, <1>10, <1>13 DEF HeldNow
    <2>2. ~IsAssembled(a) => t.id = j /\ t.acked \subseteq {0}
        BY <1>1, <1>5, <1>8, <1>9, <1>13 DEF IsFront
    <2>3. ASSUME ~IsAssembled(a), NEW b \in Range(chan[n][p]), b.type = "ack", t.first <= b.sn
          PROVE  b.sn - t.first \in a.got
        <3>1. AckFits(s, p, b) /\ b \in Packet
            BY <1>3, <1>4, <2>3, FlowTypes DEF FlowInvariant, AcksKnown
        <3>2. b.sn \in Nat
            BY <2>3, <3>1, PacketFields
        <3>3. HeadingInFlight(s, p, t)
            BY <1>1, <1>2, <1>3, <2>2, <2>3 DEF HeadingInFlight
        <3>4. b.sn = t.first
            BY <1>1, <1>9, <1>13, <2>3, <3>1, <3>2, <3>3 DEF AckFits
        <3> QED BY <1>7, <1>9, <1>13, <3>4
    <2>4. t.first <= packet.sn => t.id = j /\ packet.sn - t.first = 0
        BY <1>5, <1>9, <1>13
    <2> QED BY <1>7, <2>1, <2>2, <2>3, <2>4
<1> QED BY <1>1, <1>2, <1>7, <1>8, <1>11, <1>12, <1>13, FiledAgrees

\* Another part: the assembler is that of the message it was cut from, which
\* is being sent.
LEMMA PartAgrees ==
    ASSUME TypeOK, TypeOK', DeliveryInvariant, DeliveryAgreement,
           NEW n \in Nodes, NEW p \in Priorities, ReceivePart(n, p)
    PROVE  DeliveryAgreement'
<1>1. PICK s, packet, old, a, t :
          /\ s = Peer[n] /\ packet = Incoming(n, p)
          /\ old = assembler[n][p] /\ a = AssemblerAcknowledge(old, packet.sn)
          /\ t = Front(s, p)
    OBVIOUS
<1>2. /\ Exchange(n, p, "part", p, Ack(n, packet.sn))
      /\ old # NoAssembler
      /\ KeepOrHandOver(n, p, a)
      /\ UNCHANGED <<syn, queue, lastSn, delivered, lost>>
      /\ packet.type = "part" /\ Receivable(n, p)
    BY <1>1 DEF ReceivePart, Exchange, outVars
<1>3. packet \in Range(chan[s][p]) /\ packet \in Packet /\ s \in Nodes /\ Peer[s] = n
    BY <1>1, <1>2, IncomingInFlight DEF DeliveryInvariant
<1>4. /\ FlowInvariant(s, p) /\ FlowAgreement(s, p)
      /\ DataFits(s, p, packet) /\ DataCurrent(s, p, packet)
    BY <1>2, <1>3
       DEF DeliveryInvariant, DeliveryAgreement, FlowInvariant, FlowAgreement, DataKnown, IsData
<1>5. Holder(s, p) = old /\ old \in Assembler
    <2>1. Holder(s, p) = old
        BY <1>1, <1>3 DEF Holder
    <2> QED BY <1>3, <2>1, FlowTypes
<1>6. a.id = old.id /\ a.got = old.got \cup {packet.sn - old.first}
    BY <1>1, <1>5 DEF AssemblerAcknowledge, Assembler
<1>7. old.id \in 1 .. Len(sent) /\ old.first = sent[old.id].first
    BY <1>2, <1>4, <1>5 DEF FlowInvariant, HolderKnown
<1>8. old.id = MessageOf(packet) /\ IsFront(s, p, old.id)
    <2>1. old.id = MessageOf(packet)
        BY <1>2, <1>4, <1>5, <1>7 DEF DataCurrent, NoMessage
    <2>2. old.id \notin abandoned
        BY <1>4, <2>1 DEF DataCurrent
    <2> QED BY <1>2, <1>4, <1>5, <2>1, <2>2 DEF FlowAgreement, HolderCurrent
<1>9. queue[s][p] # <<>> /\ t.id = old.id /\ t.first = old.first
    <2>1. queue[s][p] # <<>> /\ t.id = old.id
        BY <1>1, <1>8 DEF IsFront
    <2>2. t = queue[s][p][1] /\ 1 \in 1 .. Len(queue[s][p])
        BY <1>1, <1>3, <2>1, FlowTypes
    <2> QED BY <1>4, <1>7, <2>1, <2>2 DEF FlowInvariant, QueueInOrder
<1>10. \A i : HeldNow(s, p, i) => i \in a.got
    BY <1>1, <1>2, <1>5, <1>6 DEF HeldNow
<1>11. \A b \in Range(chan[s][p]) :
           Precedes(packet, b) /\ b.type = "part" => IsAssembled(a) \/ MessageOf(b) = a.id
    BY <1>4, <1>5, <1>6, <1>7 DEF FlowAgreement, DataCurrent, IsData, NoMessage
<1>12. \A b \in Range(chan[n][p]) : b.type = "ack" /\ t.first <= b.sn => b.sn - t.first \in a.got
    BY <1>1, <1>3, <1>4, <1>9, <1>10 DEF FlowAgreement, AckCurrent
<1>13. lost' \subseteq abandoned
    BY <1>2 DEF DeliveryAgreement, LostWasAbandoned
<1>14. packet.sn - t.first \in a.got /\ t.id = a.id
    BY <1>6, <1>9
<1> QED BY <1>1, <1>2, <1>6, <1>8, <1>10, <1>11, <1>12, <1>13, <1>14, FiledAgrees

-----------------------------------------------------------------------------
(***************************************************************************)
(* Every step, and what follows.                                           *)
(***************************************************************************)

\* Nothing is accepted, assembled or in flight at the start.
LEMMA InitAgreement == Init => DeliveryAgreement
<1> SUFFICES ASSUME Init PROVE DeliveryAgreement
    OBVIOUS
<1>1. \A n \in Nodes, p \in Priorities :
          /\ queue[n][p] = <<>>
          /\ Range(chan[n][p]) = {}
          /\ assembler[n][p] = NoAssembler
    BY DEF Init, Range
<1>2. \A n \in Nodes : Peer[n] \in Nodes
    BY DeliveryAssumption
<1>3. Settled = {} /\ LostWasAbandoned /\ Len(sent) = 0
    BY DEF Init, Settled, LostWasAbandoned
<1>4. ASSUME NEW n \in Nodes, NEW p \in Priorities PROVE FlowAgreement(n, p)
    <2>1. Holder(n, p) = NoAssembler
        BY <1>1, <1>2 DEF Holder
    <2>2. Len(queue[n][p]) = 0
        BY <1>1
    <2>3. QueueComplete(n, p)
        BY <1>3, <2>2 DEF QueueComplete
    <2>4. HolderCurrent(n, p) /\ Forgotten(n, p)
        BY <2>1 DEF HolderCurrent, Forgotten
    <2>5. FrontCurrent(n, p)
        BY <1>1 DEF FrontCurrent
    <2> QED BY <1>1, <1>2, <2>3, <2>4, <2>5 DEF FlowAgreement
<1> QED BY <1>3, <1>4 DEF DeliveryAgreement

\* A packet of any type read.
LEMMA ReceiveAgrees ==
    ASSUME TypeOK, TypeOK', DeliveryInvariant, DeliveryInvariant', DeliveryAgreement,
           NEW n \in Nodes, NEW p \in Priorities, Receive(n, p)
    PROVE  DeliveryAgreement'
<1>1. CASE ReceiveSynRst(n, p)
    BY <1>1, SynRstAgrees
<1>2. CASE ReceiveSynReq(n, p) \/ IgnoreAck(n, p) \/ IgnorePart(n, p)
    BY <1>2, CalmReads
<1>3. CASE ReceiveSynRep(n, p)
    BY <1>3, SynRepAgrees
<1>4. CASE ReceiveAck(n, p)
    BY <1>4, AckAgrees
<1>5. CASE ReceiveHeading(n, p)
    BY <1>5, HeadingAgrees
<1>6. CASE ReceivePart(n, p)
    BY <1>6, PartAgrees
<1> QED BY <1>1, <1>2, <1>3, <1>4, <1>5, <1>6 DEF Receive

\* Every step keeps the two ends at the same message.
LEMMA NextAgreement ==
    TypeOK /\ TypeOK' /\ SuspendedWhileUnreachable /\ DeliveryInvariant /\ DeliveryInvariant'
        /\ DeliveryAgreement /\ [Next]_vars => DeliveryAgreement'
<1> SUFFICES ASSUME TypeOK, TypeOK', SuspendedWhileUnreachable, DeliveryInvariant,
                    DeliveryInvariant', DeliveryAgreement, [Next]_vars
             PROVE  DeliveryAgreement'
    OBVIOUS
<1>1. ASSUME NEW n \in Senders, NEW p \in Priorities, NEW count \in PartCounts,
             EnqueueMessage(n, p, count)
      PROVE  DeliveryAgreement'
    <2>1. n \in Nodes /\ count \in Nat
        BY DeliveryAssumption
    <2> QED BY <1>1, <2>1, EnqueueAgrees
<1>2. ASSUME NEW n \in Nodes,
             \/ InitiateSyn(n) \/ SendPart(n) \/ ScanInVain(n) \/ ExpireSyn(n)
             \/ Unreachable(n) \/ RouteReady(n) \/ Restart(n)
      PROVE  DeliveryAgreement'
    <2>1. CASE InitiateSyn(n) \/ ScanInVain(n) \/ ExpireSyn(n)
        <3>1. 0 \in Priorities
            BY DistributionAssumption DEF Priorities
        <3> QED BY <2>1, <3>1, CalmSends
    <2>2. CASE SendPart(n)
        BY <2>2, SendPartAgrees
    <2>3. CASE Unreachable(n) \/ RouteReady(n)
        BY <2>3, CalmRoutes
    <2>4. CASE Restart(n)
        BY <2>4, RestartAgrees
    <2> QED BY <1>2, <2>1, <2>2, <2>3, <2>4
<1>3. ASSUME NEW n \in Nodes, NEW p \in Priorities,
             Receive(n, p) \/ ExpireTracker(n, p) \/ Reroute(n, p)
      PROVE  DeliveryAgreement'
    <2>1. CASE Receive(n, p)
        BY <2>1, ReceiveAgrees
    <2>2. CASE ExpireTracker(n, p) \/ Reroute(n, p)
        BY <2>2, CalmSends
    <2> QED BY <1>3, <2>1, <2>2
<1>4. CASE Break \/ Reconnect
    <2>1. CASE Nodes = {}
        BY <1>4, <2>1 DEF DeliveryAgreement, Break, Reconnect, histVars, Settled, LostWasAbandoned
    <2>2. ASSUME NEW n \in Nodes PROVE DeliveryAgreement'
        BY <1>4, CalmRoutes
    <2> QED BY <2>1, <2>2
<1>5. CASE UNCHANGED vars
    <2>1. UNCHANGED <<syn, queue, lastSn, assembler, chan, link, reachable,
                      sent, received, delivered, lost, abandoned>>
        BY <1>5 DEF vars, synVars, outVars, netVars, histVars
    <2>2. \A n \in Nodes, p \in Priorities : TrackersKept(n, p)
        BY <2>1 DEF TrackersKept
    <2>3. \A n \in Nodes, p \in Priorities : \A b \in Range(chan'[n][p]) :
              b \in Range(chan[n][p])
        BY <2>1
    <2> QED BY <2>1, <2>2, <2>3, CalmStep
<1> QED BY <1>1, <1>2, <1>3, <1>4, <1>5 DEF Next

\* Both ends of every flow are always at the same message: what is queued,
\* assembled, in flight or acknowledged is of messages not settled, but for
\* those that their sender has forgotten.
THEOREM AgreementHolds == Spec => []DeliveryAgreement
<1>1. Init => TypeOK /\ SuspendedWhileUnreachable /\ DeliveryInvariant /\ DeliveryAgreement
    BY InitTypeOK, InitDelivery, InitAgreement DEF Init, SuspendedWhileUnreachable
<1>2. TypeOK /\ SuspendedWhileUnreachable /\ DeliveryInvariant /\ DeliveryAgreement /\ [Next]_vars
          => TypeOK' /\ SuspendedWhileUnreachable' /\ DeliveryInvariant' /\ DeliveryAgreement'
    BY NextTypeOK, NextKeepsRoutes, NextDelivery, NextAgreement
<1> QED BY <1>1, <1>2, PTL DEF Spec

\* on_message_lost is no false alarm, for any nodes, messages and losses: a
\* message reported lost has been forgotten by its sender.
THEOREM LostIsAbandoned == Spec => []LostWasAbandoned
<1>1. DeliveryAgreement => LostWasAbandoned
    BY DEF DeliveryAgreement
<1> QED BY <1>1, AgreementHolds, PTL

\* A part names no message; it is filed in the assembler of the message it
\* was cut from, or ignored.
THEOREM PartsAlwaysMatch == Spec => []PartsMatch
<1>1. TypeOK /\ DeliveryInvariant /\ DeliveryAgreement => PartsMatch
    <2> SUFFICES ASSUME TypeOK, DeliveryInvariant, DeliveryAgreement,
                        NEW n \in Nodes, NEW p \in Priorities,
                        Receivable(n, p), Incoming(n, p).type = "part"
                 PROVE  assembler[n][p].id \in {NoMessage, Incoming(n, p).of}
        BY DEF PartsMatch
    <2>1. PICK s, packet : s = Peer[n] /\ packet = Incoming(n, p)
        OBVIOUS
    <2>2. packet \in Range(chan[s][p]) /\ s \in Nodes /\ Peer[s] = n
        BY <2>1, IncomingInFlight DEF DeliveryInvariant
    <2>3. DataCurrent(s, p, packet)
        BY <2>1, <2>2 DEF DeliveryAgreement, FlowAgreement, IsData
    <2> QED BY <2>1, <2>2, <2>3 DEF DataCurrent, MessageOf, Holder
<1>2. Spec => [](TypeOK /\ DeliveryInvariant /\ DeliveryAgreement)
    BY TypeCorrect, DeliveryIsInvariant, AgreementHolds, PTL
<1> QED BY <1>1, <1>2, PTL

\* The serial number a receiver replies with is of a part of the message it
\* assembles.
LEMMA LowestAckedInRange ==
    ASSUME NEW a \in Assembler, a.got \subseteq 0 .. (a.last - a.first), LowestAckedSn(a) # 0
    PROVE  a.first <= LowestAckedSn(a) /\ LowestAckedSn(a) <= a.last
<1> DEFINE missing == (1 .. (a.last - a.first)) \ a.got
<1>1. 0 \in a.got
    BY DEF LowestAckedSn
<1>2. a.first \in Nat /\ a.last \in Nat /\ a.first <= a.last
    BY <1>1 DEF Assembler
<1>3. CASE missing = {}
    <2>1. LowestAckedSn(a) = a.first
        BY <1>1, <1>3 DEF LowestAckedSn
    <2> QED BY <1>2, <2>1
<1>4. CASE missing # {}
    <2>1. missing \subseteq Nat
        BY <1>2
    <2>2. Min(missing) \in missing
        BY <1>4, <2>1, MinOfNaturals
    <2>3. LowestAckedSn(a) = a.first + Min(missing) - 1
        BY <1>1, <1>4 DEF LowestAckedSn
    <2>4. Min(missing) \in 1 .. (a.last - a.first)
        BY <2>2
    <2> QED BY <1>2, <2>3, <2>4
<1> QED BY <1>3, <1>4

\* A reply names a part of the message being sent, or another message.
LEMMA RepliesMatch ==
    ASSUME TypeOK, DeliveryInvariant, NEW n \in Nodes, NEW p \in Priorities,
           NEW packet \in Range(chan[Peer[n]][p]), packet.type = "syn_rep"
    PROVE  ReplyMatches(n, packet.sns)
<1> SUFFICES ASSUME NEW q \in Busy(n),
                    packet.sns[q][1] = Front(n, q).id, packet.sns[q][2] # 0
             PROVE  InRange(Front(n, q), packet.sns[q][2])
    BY DEF ReplyMatches
<1>1. q \in Priorities /\ queue[n][q] # <<>>
    BY DEF Busy
<1>2. PICK t, a : t = Front(n, q) /\ a = Holder(n, q)
    OBVIOUS
<1>3. packet.sns[q] = <<a.id, LowestAckedSn(a)>>
    BY <1>1, <1>2 DEF DeliveryInvariant, SynExchange, RepliesKnown, ReplyFits
<1>4. a.id = t.id /\ LowestAckedSn(a) # 0 /\ packet.sns[q][2] = LowestAckedSn(a)
    BY <1>2, <1>3
<1>5. /\ t = queue[n][q][1] /\ 1 \in 1 .. Len(queue[n][q])
      /\ t \in Tracker /\ a \in Assembler
    BY <1>1, <1>2, FlowTypes
<1>6. FlowInvariant(n, q)
    BY <1>1 DEF DeliveryInvariant
<1>7. t.first = sent[t.id].first /\ t.count = sent[t.id].count
    BY <1>5, <1>6 DEF FlowInvariant, QueueInOrder
<1>8. a # NoAssembler
    BY <1>4 DEF NoAssembler, LowestAckedSn
<1>9. /\ a.first = sent[a.id].first
      /\ a.last = sent[a.id].first + sent[a.id].count - 1
      /\ a.got \subseteq 0 .. (a.last - a.first)
    BY <1>2, <1>6, <1>8 DEF FlowInvariant, HolderKnown
<1>10. a.first <= LowestAckedSn(a) /\ LowestAckedSn(a) <= a.last
    BY <1>4, <1>5, <1>9, LowestAckedInRange
<1> QED BY <1>2, <1>4, <1>7, <1>9, <1>10 DEF InRange, LastSn

\* No assertion of the code fails on a packet about to be processed: those on
\* the bounds of a repeated heading, on the range of a part and on the serial
\* number of a reply.
THEOREM AssertionsAlwaysHold == Spec => []AssertionsHold
<1>1. TypeOK /\ DeliveryInvariant /\ DeliveryAgreement => AssertionsHold
    <2> SUFFICES ASSUME TypeOK, DeliveryInvariant, DeliveryAgreement,
                        NEW n \in Nodes, NEW p \in Priorities, Receivable(n, p)
                 PROVE  LET packet == Incoming(n, p)
                            a == assembler[n][p]
                        IN  /\ packet.type = "message" => HeadingMatches(a, packet)
                            /\ packet.type = "part" => a = NoAssembler \/ AssemblerInRange(a, packet.sn)
                            /\ packet.type = "syn_rep" => ReplyMatches(n, packet.sns)
        BY DEF AssertionsHold
    <2>1. PICK s, packet, a : s = Peer[n] /\ packet = Incoming(n, p) /\ a = assembler[n][p]
        OBVIOUS
    <2>2. packet \in Range(chan[s][p]) /\ s \in Nodes /\ Peer[s] = n /\ Holder(s, p) = a
        BY <2>1, IncomingInFlight DEF DeliveryInvariant, Holder
    <2>3. FlowInvariant(s, p) /\ FlowAgreement(s, p)
        BY <2>2 DEF DeliveryInvariant, DeliveryAgreement
    <2>4. \/ a = NoAssembler
          \/ /\ a.id \in 1 .. Len(sent)
             /\ a.first = sent[a.id].first
             /\ a.last = sent[a.id].first + sent[a.id].count - 1
        BY <2>2, <2>3 DEF FlowInvariant, HolderKnown
    <2>5. ASSUME packet.type = "message" PROVE HeadingMatches(a, packet)
        <3>1. DataFits(s, p, packet) /\ MessageOf(packet) = packet.id
            BY <2>2, <2>3, <2>5 DEF FlowInvariant, DataKnown, IsData, MessageOf
        <3>2. packet.id # NoMessage
            BY <3>1 DEF DataFits, NoMessage
        <3> QED BY <2>4, <2>5, <3>1, <3>2 DEF HeadingMatches, DataFits, NoAssembler
    <2>6. ASSUME packet.type = "part", a # NoAssembler PROVE AssemblerInRange(a, packet.sn)
        <3>1. DataCurrent(s, p, packet) /\ packet \in Packet
            BY <2>2, <2>3, <2>6, FlowTypes DEF FlowAgreement, IsData
        <3>2. a.id = MessageOf(packet)
            BY <2>2, <2>4, <2>6, <3>1 DEF DataCurrent, NoMessage
        <3>3. packet.sn \in Nat /\ a.first \in Nat /\ a.last \in Int
            <4>1. sent[a.id] \in Message
                BY <2>2, <2>4, <2>6, FlowTypes
            <4> QED BY <2>4, <2>6, <3>1, <4>1, PacketFields DEF Message
        <3> QED BY <2>4, <2>6, <3>1, <3>2, <3>3 DEF DataCurrent, AssemblerInRange
    <2>7. packet.type = "syn_rep" => ReplyMatches(n, packet.sns)
        BY <2>1, <2>2, RepliesMatch
    <2> QED BY <2>1, <2>5, <2>6, <2>7
<1>2. Spec => [](TypeOK /\ DeliveryInvariant /\ DeliveryAgreement)
    BY TypeCorrect, DeliveryIsInvariant, AgreementHolds, PTL
<1> QED BY <1>1, <1>2, PTL

-----------------------------------------------------------------------------
(***************************************************************************)
(* The mapping.                                                            *)
(***************************************************************************)

Flow == [from : Nodes, priority : Priorities]

FlowOf(message) == [from |-> message.from, priority |-> message.priority]

\* What the abstract specification sees of the messages accepted.
Accepted(messages) == [i \in DOMAIN messages |-> FlowOf(messages[i])]

\* The abstract sequence has the flow of each message.
LEMMA AcceptedSeq ==
    ASSUME NEW messages \in Seq(Message)
    PROVE  /\ Accepted(messages) \in Seq(Flow)
           /\ Len(Accepted(messages)) = Len(messages)
           /\ DOMAIN Accepted(messages) = 1 .. Len(messages)
           /\ \A i \in 1 .. Len(messages) : Accepted(messages)[i] = FlowOf(messages[i])
<1>1. Len(messages) \in Nat /\ DOMAIN messages = 1 .. Len(messages)
    BY LenProperties
<1>2. \A i \in 1 .. Len(messages) : messages[i] \in Message
    BY ElementOfSeq
<1>3. \A m \in Message : FlowOf(m) \in Flow
    BY DEF Message, FlowOf, Flow
<1>4. Accepted(messages) \in [1 .. Len(messages) -> Flow]
    BY <1>1, <1>2, <1>3 DEF Accepted
<1>5. Accepted(messages) \in Seq(Flow)
    BY <1>1, <1>4, SeqDef
<1>6. DOMAIN Accepted(messages) = 1 .. Len(messages)
    BY <1>4
<1>7. Len(Accepted(messages)) = Len(messages)
    BY <1>1, <1>5, <1>6, LenProperties
<1> QED BY <1>1, <1>5, <1>6, <1>7 DEF Accepted

\* A message enqueued is one more accepted.
LEMMA AcceptedAppend ==
    ASSUME NEW messages \in Seq(Message), NEW m \in Message
    PROVE  Accepted(Append(messages, m)) = Append(Accepted(messages), FlowOf(m))
<1>1. PICK longer, old, new :
          /\ longer = Append(messages, m)
          /\ old = Accepted(messages)
          /\ new = Append(old, FlowOf(m))
    OBVIOUS
<1>2. /\ longer \in Seq(Message) /\ Len(longer) = Len(messages) + 1
      /\ \A i \in 1 .. Len(messages) : longer[i] = messages[i]
      /\ longer[Len(messages) + 1] = m
    BY <1>1
<1>3. /\ old \in Seq(Flow) /\ Len(old) = Len(messages)
      /\ \A i \in 1 .. Len(messages) : old[i] = FlowOf(messages[i])
    BY <1>1, AcceptedSeq
<1>4. FlowOf(m) \in Flow
    BY DEF Message, FlowOf, Flow
<1>5. /\ new \in Seq(Flow) /\ Len(new) = Len(old) + 1
      /\ \A i \in 1 .. Len(old) : new[i] = old[i]
      /\ new[Len(old) + 1] = FlowOf(m)
    BY <1>1, <1>3, <1>4
<1>6. /\ Accepted(longer) \in Seq(Flow) /\ Len(Accepted(longer)) = Len(longer)
      /\ \A i \in 1 .. Len(longer) : Accepted(longer)[i] = FlowOf(longer[i])
    BY <1>2, AcceptedSeq
<1>7. Len(messages) \in Nat
    BY LenProperties
<1>8. \A i \in 1 .. Len(longer) : Accepted(longer)[i] = new[i]
    <2> TAKE i \in 1 .. Len(longer)
    <2>1. i \in 1 .. Len(messages) \/ i = Len(messages) + 1
        BY <1>2, <1>7
    <2> QED BY <1>2, <1>3, <1>5, <1>6, <2>1
<1>9. Accepted(longer) = new
    BY <1>2, <1>3, <1>5, <1>6, <1>8, SeqEqual
<1> QED BY <1>1, <1>9

\* Nothing is accepted at the start.
LEMMA AcceptedNone == Accepted(<<>>) = <<>>
<1>1. <<>> \in Seq(Message) /\ <<>> \in Seq(Flow) /\ Len(<<>>) = 0
    BY EmptySeq
<1>2. Accepted(<<>>) \in Seq(Flow) /\ Len(Accepted(<<>>)) = 0
    BY <1>1, AcceptedSeq
<1> QED BY <1>1, <1>2, EmptySeq

\* What the abstract specification sees of a flow.
LEMMA SameFlowAccepted ==
    ASSUME TypeOK, NEW n, NEW p, NEW i \in 1 .. Len(sent), OfFlow(n, p, i),
           NEW j \in 1 .. Len(sent), Accepted(sent)[j] = Accepted(sent)[i]
    PROVE  OfFlow(n, p, j)
<1>1. sent \in Seq(Message)
    BY DEF TypeOK
<1>2. FlowOf(sent[j]) = FlowOf(sent[i])
    BY <1>1, AcceptedSeq
<1> QED BY <1>2 DEF OfFlow, FlowOf

-----------------------------------------------------------------------------
(***************************************************************************)
(* The order of a flow.                                                    *)
(***************************************************************************)

\* Every message of a flow before one that the queue has nothing before is
\* settled.
LEMMA EarlierSettled ==
    ASSUME TypeOK, NEW n \in Nodes, NEW p \in Priorities, QueueComplete(n, p),
           NEW i \in 1 .. Len(sent), OfFlow(n, p, i),
           \A k \in 1 .. Len(queue[n][p]) : i <= queue[n][p][k].id,
           NEW j \in 1 .. (i - 1), Accepted(sent)[j] = Accepted(sent)[i]
    PROVE  j \in Settled
<1>1. Len(sent) \in Nat
    BY FlowTypes
<1>2. j \in 1 .. Len(sent) /\ j < i
    BY <1>1
<1>3. OfFlow(n, p, j)
    BY <1>2, SameFlowAccepted
<1>4. j \in Settled \/ \E k \in 1 .. Len(queue[n][p]) : queue[n][p][k].id = j
    BY <1>2, <1>3 DEF QueueComplete
<1> QED BY <1>2, <1>4

\* The trackers of a queue are in the order of their messages.
LEMMA FrontIsFirst ==
    ASSUME TypeOK, NEW n \in Nodes, NEW p \in Priorities, QueueInOrder(n, p),
           queue[n][p] # <<>>
    PROVE  \A k \in 1 .. Len(queue[n][p]) :
               /\ queue[n][p][k].id \in Nat
               /\ Front(n, p).id <= queue[n][p][k].id
<1>1. /\ 1 \in 1 .. Len(queue[n][p]) /\ Front(n, p) = queue[n][p][1]
      /\ Len(queue[n][p]) \in Nat
      /\ \A k \in 1 .. Len(queue[n][p]) : queue[n][p][k] \in Tracker
    BY FlowTypes
<1>2. \A k \in 1 .. Len(queue[n][p]) : queue[n][p][k].id \in Nat
    BY <1>1 DEF Tracker
<1> TAKE k \in 1 .. Len(queue[n][p])
<1>3. CASE k = 1
    BY <1>1, <1>2, <1>3
<1>4. CASE k # 1
    <2>1. 1 \in 1 .. (k - 1)
        BY <1>1, <1>4
    <2>2. queue[n][p][1].id < queue[n][p][k].id
        BY <2>1 DEF QueueInOrder
    <2> QED BY <1>1, <1>2, <2>2
<1> QED BY <1>3, <1>4

\* Every message before one of which a part is in flight is settled; the
\* message itself is not abandoned.
LEMMA HandedOverInOrder ==
    ASSUME TypeOK, DeliveryInvariant, DeliveryAgreement,
           NEW n \in Nodes, NEW p \in Priorities, NEW packet \in Range(chan[n][p]),
           IsData(packet), NEW i, i = MessageOf(packet)
    PROVE  /\ i \in 1 .. Len(sent) /\ i \notin abandoned
           /\ \A j \in 1 .. (i - 1) : Accepted(sent)[j] = Accepted(sent)[i] => j \in Settled
<1>1. FlowInvariant(n, p) /\ FlowAgreement(n, p) /\ DeliveredWasReceived
    BY DEF DeliveryInvariant, DeliveryAgreement
<1>2. DataFits(n, p, packet) /\ DataCurrent(n, p, packet)
    BY <1>1 DEF FlowInvariant, DataKnown, FlowAgreement
<1>3. i \in 1 .. Len(sent) /\ OfFlow(n, p, i) /\ i \notin abandoned
    BY <1>2 DEF DataFits, DataCurrent
<1>4. QueueComplete(n, p) /\ QueueInOrder(n, p)
    BY <1>1 DEF FlowInvariant, FlowAgreement
<1>5. i \in Nat /\ Len(queue[n][p]) \in Nat /\ (queue[n][p] = <<>> <=> Len(queue[n][p]) = 0)
    BY <1>3, FlowTypes
<1>6. \A k \in 1 .. Len(queue[n][p]) : i <= queue[n][p][k].id
    <2> TAKE k \in 1 .. Len(queue[n][p])
    <2>1. queue[n][p] # <<>>
        BY <1>5
    <2>2. i <= Front(n, p).id
        BY <1>2, <1>5, <2>1, FlowTypes DEF DataFits, Tracker
    <2>3. /\ queue[n][p][k].id \in Nat /\ Front(n, p).id <= queue[n][p][k].id
          /\ Front(n, p).id \in Nat
        BY <1>4, <2>1, FrontIsFirst, FlowTypes DEF Tracker
    <2> QED BY <1>5, <2>2, <2>3
<1> QED BY <1>3, <1>4, <1>6, EarlierSettled

-----------------------------------------------------------------------------
(***************************************************************************)
(* The steps.                                                              *)
(***************************************************************************)

AbstractStep == Transfer!Next \/ UNCHANGED Transfer!vars

\* A step that adds nothing to the history is no step of the abstraction.
LEMMA HistoryKept ==
    ASSUME UNCHANGED <<sent, received, delivered, lost, abandoned>>
    PROVE  AbstractStep
BY DEF AbstractStep, Transfer!vars

\* The message of a packet read is handed over, perhaps again.
LEMMA ReceiveMaps ==
    ASSUME NEW i \in 1 .. Len(sent), DOMAIN sent = 1 .. Len(sent),
           i \notin abandoned,
           \A j \in 1 .. (i - 1) : Accepted(sent)[j] = Accepted(sent)[i] => j \in Settled,
           received' = received \cup {i},
           lost \subseteq lost', lost' \subseteq abandoned,
           UNCHANGED <<sent, delivered, abandoned>>
    PROVE  AbstractStep
<1>1. PICK new : new = lost'
    OBVIOUS
<1>2. new \in SUBSET abandoned /\ lost' = lost \cup new
    BY <1>1
<1>3. CASE i \in received
    <2>1. received' = received
        BY <1>3
    <2>2. Transfer!ReportLost(new)
        BY <1>2, <2>1 DEF Transfer!ReportLost
    <2> QED BY <1>2, <2>2 DEF AbstractStep, Transfer!Next
<1>4. CASE i \notin received
    <2>1. Transfer!Earlier(i) \subseteq Transfer!Settled
        BY DEF Transfer!Earlier, Transfer!Settled, Settled, Accepted, FlowOf
    <2>2. Transfer!Receive(i, new)
        BY <1>2, <1>4, <2>1 DEF Transfer!Receive
    <2>3. i \in DOMAIN [j \in DOMAIN sent |-> [from |-> sent[j].from, priority |-> sent[j].priority]]
        OBVIOUS
    <2> QED BY <1>2, <2>2, <2>3 DEF AbstractStep, Transfer!Next
<1> QED BY <1>3, <1>4

\* Messages reported lost and nothing else.
LEMMA LossMaps ==
    ASSUME lost \subseteq lost', lost' \subseteq abandoned,
           UNCHANGED <<sent, received, delivered, abandoned>>
    PROVE  AbstractStep
<1>1. PICK new : new = lost'
    OBVIOUS
<1>2. new \in SUBSET abandoned /\ lost' = lost \cup new
    BY <1>1
<1>3. Transfer!ReportLost(new)
    BY <1>2 DEF Transfer!ReportLost
<1> QED BY <1>2, <1>3 DEF AbstractStep, Transfer!Next

\* A message enqueued is accepted.
LEMMA EnqueueMaps ==
    ASSUME TypeOK, NEW n \in Nodes, NEW p \in Priorities, NEW count \in Nat,
           EnqueueMessage(n, p, count)
    PROVE  AbstractStep
<1>1. PICK m : m = [from |-> n, priority |-> p, first |-> lastSn[n][p] + 1, count |-> count]
    OBVIOUS
<1>2. lastSn[n][p] \in Nat /\ sent \in Seq(Message)
    BY DEF TypeOK
<1>3. m \in Message
    BY <1>1, <1>2 DEF Message
<1>4. sent' = Append(sent, m) /\ UNCHANGED <<received, delivered, lost, abandoned>>
    BY <1>1 DEF EnqueueMessage
<1>5. Accepted(sent)' = Append(Accepted(sent), FlowOf(m))
    BY <1>2, <1>3, <1>4, AcceptedAppend
<1>6. FlowOf(m) = [from |-> n, priority |-> p]
    BY <1>1 DEF FlowOf
<1>7. Transfer!Accept(n, p)
    <2>1. Accepted(sent)' = Append(Accepted(sent), [from |-> n, priority |-> p])
        BY ONLY <1>5, <1>6
    <2>2. PICK old : old = Accepted(sent)
        OBVIOUS
    <2>3. Accepted(sent)' = Append(old, [from |-> n, priority |-> p])
        BY ONLY <2>1, <2>2
    <2> QED BY ONLY <1>4, <2>2, <2>3 DEF Transfer!Accept, Accepted, FlowOf
<1> QED BY <1>7 DEF AbstractStep, Transfer!Next

\* A restart abandons the messages of the process.
LEMMA RestartMaps ==
    ASSUME TypeOK, NEW n \in Nodes, Restart(n)
    PROVE  AbstractStep
<1>1. /\ abandoned' = abandoned \cup {i \in DOMAIN sent : sent[i].from = n /\ i \notin delivered}
      /\ UNCHANGED <<sent, received, delivered, lost>>
    BY DEF Restart
<1>2. Transfer!Restart(n)
    BY <1>1 DEF Transfer!Restart
<1> QED BY <1>2 DEF AbstractStep, Transfer!Next

\* The acknowledgement of the last part confirms a message handed over, the
\* first of its flow that is not settled.
LEMMA AckMaps ==
    ASSUME TypeOK, DeliveryInvariant, DeliveryInvariant', DeliveryAgreement,
           NEW n \in Nodes, NEW p \in Priorities, ReceiveAck(n, p)
    PROVE  AbstractStep
<1>1. PICK t : t = Front(n, p)
    OBVIOUS
<1>2. /\ queue[n][p] # <<>>
      /\ UNCHANGED <<sent, received, lost, abandoned>>
      /\ delivered' = delivered \/ delivered' = delivered \cup {t.id}
    BY <1>1 DEF ReceiveAck, Acknowledges, Exchange
<1>3. CASE delivered' = delivered
    BY <1>2, <1>3, HistoryKept
<1>4. CASE delivered' = delivered \cup {t.id}
    <2>1. FlowInvariant(n, p) /\ FlowAgreement(n, p) /\ DeliveredWasReceived'
        BY DEF DeliveryInvariant, DeliveryAgreement
    <2>2. QueueComplete(n, p) /\ QueueInOrder(n, p)
        BY <2>1 DEF FlowInvariant, FlowAgreement
    <2>3. t = queue[n][p][1] /\ 1 \in 1 .. Len(queue[n][p])
        BY <1>1, <1>2, FlowTypes
    <2>4. t.id \in 1 .. Len(sent) /\ OfFlow(n, p, t.id) /\ t.id \notin Settled
        BY <2>2, <2>3 DEF QueueComplete, QueueInOrder
    <2>5. t.id \in received
        BY <1>2, <1>4, <2>1 DEF DeliveredWasReceived
    <2>6. \A k \in 1 .. Len(queue[n][p]) : t.id <= queue[n][p][k].id
        BY <1>1, <1>2, <2>2, FrontIsFirst
    <2>7. \A j \in 1 .. (t.id - 1) : Accepted(sent)[j] = Accepted(sent)[t.id] => j \in Settled
        BY <2>2, <2>4, <2>6, EarlierSettled
    <2>8. Transfer!Earlier(t.id) \subseteq Transfer!Settled
        BY <2>7 DEF Transfer!Earlier, Transfer!Settled, Settled, Accepted, FlowOf
    <2>9. Transfer!Confirm(t.id)
        BY <1>2, <1>4, <2>4, <2>5, <2>8 DEF Transfer!Confirm, Transfer!Settled, Settled
    <2>10. DOMAIN sent = 1 .. Len(sent)
        <3>1. sent \in Seq(Message)
            BY DEF TypeOK
        <3> QED BY <3>1, LenProperties
    <2>11. t.id \in DOMAIN [j \in DOMAIN sent |-> [from |-> sent[j].from, priority |-> sent[j].priority]]
        BY <2>4, <2>10
    <2> QED BY <2>9, <2>11 DEF AbstractStep, Transfer!Next
<1> QED BY <1>2, <1>3, <1>4

\* A part, heading or not, filed in the assembler that becomes a.
LEMMA FiledMaps ==
    ASSUME TypeOK, DeliveryInvariant, DeliveryAgreement, DeliveryAgreement',
           NEW n \in Nodes, NEW p \in Priorities, Receivable(n, p),
           NEW packet, packet = Incoming(n, p), IsData(packet),
           NEW a, a.id = MessageOf(packet), KeepOrHandOver(n, p, a),
           lost \subseteq lost', UNCHANGED <<sent, delivered, abandoned>>
    PROVE  AbstractStep
<1>1. PICK s : s = Peer[n]
    OBVIOUS
<1>2. packet \in Range(chan[s][p]) /\ s \in Nodes
    BY <1>1, IncomingInFlight DEF DeliveryInvariant
<1>3. /\ a.id \in 1 .. Len(sent) /\ a.id \notin abandoned
      /\ \A j \in 1 .. (a.id - 1) : Accepted(sent)[j] = Accepted(sent)[a.id] => j \in Settled
    BY <1>2, HandedOverInOrder
<1>4. lost' \subseteq abandoned
    BY DEF DeliveryAgreement, LostWasAbandoned
<1>5. DOMAIN sent = 1 .. Len(sent)
    <2>1. sent \in Seq(Message)
        BY DEF TypeOK
    <2> QED BY <2>1, LenProperties
<1>6. received' = received \cup {a.id} \/ received' = received
    BY DEF KeepOrHandOver
<1>7. CASE received' = received \cup {a.id}
    BY <1>3, <1>4, <1>5, <1>7, ReceiveMaps
<1>8. CASE received' = received
    BY <1>4, <1>8, LossMaps
<1> QED BY <1>6, <1>7, <1>8

\* A packet of any type read.
LEMMA ReceivedMaps ==
    ASSUME TypeOK, DeliveryInvariant, DeliveryInvariant',
           DeliveryAgreement, DeliveryAgreement',
           NEW n \in Nodes, NEW p \in Priorities, Receive(n, p)
    PROVE  AbstractStep
<1>1. CASE ReceiveSynRst(n, p)
    <2>1. lost \subseteq lost' /\ UNCHANGED <<sent, received, delivered, abandoned>>
        BY <1>1 DEF ReceiveSynRst, Exchange
    <2>2. lost' \subseteq abandoned
        BY <2>1 DEF DeliveryAgreement, LostWasAbandoned
    <2> QED BY <2>1, <2>2, LossMaps
<1>2. CASE ReceiveSynReq(n, p) \/ ReceiveSynRep(n, p) \/ IgnoreAck(n, p) \/ IgnorePart(n, p)
    <2>1. UNCHANGED <<sent, received, delivered, lost, abandoned>>
        <3>1. CASE ReceiveSynReq(n, p)
            BY ONLY <3>1 DEF ReceiveSynReq, Exchange
        <3>2. CASE ReceiveSynRep(n, p)
            BY ONLY <3>2 DEF ReceiveSynRep, Exchange
        <3>3. CASE IgnoreAck(n, p)
            BY ONLY <3>3 DEF IgnoreAck, Exchange
        <3>4. CASE IgnorePart(n, p)
            BY ONLY <3>4 DEF IgnorePart, Exchange
        <3> QED BY ONLY <1>2, <3>1, <3>2, <3>3, <3>4
    <2> QED BY <2>1, HistoryKept
<1>3. CASE ReceiveAck(n, p)
    BY <1>3, AckMaps
<1>4. CASE ReceiveHeading(n, p)
    <2>1. PICK packet, a : packet = Incoming(n, p) /\ a = Started(assembler[n][p], packet)
        OBVIOUS
    <2>2. /\ Receivable(n, p) /\ packet.type = "message" /\ KeepOrHandOver(n, p, a)
          /\ lost \subseteq lost' /\ UNCHANGED <<sent, delivered, abandoned>>
        BY <1>4, <2>1 DEF ReceiveHeading, Exchange
    <2>3. a.id = MessageOf(packet) /\ IsData(packet)
        BY <2>1, <2>2 DEF Started, NewAssembler, AssemblerAcknowledge, MessageOf, IsData
    <2> QED BY <2>1, <2>2, <2>3, FiledMaps
<1>5. CASE ReceivePart(n, p)
    <2>1. PICK s, packet, old, a :
              /\ s = Peer[n] /\ packet = Incoming(n, p)
              /\ old = assembler[n][p] /\ a = AssemblerAcknowledge(old, packet.sn)
        OBVIOUS
    <2>2. /\ Receivable(n, p) /\ packet.type = "part" /\ KeepOrHandOver(n, p, a)
          /\ old # NoAssembler
          /\ lost \subseteq lost' /\ UNCHANGED <<sent, delivered, abandoned>>
        BY <1>5, <2>1 DEF ReceivePart, Exchange
    <2>3. packet \in Range(chan[s][p]) /\ s \in Nodes /\ Holder(s, p) = old /\ IsData(packet)
        BY <2>1, <2>2, IncomingInFlight DEF DeliveryInvariant, Holder, IsData
    <2>4. DataCurrent(s, p, packet) /\ HolderKnown(s, p)
        BY <2>3 DEF DeliveryInvariant, FlowInvariant, DeliveryAgreement, FlowAgreement
    <2>5. old.id = MessageOf(packet)
        BY <2>2, <2>3, <2>4 DEF DataCurrent, HolderKnown, NoMessage
    <2>6. a.id = old.id
        <3>1. old \in Assembler
            BY <2>3, FlowTypes
        <3> QED BY <2>1, <3>1 DEF AssemblerAcknowledge, Assembler
    <2> QED BY <2>1, <2>2, <2>3, <2>5, <2>6, FiledMaps
<1> QED BY <1>1, <1>2, <1>3, <1>4, <1>5 DEF Receive

\* Every step of the controllers is a step of the abstraction, or none.
LEMMA NextMaps ==
    TypeOK /\ DeliveryInvariant /\ DeliveryInvariant' /\ DeliveryAgreement /\ DeliveryAgreement'
        /\ [Next]_vars => AbstractStep
<1> SUFFICES ASSUME TypeOK, DeliveryInvariant, DeliveryInvariant',
                    DeliveryAgreement, DeliveryAgreement', [Next]_vars
             PROVE  AbstractStep
    OBVIOUS
<1>1. ASSUME NEW n \in Senders, NEW p \in Priorities, NEW count \in PartCounts,
             EnqueueMessage(n, p, count)
      PROVE  AbstractStep
    <2>1. n \in Nodes /\ count \in Nat
        BY DeliveryAssumption
    <2> QED BY <1>1, <2>1, EnqueueMaps
<1>2. ASSUME NEW n \in Nodes, Restart(n) PROVE AbstractStep
    BY <1>2, RestartMaps
<1>3. ASSUME NEW n \in Nodes, NEW p \in Priorities, Receive(n, p) PROVE AbstractStep
    BY <1>3, ReceivedMaps
<1>4. ASSUME NEW n \in Nodes,
             \/ InitiateSyn(n) \/ SendPart(n) \/ ScanInVain(n) \/ ExpireSyn(n)
             \/ Unreachable(n) \/ RouteReady(n)
      PROVE  AbstractStep
    <2>1. UNCHANGED histVars
        BY <1>4 DEF InitiateSyn, SendPart, ScanInVain, ExpireSyn, Unreachable, RouteReady
    <2> QED BY <2>1, HistoryKept DEF histVars
<1>5. ASSUME NEW n \in Nodes, NEW p \in Priorities, ExpireTracker(n, p) \/ Reroute(n, p)
      PROVE  AbstractStep
    BY <1>5, HistoryKept DEF ExpireTracker, Reroute, histVars
<1>6. CASE Break \/ Reconnect \/ UNCHANGED vars
    BY <1>6, HistoryKept DEF Break, Reconnect, vars, histVars
<1> QED BY <1>1, <1>2, <1>3, <1>4, <1>5, <1>6 DEF Next

-----------------------------------------------------------------------------
\* The controllers implement reliable transfer, for any nodes, priorities,
\* messages, losses, reconnections and restarts: the messages of a flow are
\* handed over and confirmed in order, a confirmed one was handed over, and
\* only what a restart has abandoned is reported lost.
THEOREM ImplementsReliableTransfer == Spec => ImplementsTransfer
<1>1. Init => Transfer!Init
    BY AcceptedNone DEF Init, Transfer!Init, Accepted, FlowOf
<1>2. TypeOK /\ DeliveryInvariant /\ DeliveryAgreement
          /\ TypeOK' /\ DeliveryInvariant' /\ DeliveryAgreement' /\ [Next]_vars
          => [Transfer!Next]_(Transfer!vars)
    BY NextMaps DEF AbstractStep
<1>3. Spec => [](TypeOK /\ DeliveryInvariant /\ DeliveryAgreement)
    BY TypeCorrect, DeliveryIsInvariant, AgreementHolds, PTL
<1> QED BY <1>1, <1>2, <1>3, PTL DEF Spec, ImplementsTransfer, Transfer!Spec
=============================================================================
