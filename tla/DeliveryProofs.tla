---------------------------- MODULE DeliveryProofs ----------------------------
(***************************************************************************)
(* Theorems about Delivery, for every value of its constants.  The lemmas  *)
(* on the operators of the trackers and assemblers come first, then the    *)
(* typing of what the actions write, then the invariants.                  *)
(***************************************************************************)
EXTENDS Delivery, SequenceTheorems, WellFoundedInduction, TLAPS

-----------------------------------------------------------------------------
(***************************************************************************)
(* Operators.                                                              *)
(***************************************************************************)

\* The order on the naturals as a relation.
LessThan == {ss \in Nat \X Nat : ss[1] < ss[2]}

\* A non-empty set of naturals has a least element, and Min chooses it.
LEMMA MinOfNaturals ==
    ASSUME NEW S, S \subseteq Nat, S # {}
    PROVE  Min(S) \in S /\ \A x \in S : Min(S) <= x
<1>1. IsWellFoundedOn(LessThan, Nat)
    BY NatLessThanWellFounded DEF OpToRel, LessThan
<1>2. PICK m \in S : \A x \in S : ~(<<x, m>> \in LessThan)
    BY <1>1, WFMin
<1>3. ASSUME NEW x \in S PROVE m <= x
    <2>1. m \in Nat /\ x \in Nat
        OBVIOUS
    <2>2. ~(<<x, m>> \in LessThan)
        BY <1>2
    <2>3. ~(x < m)
        BY <2>1, <2>2 DEF LessThan
    <2> QED BY <2>1, <2>3
<1> QED BY <1>3 DEF Min

\* The priority at which the scan of step() stops is one that has a part to
\* send.
LEMMA FirstReadyIsReady ==
    ASSUME NEW t \in PriorityTracker, NEW ready, ready \subseteq Priorities, ready # {}
    PROVE  FirstReady(t, ready) \in ready
<1> DEFINE distances == {Skips(t, p) : p \in ready}
<1>1. distances \subseteq Nat
    BY DistributionAssumption DEF Skips, Priorities, PriorityTracker
<1>2. distances # {}
    OBVIOUS
<1>3. \A d \in distances : Min(distances) <= d
    BY <1>1, <1>2, MinOfNaturals
<1>4. PICK p \in ready : Skips(t, p) = Min(distances)
    BY <1>1, <1>2, MinOfNaturals
<1>5. \A q \in ready : Skips(t, p) <= Skips(t, q)
    BY <1>3, <1>4
<1> QED BY <1>5 DEF FirstReady

\* next() and skip() keep the current priority in the distribution.
LEMMA TurnTypes ==
    ASSUME NEW t \in PriorityTracker, NEW p \in Priorities
    PROVE  /\ NextTurn(t) \in PriorityTracker
           /\ SkipTo(t, p) \in PriorityTracker
           /\ SkipAll(t) \in PriorityTracker
<1>1. Following(t.priority) \in Priorities
    BY DistributionAssumption DEF Following, Priorities, PriorityTracker
<1> QED BY <1>1 DEF NextTurn, SkipTo, SkipAll, PriorityTracker

\* acquire_next_part returns an index of the message.
LEMMA NextPartIsSendable ==
    ASSUME NEW t \in Tracker, Sendable(t) # {}
    PROVE  NextPart(t) \in Sendable(t) /\ NextPart(t) \in Nat /\ NextPart(t) < t.count
<1>1. Sendable(t) \subseteq Indices(t) /\ Indices(t) \subseteq Nat
    BY DEF Sendable, Indices, Tracker
<1>2. Min(Sendable(t)) \in Sendable(t)
    BY <1>1, MinOfNaturals
<1> QED BY <1>1, <1>2 DEF NextPart, Indices, Tracker

\* Each operation on a tracker gives a tracker.
LEMMA TrackerTypes ==
    ASSUME NEW t \in Tracker
    PROVE  /\ ResetTracker(t) \in Tracker
           /\ \A i \in Nat : AcquirePart(t, i) \in Tracker
           /\ \A sn \in Nat : InRange(t, sn) => TrackerAcknowledge(t, sn) \in Tracker
           /\ \A id, sn \in Nat : (id = t.id /\ sn # 0 => InRange(t, sn)) => ResetTo(t, id, sn) \in Tracker
<1>1. ResetTracker(t) \in Tracker
    BY DEF ResetTracker, NewTracker, Tracker
<1>2. ASSUME NEW i \in Nat PROVE AcquirePart(t, i) \in Tracker
    <2>1. (t.headingExp /\ i # 0) \in BOOLEAN /\ (t.exp /\ i # 0) \in BOOLEAN
        OBVIOUS
    <2>2. i + 1 \in Nat /\ t.acquired \cup {i} \in SUBSET Nat
        BY DEF Tracker
    <2>3. ASSUME NEW c \in Nat, NEW s \in SUBSET Nat, NEW h \in BOOLEAN, NEW e \in BOOLEAN
          PROVE  [t EXCEPT !.current = c, !.acquired = s, !.headingExp = h, !.exp = e] \in Tracker
        BY DEF Tracker
    <2> QED BY <2>1, <2>2, <2>3, Zenon DEF AcquirePart
<1>3. ASSUME NEW sn \in Nat, InRange(t, sn) PROVE TrackerAcknowledge(t, sn) \in Tracker
    <2>1. sn - t.first \in Nat
        BY <1>3 DEF InRange, Tracker
    <2> QED BY <2>1 DEF TrackerAcknowledge, Tracker
<1>4. ASSUME NEW id \in Nat, NEW sn \in Nat, id = t.id /\ sn # 0 => InRange(t, sn)
      PROVE  ResetTo(t, id, sn) \in Tracker
    <2>1. CASE sn = 0 \/ id # t.id
        BY <1>1, <2>1 DEF ResetTo
    <2>2. CASE ~(sn = 0 \/ id # t.id)
        <3>1. sn - t.first \in Nat
            BY <1>4, <2>2 DEF InRange, Tracker
        <3>2. 0 .. (sn - t.first) \in SUBSET Nat /\ sn - t.first + 1 \in Nat
            BY <3>1
        <3> QED BY <2>2, <3>2 DEF ResetTo, Tracker
    <2> QED BY <2>1, <2>2
<1> QED BY <1>1, <1>2, <1>3, <1>4

\* lowest_acked_sn is 0 or a serial number.
LEMMA AssemblerTypes ==
    ASSUME NEW a \in Assembler
    PROVE  /\ LowestAckedSn(a) \in Nat
           /\ \A sn \in Nat : a.first <= sn => AssemblerAcknowledge(a, sn) \in Assembler
<1> DEFINE missing == (1 .. (a.last - a.first)) \ a.got
<1>1. missing \subseteq Nat \ {0}
    BY DEF Assembler
<1>2. missing # {} => Min(missing) \in missing
    BY <1>1, MinOfNaturals
<1>3. missing # {} => a.first + Min(missing) - 1 \in Nat
    BY <1>1, <1>2 DEF Assembler
<1>4. LowestAckedSn(a) \in Nat
    BY <1>3 DEF LowestAckedSn, Assembler
<1>5. ASSUME NEW sn \in Nat, a.first <= sn PROVE AssemblerAcknowledge(a, sn) \in Assembler
    <2>1. sn - a.first \in Nat
        BY <1>5 DEF Assembler
    <2> QED BY <2>1 DEF AssemblerAcknowledge, Assembler
<1> QED BY <1>4, <1>5

-----------------------------------------------------------------------------
(***************************************************************************)
(* What the actions read and write.                                        *)
(***************************************************************************)

\* An update of one queue, at one node and priority.
LEMMA UpdateType ==
    ASSUME NEW V, NEW f \in [Nodes -> [Priorities -> V]],
           NEW n \in Nodes, NEW p \in Priorities, NEW v \in V
    PROVE  [f EXCEPT ![n][p] = v] \in [Nodes -> [Priorities -> V]]
OBVIOUS

\* What the fields of a packet hold, by its type.
LEMMA PacketFields ==
    ASSUME NEW packet \in Packet
    PROVE  /\ packet.type = "syn_rep" => packet.sns \in [Priorities -> Nat \X Nat]
           /\ packet.type = "ack" => packet.sn \in Nat
           /\ packet.type = "message" => packet.id \in Nat /\ packet.sn \in Nat /\ packet.last \in Nat
           /\ packet.type = "part" => packet.sn \in Nat /\ packet.of \in Nat
BY DEF Packet

\* The tracker at the front of a queue, and its update.
LEMMA FrontTypes ==
    ASSUME TypeOK, NEW n \in Nodes, NEW p \in Priorities, queue[n][p] # <<>>
    PROVE  /\ Front(n, p) \in Tracker
           /\ \A t \in Tracker :
                  SetFront(n, p, t) \in [Nodes -> [Priorities -> Seq(Tracker)]]
           /\ [queue EXCEPT ![n][p] = Tail(@)] \in [Nodes -> [Priorities -> Seq(Tracker)]]
<1>1. queue[n][p] \in Seq(Tracker) /\ queue \in [Nodes -> [Priorities -> Seq(Tracker)]]
    BY DEF TypeOK
<1>2. Front(n, p) \in Tracker /\ Tail(queue[n][p]) \in Seq(Tracker)
    BY <1>1, HeadTailProperties DEF Front
<1>3. ASSUME NEW t \in Tracker
      PROVE  SetFront(n, p, t) \in [Nodes -> [Priorities -> Seq(Tracker)]]
    <2>1. 1 \in 1 .. Len(queue[n][p])
        BY <1>1, EmptySeq
    <2>2. [queue[n][p] EXCEPT ![1] = t] \in Seq(Tracker)
        BY <1>1, <2>1, ExceptSeq
    <2>3. SetFront(n, p, t) = [queue EXCEPT ![n][p] = [queue[n][p] EXCEPT ![1] = t]]
        BY <1>1 DEF SetFront
    <2> QED BY <1>1, <2>2, <2>3, UpdateType
<1>4. [queue EXCEPT ![n][p] = Tail(queue[n][p])] \in [Nodes -> [Priorities -> Seq(Tracker)]]
    BY <1>1, <1>2, UpdateType
<1> QED BY <1>2, <1>3, <1>4

\* A packet sent leaves the link typed.
LEMMA SendType ==
    ASSUME TypeOK, NEW n \in Nodes, NEW p \in Priorities, NEW packet \in Packet, Send(n, p, packet)
    PROVE  chan' \in [Nodes -> [Priorities -> Seq(Packet)]]
<1>1. chan \in [Nodes -> [Priorities -> Seq(Packet)]] /\ chan[n][p] \in Seq(Packet)
    BY DEF TypeOK
<1>2. Append(chan[n][p], packet) \in Seq(Packet)
    BY <1>1, AppendProperties
<1>3. [chan EXCEPT ![n][p] = Append(chan[n][p], packet)] \in [Nodes -> [Priorities -> Seq(Packet)]]
    BY <1>1, <1>2, UpdateType
<1> QED BY <1>1, <1>3 DEF Send

\* So does a packet read, with the replies to it.
LEMMA ExchangeType ==
    ASSUME TypeOK, NEW n \in Nodes, NEW p \in Priorities, NEW q \in Priorities, NEW type,
           NEW replies \in Seq(Packet), Exchange(n, p, type, q, replies)
    PROVE  /\ chan' \in [Nodes -> [Priorities -> Seq(Packet)]]
           /\ created' \in [Nodes -> BOOLEAN]
           /\ Incoming(n, p) \in Packet
           /\ Incoming(n, p).type = type
           /\ UNCHANGED <<link, reachable, sent, abandoned, boundVars>>
<1> DEFINE read == [chan EXCEPT ![Peer[n]][p] = Tail(chan[Peer[n]][p])]
<1>1. Peer[n] \in Nodes
    BY DeliveryAssumption
<1>2. chan \in [Nodes -> [Priorities -> Seq(Packet)]] /\ chan[Peer[n]][p] \in Seq(Packet)
    BY <1>1 DEF TypeOK
<1>3. chan[Peer[n]][p] # <<>>
    BY DEF Exchange, Receivable
<1>4. Incoming(n, p) \in Packet /\ Tail(chan[Peer[n]][p]) \in Seq(Packet)
    BY <1>2, <1>3, HeadTailProperties DEF Incoming
<1>5. read \in [Nodes -> [Priorities -> Seq(Packet)]]
    BY <1>1, <1>2, <1>4, UpdateType
<1>6. chan[n][q] \o replies \in Seq(Packet)
    BY <1>2, ConcatProperties
<1>7. [read EXCEPT ![n][q] = chan[n][q] \o replies] \in [Nodes -> [Priorities -> Seq(Packet)]]
    <2> HIDE DEF read
    <2> QED BY <1>5, <1>6, UpdateType
<1>8. chan' = [read EXCEPT ![n][q] = chan[n][q] \o replies]
    BY Zenon DEF Exchange
<1>9. created' \in [Nodes -> BOOLEAN]
    BY DEF Exchange, TypeOK
<1> QED BY ZenonT(60), <1>4, <1>7, <1>8, <1>9 DEF Exchange

-----------------------------------------------------------------------------
(***************************************************************************)
(* Type correctness.                                                       *)
(***************************************************************************)

\* A node starts with empty queues and counters in their types.
LEMMA InitTypeOK == Init => TypeOK
<1> SUFFICES ASSUME Init PROVE TypeOK
    OBVIOUS
<1>1. InitialTurn \in PriorityTracker
    BY DistributionAssumption DEF InitialTurn, PriorityTracker, Priorities
<1>2. NoAssembler \in Assembler
    BY DEF NoAssembler, NoMessage, Assembler
<1>3. \A S : <<>> \in Seq(S)
    OBVIOUS
<1> QED BY <1>1, <1>2, <1>3 DEF Init, TypeOK, SynStates

\* The application's call.
LEMMA EnqueueTypeOK ==
    ASSUME TypeOK, NEW n \in Senders, NEW p \in Priorities, NEW count \in PartCounts,
           EnqueueMessage(n, p, count)
    PROVE  TypeOK'
<1> DEFINE first == lastSn[n][p] + 1
           t == NewTracker(Len(sent) + 1, count, first)
           message == [from |-> n, priority |-> p, first |-> first, count |-> count]
<1>1. n \in Nodes /\ count \in Nat
    BY DeliveryAssumption
<1>2. lastSn[n][p] \in Nat /\ first \in Nat \ {0}
    BY <1>1 DEF TypeOK
<1>3. Len(sent) + 1 \in Nat
    BY LenProperties DEF TypeOK
<1>4. t \in Tracker
    BY <1>1, <1>2, <1>3 DEF NewTracker, Tracker
<1>5. LastSn(t) \in Nat
    BY <1>1, <1>2 DEF LastSn, NewTracker
<1>6. message \in Message
    BY <1>1, <1>2 DEF Message
<1>7. queue' \in [Nodes -> [Priorities -> Seq(Tracker)]]
    <2>1. queue[n][p] \in Seq(Tracker)
        BY <1>1 DEF TypeOK
    <2>2. Enqueued(n, p, t) \in Seq(Tracker)
        BY <1>4, <2>1, AppendProperties DEF Enqueued
    <2>3. queue' = [queue EXCEPT ![n][p] = Enqueued(n, p, t)]
        BY DEF EnqueueMessage
    <2> QED BY <1>1, <2>2, <2>3, UpdateType DEF TypeOK
<1>8. lastSn' \in [Nodes -> [Priorities -> Nat]]
    <2>1. lastSn' = [lastSn EXCEPT ![n][p] = LastSn(t)]
        BY DEF EnqueueMessage
    <2> QED BY <1>1, <1>5, <2>1, UpdateType DEF TypeOK
<1>9. sent' \in Seq(Message)
    <2>1. sent' = Append(sent, message)
        BY DEF EnqueueMessage
    <2> QED BY <1>6, <2>1, AppendProperties DEF TypeOK
<1> QED BY <1>7, <1>8, <1>9 DEF EnqueueMessage, TypeOK, netVars, boundVars

\* The manager's loop.
LEMMA StepTypeOK ==
    ASSUME TypeOK, NEW n \in Nodes,
           InitiateSyn(n) \/ SendPart(n) \/ ScanInVain(n) \/ ExpireSyn(n)
    PROVE  TypeOK'
<1>1. 0 \in Priorities
    BY DistributionAssumption DEF Priorities
<1>2. CASE InitiateSyn(n)
    <2>1. SynRequest(n) \in Packet
        BY DEF SynRequest, Packet
    <2>2. chan' \in [Nodes -> [Priorities -> Seq(Packet)]]
        BY <1>1, <1>2, <2>1, SendType DEF InitiateSyn
    <2> QED BY <1>2, <2>2 DEF InitiateSyn, TypeOK, SynStates, outVars, histVars, boundVars
<1>3. CASE SendPart(n)
    <2> DEFINE p == FirstReady(turn[n], Ready(n))
               t == Front(n, p)
               i == NextPart(t)
    <2>1. p \in Ready(n) /\ p \in Priorities /\ queue[n][p] # <<>>
        <3>1. turn[n] \in PriorityTracker
            BY DEF TypeOK
        <3>2. Ready(n) \subseteq Priorities /\ Ready(n) # {}
            BY <1>3 DEF SendPart, Ready, Busy
        <3>3. p \in Ready(n)
            BY <3>1, <3>2, FirstReadyIsReady
        <3> QED BY <3>2, <3>3 DEF Ready, Busy
    <2>2. t \in Tracker /\ Sendable(t) # {}
        BY <2>1, FrontTypes DEF Ready
    <2>3. i \in Nat /\ i < t.count
        BY <2>2, NextPartIsSendable
    <2>4. PartPacket(t, i) \in Packet
        <3>1. LastSn(t) \in Nat /\ t.first + i \in Nat /\ t.id \in Nat /\ t.first \in Nat
            BY <2>2, <2>3 DEF LastSn, Tracker
        <3> HIDE DEF t, i
        <3> QED BY <3>1 DEF PartPacket, Packet
    <2>5. chan' \in [Nodes -> [Priorities -> Seq(Packet)]]
        BY <1>3, <2>1, <2>4, SendType DEF SendPart
    <2>6. queue' \in [Nodes -> [Priorities -> Seq(Tracker)]]
        <3>1. AcquirePart(t, i) \in Tracker
            BY <2>2, <2>3, TrackerTypes
        <3>2. queue' = SetFront(n, p, AcquirePart(t, i))
            BY <1>3 DEF SendPart
        <3> QED BY <2>1, <3>1, <3>2, FrontTypes
    <2>7. turn' \in [Nodes -> PriorityTracker]
        <3>1. turn[n] \in PriorityTracker
            BY DEF TypeOK
        <3>2. NextTurn(SkipTo(turn[n], p)) \in PriorityTracker
            BY <2>1, <3>1, TurnTypes
        <3>3. turn' = [turn EXCEPT ![n] = NextTurn(SkipTo(turn[n], p))]
            BY <1>3 DEF SendPart
        <3> QED BY <3>2, <3>3 DEF TypeOK
    <2> QED BY <1>3, <2>5, <2>6, <2>7 DEF SendPart, TypeOK, synVars, histVars, boundVars
<1>4. CASE ScanInVain(n)
    <2>1. SkipAll(turn[n]) \in PriorityTracker
        BY <1>1, TurnTypes DEF TypeOK
    <2> QED BY <1>4, <2>1 DEF ScanInVain, TypeOK, synVars, netVars, histVars, boundVars
<1>5. CASE ExpireSyn(n)
    BY <1>5 DEF ExpireSyn, TypeOK, outVars, netVars, histVars, boundVars
<1> QED BY <1>2, <1>3, <1>4, <1>5

\* The reply to a SYN request, and the acknowledgement of a part.
LEMMA ReplyTypes ==
    /\ \A as \in [Priorities -> Assembler] : <<SynReply(as)>> \in Seq(Packet)
    /\ \A n \in Nodes, sn \in Nat : Ack(n, sn) \in Seq(Packet)
<1>1. ASSUME NEW as \in [Priorities -> Assembler] PROVE <<SynReply(as)>> \in Seq(Packet)
    <2>1. \A p \in Priorities : <<as[p].id, LowestAckedSn(as[p])>> \in Nat \X Nat
        <3> TAKE p \in Priorities
        <3>1. as[p] \in Assembler
            OBVIOUS
        <3> QED BY <3>1, AssemblerTypes DEF Assembler
    <2>2. [p \in Priorities |-> <<as[p].id, LowestAckedSn(as[p])>>] \in [Priorities -> Nat \X Nat]
        BY <2>1
    <2>3. SynReply(as) \in Packet
        BY <2>2 DEF SynReply, Packet
    <2>4. \A packet \in Packet : <<packet>> \in Seq(Packet)
        OBVIOUS
    <2> QED BY <2>3, <2>4, Zenon
<1>2. ASSUME NEW n \in Nodes, NEW sn \in Nat PROVE Ack(n, sn) \in Seq(Packet)
    <2>1. [type |-> "ack", sn |-> sn] \in Packet
        BY DEF Packet
    <2> QED BY <2>1 DEF Ack
<1> QED BY <1>1, <1>2

\* Filing a part in an assembler.
LEMMA KeepTypes ==
    ASSUME TypeOK, NEW n \in Nodes, NEW p \in Priorities, NEW a \in Assembler,
           KeepOrHandOver(n, p, a)
    PROVE  assembler' \in [Nodes -> [Priorities -> Assembler]] /\ received' \subseteq Nat
<1>1. NoAssembler \in Assembler /\ a.id \in Nat
    BY DEF NoAssembler, NoMessage, Assembler
<1>2. (IF IsAssembled(a) THEN NoAssembler ELSE a) \in Assembler
    BY <1>1
<1>3. assembler' \in [Nodes -> [Priorities -> Assembler]]
    BY <1>2, UpdateType DEF KeepOrHandOver, TypeOK
<1> QED BY <1>1, <1>3 DEF KeepOrHandOver, TypeOK

\* The packets of the SYN exchange.
LEMMA ReceiveSynTypeOK ==
    ASSUME TypeOK, NEW n \in Nodes, NEW p \in Priorities,
           ReceiveSynRst(n, p) \/ ReceiveSynReq(n, p) \/ ReceiveSynRep(n, p)
    PROVE  TypeOK'
<1> DEFINE reset == [q \in Priorities |-> NoAssembler]
<1>1. 0 \in Priorities
    BY DistributionAssumption DEF Priorities
<1>2. reset \in [Priorities -> Assembler]
    BY DEF NoAssembler, NoMessage, Assembler
<1>3. assembler[n] \in [Priorities -> Assembler]
    BY DEF TypeOK
<1>4. CASE ReceiveSynRst(n, p)
    <2> DEFINE replies == <<SynReply(reset)>>
    <2>1. replies \in Seq(Packet)
        BY <1>2, ReplyTypes
    <2>2. Exchange(n, p, "syn_rst", 0, replies)
        BY <1>4 DEF ReceiveSynRst
    <2>3. /\ chan' \in [Nodes -> [Priorities -> Seq(Packet)]]
          /\ created' \in [Nodes -> BOOLEAN]
          /\ UNCHANGED <<link, reachable, sent, abandoned, boundVars>>
        <3> HIDE DEF replies
        <3> QED BY <1>1, <2>1, <2>2, ExchangeType
    <2>4. {a.id : a \in Assemblers(n)} \subseteq Nat
        BY <1>3 DEF Assemblers, Assembler
    <2>5. lost' \subseteq Nat
        BY <1>4, <2>4 DEF ReceiveSynRst, TypeOK
    <2>6. assembler' \in [Nodes -> [Priorities -> Assembler]]
        BY <1>2, <1>4 DEF ReceiveSynRst, TypeOK
    <2> QED BY <1>4, <2>3, <2>5, <2>6 DEF ReceiveSynRst, TypeOK, outVars, boundVars
<1>5. CASE ReceiveSynReq(n, p)
    <2> DEFINE replies == <<SynReply(assembler[n])>>
    <2>1. replies \in Seq(Packet)
        BY <1>3, ReplyTypes
    <2>2. Exchange(n, p, "syn_req", 0, replies)
        BY <1>5 DEF ReceiveSynReq
    <2>3. /\ chan' \in [Nodes -> [Priorities -> Seq(Packet)]]
          /\ created' \in [Nodes -> BOOLEAN]
          /\ UNCHANGED <<link, reachable, sent, abandoned, boundVars>>
        <3> HIDE DEF replies
        <3> QED BY <1>1, <2>1, <2>2, ExchangeType
    <2> QED BY <1>5, <2>3 DEF ReceiveSynReq, TypeOK, outVars, boundVars
<1>6. CASE ReceiveSynRep(n, p)
    <2> DEFINE sns == Incoming(n, p).sns
    <2>1. Exchange(n, p, "syn_rep", 0, <<>>) /\ ReplyMatches(n, sns)
        BY <1>6 DEF ReceiveSynRep
    <2>2. /\ chan' \in [Nodes -> [Priorities -> Seq(Packet)]]
          /\ created' \in [Nodes -> BOOLEAN]
          /\ sns \in [Priorities -> Nat \X Nat]
          /\ UNCHANGED <<link, reachable, sent, abandoned, boundVars>>
        <3>1. <<>> \in Seq(Packet)
            OBVIOUS
        <3> QED BY <1>1, <2>1, <3>1, ExchangeType, PacketFields
    <2>3. ASSUME NEW q \in Priorities, q \in Busy(n)
          PROVE  [queue[n][q] EXCEPT ![1] = ResetTo(Front(n, q), sns[q][1], sns[q][2])] \in Seq(Tracker)
        <3>1. queue[n][q] # <<>> /\ queue[n][q] \in Seq(Tracker)
            BY <2>3 DEF Busy, TypeOK
        <3>2. 1 \in 1 .. Len(queue[n][q])
            BY <3>1, EmptySeq
        <3>3. Front(n, q) \in Tracker
            BY <3>1, FrontTypes
        <3>4. sns[q][1] \in Nat /\ sns[q][2] \in Nat
            BY <2>2
        <3>5. ResetTo(Front(n, q), sns[q][1], sns[q][2]) \in Tracker
            BY <2>1, <2>3, <3>3, <3>4, TrackerTypes DEF ReplyMatches
        <3> QED BY <3>1, <3>2, <3>5, ExceptSeq
    <2>4. queue' \in [Nodes -> [Priorities -> Seq(Tracker)]]
        <3> DEFINE q0 == [q \in Priorities |->
                       IF q \in Busy(n)
                       THEN [queue[n][q] EXCEPT ![1] = ResetTo(Front(n, q), sns[q][1], sns[q][2])]
                       ELSE <<>>]
        <3>1. q0 \in [Priorities -> Seq(Tracker)]
            BY <2>3
        <3>2. queue' = [queue EXCEPT ![n] = q0]
            BY <1>6, Zenon DEF ReceiveSynRep
        <3> HIDE DEF q0
        <3> QED BY <3>1, <3>2 DEF TypeOK
    <2> QED BY <1>6, <2>2, <2>4 DEF ReceiveSynRep, TypeOK, SynStates, boundVars
<1> QED BY <1>4, <1>5, <1>6

\* Acknowledgements.
LEMMA ReceiveAckTypeOK ==
    ASSUME TypeOK, NEW n \in Nodes, NEW p \in Priorities, ReceiveAck(n, p) \/ IgnoreAck(n, p)
    PROVE  TypeOK'
<1> DEFINE sn == Incoming(n, p).sn
           t == Front(n, p)
           acked == TrackerAcknowledge(t, sn)
<1>1. Exchange(n, p, "ack", p, <<>>)
    BY DEF ReceiveAck, IgnoreAck
<1>2. /\ chan' \in [Nodes -> [Priorities -> Seq(Packet)]]
      /\ created' \in [Nodes -> BOOLEAN]
      /\ sn \in Nat
      /\ UNCHANGED <<link, reachable, sent, abandoned, boundVars>>
    <2>1. <<>> \in Seq(Packet)
        OBVIOUS
    <2> QED BY <1>1, <2>1, ExchangeType, PacketFields
<1>3. CASE ReceiveAck(n, p)
    <2>1. queue[n][p] # <<>> /\ InRange(t, sn)
        BY <1>3 DEF ReceiveAck, Acknowledges
    <2>2. t \in Tracker /\ acked \in Tracker
        BY <1>2, <2>1, FrontTypes, TrackerTypes
    <2>3. SetFront(n, p, acked) \in [Nodes -> [Priorities -> Seq(Tracker)]]
        BY <2>1, <2>2, FrontTypes
    <2>4. [queue EXCEPT ![n][p] = Tail(@)] \in [Nodes -> [Priorities -> Seq(Tracker)]]
        BY <2>1, FrontTypes
    <2>5. t.id \in Nat
        BY <2>2 DEF Tracker
    <2>6. \/ queue' = [queue EXCEPT ![n][p] = Tail(@)] /\ delivered' = delivered \cup {t.id}
          \/ queue' = SetFront(n, p, acked) /\ delivered' = delivered
        BY <1>3 DEF ReceiveAck
    <2>7. queue' \in [Nodes -> [Priorities -> Seq(Tracker)]]
        BY <2>3, <2>4, <2>6, Zenon
    <2>8. delivered' \subseteq Nat
        BY <2>5, <2>6 DEF TypeOK
    <2> QED BY <1>2, <1>3, <2>7, <2>8 DEF ReceiveAck, TypeOK, boundVars
<1>4. CASE IgnoreAck(n, p)
    BY <1>2, <1>4 DEF IgnoreAck, TypeOK, outVars, boundVars
<1> QED BY <1>3, <1>4

\* Headings and parts.
LEMMA ReceivePartTypeOK ==
    ASSUME TypeOK, NEW n \in Nodes, NEW p \in Priorities,
           ReceiveHeading(n, p) \/ ReceivePart(n, p) \/ IgnorePart(n, p)
    PROVE  TypeOK'
<1> DEFINE packet == Incoming(n, p)
           old == assembler[n][p]
<1>1. old \in Assembler
    BY DEF TypeOK
<1>2. packet \in Packet
    <2>1. Peer[n] \in Nodes
        BY DeliveryAssumption
    <2>2. chan[Peer[n]][p] \in Seq(Packet)
        BY <2>1 DEF TypeOK
    <2>3. chan[Peer[n]][p] # <<>>
        BY ZenonT(60) DEF ReceiveHeading, ReceivePart, IgnorePart, Exchange, Receivable
    <2> QED BY <2>2, <2>3, HeadTailProperties DEF Incoming
<1>3. CASE ReceiveHeading(n, p)
    <2>1. Exchange(n, p, "message", p, Ack(n, packet.sn)) /\ KeepOrHandOver(n, p, Started(old, packet))
        BY <1>3 DEF ReceiveHeading
    <2>2. packet.type = "message"
        BY <2>1 DEF Exchange
    <2>3. packet.id \in Nat /\ packet.sn \in Nat /\ packet.last \in Nat
        BY <1>2, <2>2, PacketFields
    <2>4. Ack(n, packet.sn) \in Seq(Packet)
        BY <2>3, ReplyTypes
    <2>5. /\ chan' \in [Nodes -> [Priorities -> Seq(Packet)]]
          /\ created' \in [Nodes -> BOOLEAN]
          /\ UNCHANGED <<link, reachable, sent, abandoned, boundVars>>
        BY <2>1, <2>4, ExchangeType
    <2>6. Started(old, packet) \in Assembler
        <3>1. NewAssembler(packet.id, packet.sn, packet.last) \in Assembler
            BY <2>3 DEF NewAssembler, Assembler
        <3>2. NewAssembler(packet.id, packet.sn, packet.last).first <= packet.sn
            BY <2>3 DEF NewAssembler
        <3> QED BY <2>3, <3>1, <3>2, AssemblerTypes DEF Started
    <2>7. assembler' \in [Nodes -> [Priorities -> Assembler]] /\ received' \subseteq Nat
        BY <2>1, <2>6, KeepTypes
    <2>8. lost' \subseteq Nat
        BY <1>1, <1>3 DEF ReceiveHeading, TypeOK, Assembler
    <2> QED BY <1>3, <2>5, <2>7, <2>8 DEF ReceiveHeading, TypeOK, outVars, boundVars
<1>4. CASE ReceivePart(n, p)
    <2>1. /\ Exchange(n, p, "part", p, Ack(n, packet.sn))
          /\ AssemblerInRange(old, packet.sn)
          /\ KeepOrHandOver(n, p, AssemblerAcknowledge(old, packet.sn))
        BY <1>4 DEF ReceivePart
    <2>2. packet.type = "part"
        BY <2>1 DEF Exchange
    <2>3. packet.sn \in Nat
        BY <1>2, <2>2, PacketFields
    <2>4. Ack(n, packet.sn) \in Seq(Packet)
        BY <2>3, ReplyTypes
    <2>5. /\ chan' \in [Nodes -> [Priorities -> Seq(Packet)]]
          /\ created' \in [Nodes -> BOOLEAN]
          /\ UNCHANGED <<link, reachable, sent, abandoned, boundVars>>
        BY <2>1, <2>4, ExchangeType
    <2>6. AssemblerAcknowledge(old, packet.sn) \in Assembler
        BY <1>1, <2>1, <2>3, AssemblerTypes DEF AssemblerInRange
    <2>7. assembler' \in [Nodes -> [Priorities -> Assembler]] /\ received' \subseteq Nat
        BY <2>1, <2>6, KeepTypes
    <2> QED BY <1>4, <2>5, <2>7 DEF ReceivePart, TypeOK, outVars, boundVars
<1>5. CASE IgnorePart(n, p)
    <2>1. <<>> \in Seq(Packet)
        OBVIOUS
    <2>2. Exchange(n, p, "part", p, <<>>)
        BY <1>5 DEF IgnorePart
    <2>3. /\ chan' \in [Nodes -> [Priorities -> Seq(Packet)]]
          /\ created' \in [Nodes -> BOOLEAN]
          /\ UNCHANGED <<link, reachable, sent, abandoned, boundVars>>
        BY <2>1, <2>2, ExchangeType
    <2> QED BY <1>5, <2>3 DEF IgnorePart, TypeOK, outVars, boundVars
<1> QED BY <1>3, <1>4, <1>5

\* The node below, and time.
LEMMA NetworkTypeOK ==
    ASSUME TypeOK,
           \/ \E n \in Nodes : Unreachable(n) \/ RouteReady(n)
           \/ \E n \in Nodes, p \in Priorities : Reroute(n, p) \/ ExpireTracker(n, p)
           \/ Break \/ Reconnect
    PROVE  TypeOK'
<1>1. NoPackets \in [Nodes -> [Priorities -> Seq(Packet)]]
    <2>1. <<>> \in Seq(Packet)
        OBVIOUS
    <2> QED BY <2>1 DEF NoPackets
<1>2. ASSUME NEW n \in Nodes, Unreachable(n) PROVE TypeOK'
    BY <1>2 DEF Unreachable, Suspend, TypeOK, outVars, histVars, boundVars
<1>3. ASSUME NEW n \in Nodes, RouteReady(n) PROVE TypeOK'
    <2>1. syn' \in [Nodes -> SynStates]
        BY <1>3 DEF RouteReady, Resume, TypeOK, SynStates
    <2> QED BY <1>3, <2>1 DEF RouteReady, Resume, TypeOK, outVars, histVars, boundVars
<1>4. ASSUME NEW n \in Nodes, NEW p \in Priorities, Reroute(n, p) PROVE TypeOK'
    <2>1. PICK kept \in 0 .. (Len(chan[n][p]) - 1) :
              chan' = [chan EXCEPT ![n][p] = SubSeq(@, 1, kept)]
        BY <1>4 DEF Reroute
    <2>2. chan[n][p] \in Seq(Packet) /\ chan \in [Nodes -> [Priorities -> Seq(Packet)]]
        BY DEF TypeOK
    <2>3. \A i \in 1 .. kept : chan[n][p][i] \in Packet
        <3>1. \A i \in 1 .. kept : i \in 1 .. Len(chan[n][p])
            BY <2>2, LenProperties
        <3> QED BY <2>2, <3>1, ElementOfSeq
    <2>4. SubSeq(chan[n][p], 1, kept) \in Seq(Packet)
        BY <2>3, SubSeqProperties
    <2>5. chan' \in [Nodes -> [Priorities -> Seq(Packet)]]
        BY <2>1, <2>2, <2>4, UpdateType
    <2>6. /\ reroutes' = reroutes + 1
          /\ UNCHANGED <<synVars, outVars, assembler, link, reachable, histVars, breaks, restarts>>
        BY <1>4 DEF Reroute
    <2>7. reroutes' \in Nat /\ breaks' \in Nat /\ restarts' \in Nat
        BY SMTT(60), <2>6 DEF TypeOK
    <2> QED BY <2>5, <2>6, <2>7 DEF TypeOK, synVars, outVars, histVars
<1>5. ASSUME NEW n \in Nodes, NEW p \in Priorities, ExpireTracker(n, p) PROVE TypeOK'
    <2> DEFINE t == Front(n, p)
               late == IF t.headingExp THEN [t EXCEPT !.exp = TRUE] ELSE [t EXCEPT !.headingExp = TRUE]
    <2>1. queue[n][p] # <<>> /\ queue' = SetFront(n, p, late)
        BY <1>5 DEF ExpireTracker
    <2>2. t \in Tracker
        BY <2>1, FrontTypes
    <2>3. late \in Tracker
        BY <2>2 DEF Tracker
    <2>4. queue' \in [Nodes -> [Priorities -> Seq(Tracker)]]
        BY <2>1, <2>3, FrontTypes
    <2> QED BY <1>5, <2>4 DEF ExpireTracker, TypeOK, synVars, netVars, histVars, boundVars
<1>6. CASE Break
    BY <1>1, <1>6 DEF Break, TypeOK, synVars, outVars, histVars
<1>7. CASE Reconnect
    BY <1>7 DEF Reconnect, TypeOK, synVars, outVars, histVars, boundVars
<1> QED BY <1>2, <1>3, <1>4, <1>5, <1>6, <1>7

\* A restart.
LEMMA RestartTypeOK ==
    ASSUME TypeOK, NEW n \in Nodes, Restart(n)
    PROVE  TypeOK'
<1>1. <<>> \in Seq(Packet) /\ <<>> \in Seq(Tracker)
    OBVIOUS
<1>2. chan' \in [Nodes -> [Priorities -> Seq(Packet)]]
    BY <1>1 DEF Restart, NoPackets
<1>3. queue' \in [Nodes -> [Priorities -> Seq(Tracker)]]
    BY <1>1 DEF Restart, TypeOK
<1>4. assembler' \in [Nodes -> [Priorities -> Assembler]]
    BY DEF Restart, TypeOK, NoAssembler, NoMessage, Assembler
<1>5. turn' \in [Nodes -> PriorityTracker]
    BY DistributionAssumption DEF Restart, TypeOK, InitialTurn, PriorityTracker, Priorities
<1>6. abandoned' \subseteq Nat
    <2>1. DOMAIN sent \subseteq Nat
        BY LenProperties DEF TypeOK
    <2> QED BY <2>1 DEF Restart, TypeOK
<1>7. /\ created' \in [Nodes -> BOOLEAN]
      /\ suspended' \in [Nodes -> BOOLEAN]
      /\ syn' \in [Nodes -> SynStates]
      /\ synExp' \in [Nodes -> BOOLEAN]
      /\ reachable' \in [Nodes -> BOOLEAN]
      /\ lastSn' \in [Nodes -> [Priorities -> Nat]]
      /\ link' \in {"up", "down"}
      /\ {breaks', reroutes', restarts'} \subseteq Nat
    BY DEF Restart, TypeOK, SynStates
<1>8. UNCHANGED <<sent, received, delivered, lost>>
    BY DEF Restart
<1> QED BY <1>2, <1>3, <1>4, <1>5, <1>6, <1>7, <1>8 DEF TypeOK

\* No step of the program leaves the types.
LEMMA NextTypeOK == TypeOK /\ [Next]_vars => TypeOK'
<1> SUFFICES ASSUME TypeOK, [Next]_vars PROVE TypeOK'
    OBVIOUS
<1>1. ASSUME NEW n \in Senders, NEW p \in Priorities, NEW count \in PartCounts,
             EnqueueMessage(n, p, count)
      PROVE  TypeOK'
    BY <1>1, EnqueueTypeOK
<1>2. ASSUME NEW n \in Nodes, InitiateSyn(n) \/ SendPart(n) \/ ScanInVain(n) \/ ExpireSyn(n)
      PROVE  TypeOK'
    BY <1>2, StepTypeOK
<1>3. ASSUME NEW n \in Nodes, Unreachable(n) \/ RouteReady(n) PROVE TypeOK'
    BY <1>3, NetworkTypeOK
<1>4. ASSUME NEW n \in Nodes, Restart(n) PROVE TypeOK'
    BY <1>4, RestartTypeOK
<1>5. ASSUME NEW n \in Nodes, NEW p \in Priorities, Receive(n, p) PROVE TypeOK'
    BY <1>5, ReceiveSynTypeOK, ReceiveAckTypeOK, ReceivePartTypeOK DEF Receive
<1>6. ASSUME NEW n \in Nodes, NEW p \in Priorities, ExpireTracker(n, p) \/ Reroute(n, p)
      PROVE  TypeOK'
    BY <1>6, NetworkTypeOK
<1>7. CASE Break \/ Reconnect
    BY <1>7, NetworkTypeOK
<1>8. CASE UNCHANGED vars
    BY <1>8 DEF TypeOK, vars, synVars, outVars, netVars, histVars, boundVars
<1> QED BY <1>1, <1>2, <1>3, <1>4, <1>5, <1>6, <1>7, <1>8 DEF Next

\* Every variable keeps its type in every run of the two controllers, however
\* many messages, parts, priorities, breaks and restarts there are.  It is
\* inductive as it stands because the guards of Delivery keep the assertions
\* of reset_to and acknowledge_part: a serial number below the first part's
\* would give a negative index.
THEOREM TypeCorrect == Spec => []TypeOK
<1>1. Init => TypeOK
    BY InitTypeOK
<1>2. TypeOK /\ [Next]_vars => TypeOK'
    BY NextTypeOK
<1> QED BY <1>1, <1>2, PTL DEF Spec

-----------------------------------------------------------------------------
(***************************************************************************)
(* Controllers and routes.                                                 *)
(***************************************************************************)

\* The inductive invariant behind ActiveIsReachable: messages are queued in
\* controllers only, and on_node_unreachable suspended the controller of
\* every node without a route.
SuspendedWhileUnreachable ==
    \A n \in Nodes :
        /\ \A p \in Priorities : queue[n][p] # <<>> => created[n]
        /\ created[n] /\ ~reachable[n] => suspended[n]

\* The packets leave the sets of controllers and routes as they are, but for
\* the controller of a node with a route that a packet may create.
LEMMA ReceiveKeepsRoutes ==
    ASSUME TypeOK, SuspendedWhileUnreachable, NEW n \in Nodes, NEW p \in Priorities, Receive(n, p)
    PROVE  SuspendedWhileUnreachable'
<1>1. PICK q, type, replies : Exchange(n, p, type, q, replies)
    BY DEF Receive, ReceiveSynRst, ReceiveSynReq, ReceiveSynRep, ReceiveAck,
           IgnoreAck, ReceiveHeading, ReceivePart, IgnorePart
<1>2. /\ reachable[n]
      /\ UNCHANGED reachable
      /\ created' = [created EXCEPT ![n] = TRUE]
    BY <1>1 DEF Exchange, Receivable
<1>3. UNCHANGED suspended
    BY DEF Receive, ReceiveSynRst, ReceiveSynReq, ReceiveSynRep, ReceiveAck,
           IgnoreAck, ReceiveHeading, ReceivePart, IgnorePart
<1>4. \A m \in Nodes : m # n => queue'[m] = queue[m]
    <2> SUFFICES ASSUME NEW m \in Nodes, m # n PROVE queue'[m] = queue[m]
        OBVIOUS
    <2>1. queue \in [Nodes -> [Priorities -> Seq(Tracker)]]
        BY DEF TypeOK
    <2>2. CASE ReceiveSynRep(n, p)
        BY <2>1, <2>2 DEF ReceiveSynRep
    <2>3. CASE ReceiveAck(n, p)
        BY <2>1, <2>3 DEF ReceiveAck, SetFront
    <2>4. CASE UNCHANGED queue
        BY <2>4
    <2> QED BY <2>2, <2>3, <2>4 DEF Receive, ReceiveSynRst, ReceiveSynReq, IgnoreAck,
                                    ReceiveHeading, ReceivePart, IgnorePart, outVars
<1>5. created \in [Nodes -> BOOLEAN]
    BY DEF TypeOK
<1> QED BY <1>2, <1>3, <1>4, <1>5 DEF SuspendedWhileUnreachable

\* No step makes a controller active without a route.
LEMMA NextKeepsRoutes ==
    TypeOK /\ SuspendedWhileUnreachable /\ [Next]_vars => SuspendedWhileUnreachable'
<1> SUFFICES ASSUME TypeOK, SuspendedWhileUnreachable, [Next]_vars
             PROVE  SuspendedWhileUnreachable'
    OBVIOUS
<1>0. /\ created \in [Nodes -> BOOLEAN]
      /\ suspended \in [Nodes -> BOOLEAN]
      /\ reachable \in [Nodes -> BOOLEAN]
      /\ queue \in [Nodes -> [Priorities -> Seq(Tracker)]]
    BY DEF TypeOK
<1>1. ASSUME NEW n \in Senders, NEW p \in Priorities, NEW count \in PartCounts,
             EnqueueMessage(n, p, count)
      PROVE  SuspendedWhileUnreachable'
    <2>1. n \in Nodes
        BY DeliveryAssumption
    <2>2. /\ reachable[n]
          /\ UNCHANGED <<reachable, suspended>>
          /\ created' = [created EXCEPT ![n] = TRUE]
          /\ \E s : queue' = [queue EXCEPT ![n][p] = s]
        BY <1>1 DEF EnqueueMessage, netVars
    <2>3. \A m \in Nodes : m # n => queue'[m] = queue[m]
        BY <1>0, <2>2
    <2> QED BY <1>0, <2>1, <2>2, <2>3 DEF SuspendedWhileUnreachable
<1>2. ASSUME NEW n \in Nodes, NEW p \in Priorities, NEW t,
             queue[n][p] # <<>>, queue' = SetFront(n, p, t),
             UNCHANGED <<created, suspended, reachable>>
      PROVE  SuspendedWhileUnreachable'
    <2>1. \A m \in Nodes, q \in Priorities : queue'[m][q] # <<>> => queue[m][q] # <<>>
        BY <1>0, <1>2 DEF SetFront
    <2> QED BY <1>2, <2>1 DEF SuspendedWhileUnreachable
<1>3. ASSUME UNCHANGED <<created, suspended, reachable, queue>>
      PROVE  SuspendedWhileUnreachable'
    BY <1>3 DEF SuspendedWhileUnreachable
<1>4. ASSUME NEW n \in Nodes, SendPart(n) PROVE SuspendedWhileUnreachable'
    <2>1. Ready(n) # {} /\ Ready(n) \subseteq Priorities /\ turn[n] \in PriorityTracker
        BY <1>4 DEF SendPart, Ready, Busy, TypeOK
    <2> DEFINE p == FirstReady(turn[n], Ready(n))
    <2>2. p \in Ready(n)
        BY <2>1, FirstReadyIsReady
    <2>3. \E t : queue' = SetFront(n, p, t)
        BY <1>4 DEF SendPart
    <2>4. queue[n][p] # <<>> /\ p \in Priorities
        BY <2>1, <2>2 DEF Ready, Busy
    <2>5. UNCHANGED <<created, suspended, reachable>>
        BY <1>4 DEF SendPart, synVars
    <2> QED BY <1>2, <2>3, <2>4, <2>5
<1>5. ASSUME NEW n \in Nodes, NEW p \in Priorities, ExpireTracker(n, p)
      PROVE  SuspendedWhileUnreachable'
    <2>1. /\ queue[n][p] # <<>>
          /\ \E t : queue' = SetFront(n, p, t)
          /\ UNCHANGED <<created, suspended, reachable>>
        BY <1>5 DEF ExpireTracker, synVars, netVars
    <2> QED BY <1>2, <2>1
<1>6. ASSUME NEW n \in Nodes, InitiateSyn(n) \/ ScanInVain(n) \/ ExpireSyn(n)
      PROVE  SuspendedWhileUnreachable'
    BY <1>3, <1>6 DEF InitiateSyn, ScanInVain, ExpireSyn, synVars, outVars, netVars
<1>7. ASSUME NEW n \in Nodes, Unreachable(n) PROVE SuspendedWhileUnreachable'
    BY <1>0, <1>7 DEF Unreachable, Suspend, outVars, SuspendedWhileUnreachable
<1>8. ASSUME NEW n \in Nodes, RouteReady(n) PROVE SuspendedWhileUnreachable'
    BY <1>0, <1>8 DEF RouteReady, Resume, outVars, SuspendedWhileUnreachable
<1>9. ASSUME NEW n \in Nodes, Restart(n) PROVE SuspendedWhileUnreachable'
    BY <1>0, <1>9 DEF Restart, SuspendedWhileUnreachable
<1>10. ASSUME NEW n \in Nodes, NEW p \in Priorities, Receive(n, p)
       PROVE  SuspendedWhileUnreachable'
    BY <1>10, ReceiveKeepsRoutes
<1>11. ASSUME NEW n \in Nodes, NEW p \in Priorities, Reroute(n, p)
       PROVE  SuspendedWhileUnreachable'
    BY <1>3, <1>11 DEF Reroute, synVars, outVars
<1>12. CASE Break \/ Reconnect \/ UNCHANGED vars
    BY <1>3, <1>12 DEF Break, Reconnect, vars, synVars, outVars, netVars
<1> QED BY <1>1, <1>4, <1>5, <1>6, <1>7, <1>8, <1>9, <1>10, <1>11, <1>12 DEF Next

\* A controller that sends has a route to its peer, so the enqueue in step()
\* cannot fail: it would suspend the controller with no on_route_ready to come
\* that resumes it.
THEOREM SendsOnlyWhileReachable == Spec => []ActiveIsReachable
<1>1. Init => SuspendedWhileUnreachable
    BY DEF Init, SuspendedWhileUnreachable
<1>2. TypeOK /\ SuspendedWhileUnreachable /\ [Next]_vars => SuspendedWhileUnreachable'
    BY NextKeepsRoutes
<1>3. TypeOK /\ SuspendedWhileUnreachable => ActiveIsReachable
    BY DEF TypeOK, SuspendedWhileUnreachable, ActiveIsReachable, Active, Busy
<1> QED BY <1>1, <1>2, <1>3, TypeCorrect, PTL DEF Spec

-----------------------------------------------------------------------------
(***************************************************************************)
(* The round of the priorities.                                            *)
(***************************************************************************)

\* next() and skip() never take the counter past the weight.
LEMMA TurnStaysWithinWeight ==
    ASSUME NEW t \in PriorityTracker, t.counter <= Distribution[t.priority], NEW p \in Priorities
    PROVE  LET u == NextTurn(SkipTo(t, p)) IN u.counter <= Distribution[u.priority]
<1> DEFINE s == SkipTo(t, p)
<1>1. \A q \in Priorities : Distribution[q] \in Nat \ {0}
    BY DistributionAssumption
<1>2. s \in PriorityTracker
    BY TurnTypes
<1>3. s.counter <= Distribution[s.priority]
    BY <1>1 DEF SkipTo, PriorityTracker
<1>4. Following(s.priority) \in Priorities
    BY SMTT(60), <1>2, DistributionAssumption DEF Following, Priorities, PriorityTracker
<1> HIDE DEF s
<1>5. LET u == NextTurn(s) IN u.counter <= Distribution[u.priority]
    <2>1. CASE s.counter = Distribution[s.priority]
        BY <1>1, <1>4, <2>1 DEF NextTurn
    <2>2. CASE s.counter # Distribution[s.priority]
        <3>1. s.counter \in Nat /\ Distribution[s.priority] \in Nat
            BY <1>1, <1>2 DEF PriorityTracker
        <3>2. s.counter + 1 <= Distribution[s.priority]
            BY <1>3, <2>2, <3>1
        <3>3. NextTurn(s) = [s EXCEPT !.counter = s.counter + 1]
            BY <2>2 DEF NextTurn
        <3>4. NextTurn(s).counter = s.counter + 1 /\ NextTurn(s).priority = s.priority
            BY <1>2, <3>3 DEF PriorityTracker
        <3> QED BY <3>2, <3>4
    <2> QED BY <2>1, <2>2
<1> QED BY <1>5 DEF s

\* The counter that next() compares with the weight never passes it, so the
\* comparison by == always comes true and every priority gives its turn away.
THEOREM TurnIsBounded == Spec => []TurnWithinWeight
<1>1. Init => TurnWithinWeight
    BY DistributionAssumption DEF Init, TurnWithinWeight, InitialTurn, Priorities
<1>2. TypeOK /\ TurnWithinWeight /\ [Next]_vars => TurnWithinWeight'
    <2> SUFFICES ASSUME TypeOK, TurnWithinWeight, [Next]_vars PROVE TurnWithinWeight'
        OBVIOUS
    <2>1. turn \in [Nodes -> PriorityTracker]
        BY DEF TypeOK
    <2>2. ASSUME NEW n \in Nodes, NEW t, turn' = [turn EXCEPT ![n] = t],
                 t.counter <= Distribution[t.priority]
          PROVE  TurnWithinWeight'
        BY <2>1, <2>2 DEF TurnWithinWeight
    <2>3. ASSUME NEW n \in Nodes, SendPart(n) PROVE TurnWithinWeight'
        <3> DEFINE p == FirstReady(turn[n], Ready(n))
                   t == NextTurn(SkipTo(turn[n], p))
        <3>1. Ready(n) # {} /\ Ready(n) \subseteq Priorities /\ turn[n] \in PriorityTracker
            BY <2>1, <2>3 DEF SendPart, Ready, Busy
        <3>2. p \in Priorities
            BY <3>1, FirstReadyIsReady
        <3>3. t.counter <= Distribution[t.priority]
            BY <3>1, <3>2, TurnStaysWithinWeight DEF TurnWithinWeight
        <3>4. turn' = [turn EXCEPT ![n] = t]
            BY <2>3 DEF SendPart
        <3> HIDE DEF t
        <3> QED BY <2>2, <3>3, <3>4
    <2>4. ASSUME NEW n \in Nodes, ScanInVain(n) PROVE TurnWithinWeight'
        <3>1. turn' = [turn EXCEPT ![n] = SkipAll(turn[n])] /\ turn[n] \in PriorityTracker
            BY <2>1, <2>4 DEF ScanInVain
        <3>2. SkipAll(turn[n]).counter = 0 /\ SkipAll(turn[n]).priority = turn[n].priority
            BY <3>1 DEF SkipAll, PriorityTracker
        <3>3. Distribution[turn[n].priority] \in Nat
            BY <3>1, DistributionAssumption DEF PriorityTracker
        <3>4. SkipAll(turn[n]).counter <= Distribution[SkipAll(turn[n]).priority]
            BY <3>2, <3>3
        <3> QED BY <2>2, <3>1, <3>4
    <2>5. ASSUME NEW n \in Nodes, Restart(n) PROVE TurnWithinWeight'
        <3>1. turn' = [turn EXCEPT ![n] = InitialTurn]
            BY <2>5 DEF Restart
        <3>2. InitialTurn.counter <= Distribution[InitialTurn.priority]
            BY DistributionAssumption DEF InitialTurn, Priorities
        <3> QED BY <2>2, <3>1, <3>2
    <2>6. CASE UNCHANGED turn
        BY <2>6 DEF TurnWithinWeight
    <2>7. ASSUME NEW n \in Nodes, NEW p \in Priorities, Receive(n, p) PROVE UNCHANGED turn
        BY <2>7 DEF Receive, ReceiveSynRst, ReceiveSynReq, ReceiveSynRep, ReceiveAck, IgnoreAck,
                    ReceiveHeading, ReceivePart, IgnorePart, outVars
    <2>8. ASSUME NEW n, NEW p, NEW count, EnqueueMessage(n, p, count) PROVE UNCHANGED turn
        BY <2>8 DEF EnqueueMessage
    <2>9. ASSUME NEW n, InitiateSyn(n) \/ ExpireSyn(n) \/ Unreachable(n) \/ RouteReady(n)
          PROVE  UNCHANGED turn
        BY <2>9 DEF InitiateSyn, ExpireSyn, Unreachable, RouteReady, outVars
    <2>10. ASSUME NEW n, NEW p, ExpireTracker(n, p) \/ Reroute(n, p) PROVE UNCHANGED turn
        BY <2>10 DEF ExpireTracker, Reroute, outVars
    <2>11. CASE Break \/ Reconnect \/ UNCHANGED vars
        BY <2>6, <2>11 DEF Break, Reconnect, outVars, vars
    <2> QED BY <2>3, <2>4, <2>5, <2>6, <2>7, <2>8, <2>9, <2>10, <2>11 DEF Next
<1> QED BY <1>1, <1>2, TypeCorrect, PTL DEF Spec
=============================================================================
