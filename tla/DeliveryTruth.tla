----------------------------- MODULE DeliveryTruth -----------------------------
(***************************************************************************)
(* The proof that DeliveryInvariant is inductive, and the two theorems     *)
(* that follow: a message reported delivered was received, and no sender   *)
(* is ahead of its receiver.  The lemmas on queues of packets come first,  *)
(* then what each kind of step does to one flow, then the actions.         *)
(***************************************************************************)
EXTENDS DeliveryInvariant, DeliveryProofs

-----------------------------------------------------------------------------
(***************************************************************************)
(* Queues of packets.                                                      *)
(***************************************************************************)

\* The packets of a queue after one is sent: nothing else is in it, and it
\* stays in order when the new packet may follow all the others.
LEMMA AppendPacket ==
    ASSUME NEW s \in Seq(Packet), NEW x \in Packet
    PROVE  /\ Range(Append(s, x)) = Range(s) \cup {x}
           /\ InOrder(s) /\ (\A a \in Range(s) : Precedes(a, x)) => InOrder(Append(s, x))
<1>1. /\ Append(s, x) \in Seq(Packet)
      /\ Len(Append(s, x)) = Len(s) + 1
      /\ \A i \in 1 .. Len(s) : Append(s, x)[i] = s[i]
      /\ Append(s, x)[Len(s) + 1] = x
    BY AppendProperties
<1>2. Len(s) \in Nat
    BY LenProperties
<1>3. Range(s) = {s[i] : i \in 1 .. Len(s)}
    BY RangeEquality
<1>4. Range(Append(s, x)) = {Append(s, x)[i] : i \in 1 .. (Len(s) + 1)}
    BY <1>1, RangeEquality
<1> DEFINE u == Append(s, x)
<1> HIDE DEF u
<1>5. Range(u) = Range(s) \cup {x}
    BY <1>1, <1>2, <1>3, <1>4 DEF u
<1>6. ASSUME InOrder(s), \A a \in Range(s) : Precedes(a, x),
             NEW i \in 1 .. Len(u), NEW j \in 1 .. Len(u), i < j
      PROVE  Precedes(u[i], u[j])
    <2>1. CASE j \in 1 .. Len(s)
        BY <1>1, <1>2, <1>6, <2>1 DEF u, InOrder
    <2>2. CASE j = Len(s) + 1
        BY <1>1, <1>2, <1>3, <1>6, <2>2 DEF u
    <2> QED BY <1>1, <1>2, <2>1, <2>2 DEF u
<1> QED BY <1>5, <1>6 DEF u, InOrder

\* A queue of packets is a prefix of it, in the same order.
LEMMA DropPackets ==
    ASSUME NEW s \in Seq(Packet), InOrder(s), NEW k \in 0 .. Len(s)
    PROVE  /\ Range(SubSeq(s, 1, k)) \subseteq Range(s)
           /\ InOrder(SubSeq(s, 1, k))
           /\ SubSeq(s, 1, k) \in Seq(Packet)
<1> DEFINE u == SubSeq(s, 1, k)
<1>0. Len(s) \in Nat
    BY LenProperties
<1>1. u \in Seq(Packet) /\ Len(u) = k /\ \A i \in 1 .. k : u[i] = s[i]
    BY <1>0, SubSeqProperties
<1>2. Range(s) = {s[i] : i \in 1 .. Len(s)} /\ Range(u) = {u[i] : i \in 1 .. Len(u)}
    BY <1>1, RangeEquality
<1> HIDE DEF u
<1>3. Range(u) \subseteq Range(s)
    BY <1>0, <1>1, <1>2
<1>4. InOrder(u)
    BY <1>0, <1>1 DEF InOrder
<1> QED BY <1>1, <1>3, <1>4 DEF u

\* The packets of a queue after its first is read: they are the others, and
\* the first may precede each of them.
LEMMA ReadPacket ==
    ASSUME NEW s \in Seq(Packet), s # <<>>, InOrder(s)
    PROVE  /\ Head(s) \in Range(s)
           /\ Range(Tail(s)) \subseteq Range(s)
           /\ InOrder(Tail(s))
           /\ \A b \in Range(Tail(s)) : Precedes(Head(s), b)
<1> DEFINE u == Tail(s)
<1>1. /\ u \in Seq(Packet)
      /\ Len(u) = Len(s) - 1
      /\ \A i \in 1 .. Len(u) : u[i] = s[i + 1]
      /\ Head(s) = s[1]
      /\ Len(s) \in Nat \ {0}
    BY HeadTailProperties, LenProperties, EmptySeq
<1>2. Range(s) = {s[i] : i \in 1 .. Len(s)} /\ Range(u) = {u[i] : i \in 1 .. Len(u)}
    BY ZenonT(60), <1>1, RangeEquality
<1> HIDE DEF u
<1>3. Head(s) \in Range(s) /\ Range(u) \subseteq Range(s)
    BY <1>1, <1>2
<1>4. InOrder(u)
    BY <1>1 DEF InOrder
<1>5. ASSUME NEW b \in Range(u) PROVE Precedes(Head(s), b)
    <2>1. PICK i \in 1 .. Len(u) : b = u[i]
        BY <1>2
    <2>2. b = s[i + 1] /\ i + 1 \in 1 .. Len(s) /\ 1 \in 1 .. Len(s) /\ 1 < i + 1
        BY <1>1, <2>1
    <2> QED BY <1>1, <2>2 DEF InOrder
<1> QED BY <1>3, <1>4, <1>5 DEF u
-----------------------------------------------------------------------------
(***************************************************************************)
(* One flow.                                                               *)
(***************************************************************************)

\* The types of what the invariant of a flow speaks of.
LEMMA FlowTypes ==
    ASSUME TypeOK, NEW n \in Nodes, NEW p \in Priorities
    PROVE  /\ Peer[n] \in Nodes /\ Peer[n] # n /\ Peer[Peer[n]] = n
           /\ Holder(n, p) \in Assembler
           /\ lastSn[n][p] \in Nat
           /\ Len(queue[n][p]) \in Nat
           /\ \A k \in 1 .. Len(queue[n][p]) : queue[n][p][k] \in Tracker
           /\ queue[n][p] = <<>> <=> Len(queue[n][p]) = 0
           /\ queue[n][p] # <<>> =>
                  1 \in 1 .. Len(queue[n][p]) /\ Front(n, p) = queue[n][p][1] /\ Front(n, p) \in Tracker
           /\ Len(sent) \in Nat
           /\ \A i \in 1 .. Len(sent) : sent[i] \in Message
           /\ chan[n][p] \in Seq(Packet)
           /\ Range(chan[n][p]) \subseteq Packet
<1>1. Peer[n] \in Nodes /\ Peer[n] # n /\ Peer[Peer[n]] = n
    BY DeliveryAssumption
<1>2. Holder(n, p) \in Assembler /\ lastSn[n][p] \in Nat
    BY <1>1 DEF TypeOK, Holder
<1>3. queue[n][p] \in Seq(Tracker) /\ chan[n][p] \in Seq(Packet) /\ sent \in Seq(Message)
    BY DEF TypeOK
<1>4. /\ Len(queue[n][p]) \in Nat
      /\ \A k \in 1 .. Len(queue[n][p]) : queue[n][p][k] \in Tracker
      /\ queue[n][p] = <<>> <=> Len(queue[n][p]) = 0
    BY <1>3, LenProperties, ElementOfSeq, EmptySeq
<1>5. queue[n][p] # <<>> =>
          1 \in 1 .. Len(queue[n][p]) /\ Front(n, p) = queue[n][p][1] /\ Front(n, p) \in Tracker
    BY <1>4 DEF Front
<1>6. Len(sent) \in Nat /\ \A i \in 1 .. Len(sent) : sent[i] \in Message
    BY <1>3, LenProperties, ElementOfSeq
<1>7. Range(chan[n][p]) \subseteq Packet
    BY <1>3, RangeOfSeq
<1> QED BY <1>1, <1>2, <1>3, <1>4, <1>5, <1>6, <1>7

\* The numbers of a tracker.
LEMMA TrackerNumbers ==
    ASSUME NEW t \in Tracker
    PROVE  t.id \in Nat /\ t.first \in Nat /\ t.count \in Nat /\ LastSn(t) \in Int
<1>1. t.id \in Nat /\ t.first \in Nat /\ t.count \in Nat
    BY DEF Tracker
<1> QED BY <1>1 DEF LastSn

\* A step leaves the trackers of a flow as they are but for what no part of
\* the invariant speaks of, and takes nothing from the history.
TrackersKept(n, p) ==
    /\ Len(queue'[n][p]) = Len(queue[n][p])
    /\ \A k \in 1 .. Len(queue[n][p]) :
           /\ queue'[n][p][k].id = queue[n][p][k].id
           /\ queue'[n][p][k].first = queue[n][p][k].first
           /\ queue'[n][p][k].count = queue[n][p][k].count
           /\ queue'[n][p][k].acked = queue[n][p][k].acked

SentKept ==
    \A i \in 1 .. Len(sent) : i \in 1 .. Len(sent') /\ sent'[i] = sent[i]

EndsKept(n, p) ==
    /\ TrackersKept(n, p)
    /\ lastSn'[n][p] = lastSn[n][p]
    /\ assembler'[Peer[n]][p] = assembler[Peer[n]][p]
    /\ SentKept
    /\ received \subseteq received'

\* The front of such a flow.
LEMMA KeptFront ==
    ASSUME TypeOK, TypeOK', NEW n \in Nodes, NEW p \in Priorities, TrackersKept(n, p)
    PROVE  /\ queue'[n][p] = <<>> <=> queue[n][p] = <<>>
           /\ queue[n][p] # <<>> =>
                  /\ Front(n, p)' \in Tracker
                  /\ Front(n, p)'.id = Front(n, p).id
                  /\ Front(n, p)'.first = Front(n, p).first
                  /\ Front(n, p)'.count = Front(n, p).count
                  /\ Front(n, p)'.acked = Front(n, p).acked
<1>1. /\ Len(queue'[n][p]) \in Nat
      /\ queue'[n][p] = <<>> <=> Len(queue'[n][p]) = 0
      /\ queue'[n][p] # <<>> => Front(n, p)' = queue'[n][p][1] /\ Front(n, p)' \in Tracker
    <2>1. queue'[n][p] \in Seq(Tracker)
        BY DEF TypeOK
    <2>2. /\ Len(queue'[n][p]) \in Nat
          /\ queue'[n][p] = <<>> <=> Len(queue'[n][p]) = 0
        BY <2>1, LenProperties, EmptySeq
    <2>3. queue'[n][p] # <<>> => queue'[n][p][1] \in Tracker
        BY <2>1, <2>2, ElementOfSeq
    <2> QED BY <2>2, <2>3 DEF Front
<1>2. /\ queue[n][p] = <<>> <=> Len(queue[n][p]) = 0
      /\ queue[n][p] # <<>> => 1 \in 1 .. Len(queue[n][p]) /\ Front(n, p) = queue[n][p][1]
    BY FlowTypes
<1>3. queue'[n][p] = <<>> <=> queue[n][p] = <<>>
    BY <1>1, <1>2 DEF TrackersKept
<1> QED BY <1>1, <1>2, <1>3 DEF TrackersKept

\* Each part of the invariant of the flow holds still; a packet still fits as
\* long as the sender stays synchronized.
LEMMA SameQueue ==
    ASSUME TypeOK, TypeOK', NEW n \in Nodes, NEW p \in Priorities, TrackersKept(n, p),
           lastSn'[n][p] = lastSn[n][p], SentKept, QueueInOrder(n, p)
    PROVE  QueueInOrder(n, p)'
<1>1. SUFFICES ASSUME NEW k \in 1 .. Len(queue[n][p])
      PROVE  LET t == queue'[n][p][k]
             IN  /\ t.id \in 1 .. Len(sent')
                 /\ t.first = sent'[t.id].first
                 /\ t.count = sent'[t.id].count
                 /\ LastSn(t) <= lastSn'[n][p]
                 /\ t.acked = {} \/ (k = 1 /\ 0 \in t.acked)
                 /\ \A j \in 1 .. (k - 1) :
                        queue'[n][p][j].id < t.id /\ LastSn(queue'[n][p][j]) < t.first
    BY ZenonT(60) DEF QueueInOrder, TrackersKept
<1>2. LET t == queue[n][p][k]
      IN  /\ t.id \in 1 .. Len(sent)
          /\ t.first = sent[t.id].first
          /\ t.count = sent[t.id].count
          /\ LastSn(t) <= lastSn[n][p]
          /\ t.acked = {} \/ (k = 1 /\ 0 \in t.acked)
          /\ \A j \in 1 .. (k - 1) :
                 queue[n][p][j].id < t.id /\ LastSn(queue[n][p][j]) < t.first
    BY ZenonT(60) DEF QueueInOrder
<1>3. \A j \in 1 .. Len(queue[n][p]) :
          LastSn(queue'[n][p][j]) = LastSn(queue[n][p][j]) /\ queue'[n][p][j].id = queue[n][p][j].id
    BY DEF LastSn, TrackersKept
<1>4. \A j \in 1 .. (k - 1) : j \in 1 .. Len(queue[n][p])
    BY FlowTypes
<1>5. /\ queue'[n][p][k].id = queue[n][p][k].id
      /\ queue'[n][p][k].first = queue[n][p][k].first
      /\ queue'[n][p][k].count = queue[n][p][k].count
      /\ queue'[n][p][k].acked = queue[n][p][k].acked
    BY DEF TrackersKept
<1> QED BY ZenonT(60), <1>2, <1>3, <1>4, <1>5 DEF SentKept

\* The queue of a flow whose ends are kept.
LEMMA KeptQueue ==
    ASSUME TypeOK, TypeOK', NEW n \in Nodes, NEW p \in Priorities, EndsKept(n, p),
           QueueInOrder(n, p)
    PROVE  QueueInOrder(n, p)'
BY SameQueue DEF EndsKept

\* The assembler stays that of a message sent, not later than the first one
\* queued.
LEMMA KeptHolder ==
    ASSUME TypeOK, TypeOK', NEW n \in Nodes, NEW p \in Priorities, EndsKept(n, p),
           HolderKnown(n, p)
    PROVE  HolderKnown(n, p)'
<1>1. Holder(n, p)' = Holder(n, p)
    BY DEF EndsKept, Holder
<1>2. queue'[n][p] # <<>> => queue[n][p] # <<>> /\ Front(n, p)'.id = Front(n, p).id
    BY KeptFront DEF EndsKept
<1> QED BY <1>1, <1>2 DEF EndsKept, SentKept, HolderKnown

\* A part that fitted fits.
LEMMA KeptData ==
    ASSUME TypeOK, TypeOK', NEW n \in Nodes, NEW p \in Priorities, EndsKept(n, p),
           NEW packet, DataFits(n, p, packet), reachable'[n], syn'[n] = "completed"
    PROVE  DataFits(n, p, packet)'
<1>1. Holder(n, p)' = Holder(n, p)
    BY DEF EndsKept, Holder
<1>2. /\ queue'[n][p] = <<>> <=> queue[n][p] = <<>>
      /\ queue[n][p] # <<>> =>
             /\ Front(n, p)'.id = Front(n, p).id
             /\ Front(n, p)'.first = Front(n, p).first
             /\ Front(n, p)'.acked = Front(n, p).acked
             /\ LastSn(Front(n, p)') = LastSn(Front(n, p))
    BY KeptFront DEF EndsKept, LastSn
<1>3. packet.type = "message" => packet.id \in 1 .. Len(sent)
    BY DEF DataFits, MessageOf
<1> QED BY <1>1, <1>2, <1>3 DEF EndsKept, SentKept, DataFits, MessageOf, InRange

\* An acknowledgement that fitted fits.
LEMMA KeptAck ==
    ASSUME TypeOK, TypeOK', NEW n \in Nodes, NEW p \in Priorities, EndsKept(n, p),
           NEW packet, AckFits(n, p, packet), reachable'[n], syn'[n] = "completed",
           \A c \in Range(chan'[n][p]) : c.type = "message" =>
               c \in Range(chan[n][p]) \/ (queue[n][p] # <<>> /\ 0 \notin Front(n, p).acked)
    PROVE  AckFits(n, p, packet)'
<1>1. Holder(n, p)' = Holder(n, p)
    BY DEF EndsKept, Holder
<1>2. /\ queue'[n][p] = <<>> <=> queue[n][p] = <<>>
      /\ queue[n][p] # <<>> =>
             /\ Front(n, p)'.id = Front(n, p).id
             /\ Front(n, p)'.first = Front(n, p).first
             /\ Front(n, p)'.acked = Front(n, p).acked
             /\ LastSn(Front(n, p)') = LastSn(Front(n, p))
    BY KeptFront DEF EndsKept, LastSn
<1>3. SUFFICES ASSUME queue[n][p] # <<>>, ~(packet.sn < Front(n, p).first)
      PROVE  /\ InRange(Front(n, p), packet.sn)'
             /\ Holds(n, p, Front(n, p), packet.sn - Front(n, p).first)'
             /\ \/ packet.sn = Front(n, p)'.first
                \/ 0 \in Front(n, p)'.acked /\ ~HeadingInFlight(n, p, Front(n, p))'
    BY <1>2 DEF AckFits, EndsKept
<1>4. /\ InRange(Front(n, p), packet.sn)
      /\ Holds(n, p, Front(n, p), packet.sn - Front(n, p).first)
      /\ \/ packet.sn = Front(n, p).first
         \/ 0 \in Front(n, p).acked /\ ~HeadingInFlight(n, p, Front(n, p))
    BY <1>3 DEF AckFits
<1>5. InRange(Front(n, p), packet.sn)'
    BY <1>2, <1>3, <1>4 DEF InRange
<1>6. Holds(n, p, Front(n, p), packet.sn - Front(n, p).first)'
    BY <1>1, <1>2, <1>3, <1>4 DEF Holds, EndsKept
<1>7. 0 \in Front(n, p).acked /\ ~HeadingInFlight(n, p, Front(n, p)) => ~HeadingInFlight(n, p, Front(n, p))'
    BY <1>2, <1>3 DEF HeadingInFlight
<1> QED BY <1>2, <1>3, <1>4, <1>5, <1>6, <1>7

\* What is held acknowledged is held by the receiver.
LEMMA KeptFrontHeld ==
    ASSUME TypeOK, TypeOK', NEW n \in Nodes, NEW p \in Priorities, EndsKept(n, p),
           FrontHeld(n, p),
           link' = "up" /\ reachable'[n] /\ syn'[n] = "completed" =>
               link = "up" /\ reachable[n] /\ syn[n] = "completed"
    PROVE  FrontHeld(n, p)'
<1>1. Holder(n, p)' = Holder(n, p)
    BY DEF EndsKept, Holder
<1>2. queue'[n][p] # <<>> =>
          /\ queue[n][p] # <<>>
          /\ Front(n, p)'.id = Front(n, p).id
          /\ Front(n, p)'.acked = Front(n, p).acked
    BY KeptFront DEF EndsKept
<1> QED BY <1>1, <1>2 DEF EndsKept, FrontHeld, Holds

\* A step that only loses packets of the flow, or none.
LEMMA KeptFlow ==
    ASSUME TypeOK, TypeOK', NEW n \in Nodes, NEW p \in Priorities, EndsKept(n, p),
           FlowInvariant(n, p),
           \A b \in Range(chan'[n][p]) : IsData(b) =>
               b \in Range(chan[n][p]) /\ reachable'[n] /\ syn'[n] = "completed",
           \A b \in Range(chan'[Peer[n]][p]) : b.type = "ack" =>
               b \in Range(chan[Peer[n]][p]) /\ reachable'[n] /\ syn'[n] = "completed",
           link' = "up" /\ reachable'[n] /\ syn'[n] = "completed" =>
               link = "up" /\ reachable[n] /\ syn[n] = "completed"
    PROVE  FlowInvariant(n, p)'
<1>1. QueueInOrder(n, p)' /\ HolderKnown(n, p)' /\ FrontHeld(n, p)'
    BY KeptQueue, KeptHolder, KeptFrontHeld DEF FlowInvariant
<1>2. DataKnown(n, p)'
    BY KeptData DEF FlowInvariant, DataKnown, IsData
<1>3. AcksKnown(n, p)'
    BY KeptAck DEF FlowInvariant, AcksKnown, IsData
<1> QED BY <1>1, <1>2, <1>3 DEF FlowInvariant
-----------------------------------------------------------------------------
(***************************************************************************)
(* The link.                                                               *)
(***************************************************************************)

\* A packet sent behind those that may precede it.
LEMMA SendLink ==
    ASSUME TypeOK, LinkInOrder, NEW n \in Nodes, NEW p \in Priorities, NEW packet \in Packet,
           Send(n, p, packet), UNCHANGED link,
           \A a \in Range(chan[n][p]) : Precedes(a, packet)
    PROVE  /\ LinkInOrder'
           /\ \A m \in Nodes, q \in Priorities : \A b \in Range(chan'[m][q]) :
                  b \in Range(chan[m][q]) \/ (m = n /\ q = p /\ b = packet)
<1>1. CASE link = "up"
    <2>1. chan' = [chan EXCEPT ![n][p] = Append(chan[n][p], packet)]
        BY <1>1 DEF Send
    <2>2. chan \in [Nodes -> [Priorities -> Seq(Packet)]]
        BY DEF TypeOK
    <2>3. chan'[n][p] = Append(chan[n][p], packet)
        BY <2>1, <2>2
    <2>4. \A m \in Nodes, q \in Priorities : m # n \/ q # p => chan'[m][q] = chan[m][q]
        BY <2>1, <2>2
    <2>5. chan[n][p] \in Seq(Packet)
        BY <2>2
    <2>6. InOrder(chan'[n][p]) /\ Range(chan'[n][p]) = Range(chan[n][p]) \cup {packet}
        BY <2>3, <2>5, AppendPacket DEF LinkInOrder
    <2> QED BY <1>1, <2>4, <2>6 DEF LinkInOrder
<1>2. CASE link # "up"
    BY <1>2 DEF Send, LinkInOrder
<1> QED BY <1>1, <1>2

\* The replies to a packet, one at most, may be sent behind what is in flight.
MayFollow(n, q, replies) ==
    \/ replies = <<>>
    \/ \E r \in Packet : replies = <<r>> /\ \A a \in Range(chan[n][q]) : Precedes(a, r)

\* The link after n has read a packet at p and replied at q: it is in order,
\* and only the reply has been added.
LinkAfter(n, p, q, replies) ==
    /\ LinkInOrder'
    /\ Incoming(n, p) \in Range(chan[Peer[n]][p])
    /\ \A b \in Range(chan'[Peer[n]][p]) : Precedes(Incoming(n, p), b)
    /\ \A m \in Nodes, k \in Priorities : \A b \in Range(chan'[m][k]) :
           b \in Range(chan[m][k]) \/ (m = n /\ k = q /\ replies = <<b>>)

\* A packet read, and the one reply to it, if any.
LEMMA ExchangeLink ==
    ASSUME TypeOK, LinkInOrder, NEW n \in Nodes, NEW p \in Priorities, NEW q \in Priorities,
           NEW type, NEW replies, Exchange(n, p, type, q, replies), MayFollow(n, q, replies)
    PROVE  LinkAfter(n, p, q, replies)
<1> DEFINE s == Peer[n]
<1>1. s \in Nodes /\ s # n
    BY FlowTypes
<1>2. link = "up" /\ link' = link /\ chan[s][p] # <<>>
    BY DEF Exchange, Receivable
<1>3. chan' = [chan EXCEPT ![Peer[n]][p] = Tail(@), ![n][q] = @ \o replies]
    BY DEF Exchange
<1>4. chan \in [Nodes -> [Priorities -> Seq(Packet)]]
    BY DEF TypeOK
<1>5. chan[s][p] \in Seq(Packet) /\ chan[n][q] \in Seq(Packet)
    BY <1>1, <1>4
<1>6. chan'[s][p] = Tail(chan[s][p]) /\ chan'[n][q] = chan[n][q] \o replies
    BY ZenonT(60), <1>1, <1>3, <1>4
<1>7. \A m \in Nodes, k \in Priorities :
          (m # s \/ k # p) /\ (m # n \/ k # q) => chan'[m][k] = chan[m][k]
    BY <1>1, <1>3, <1>4
<1>8. /\ Incoming(n, p) \in Range(chan[s][p])
      /\ Range(chan'[s][p]) \subseteq Range(chan[s][p])
      /\ InOrder(chan'[s][p])
      /\ \A b \in Range(chan'[s][p]) : Precedes(Incoming(n, p), b)
    BY <1>1, <1>2, <1>5, <1>6, ReadPacket DEF LinkInOrder, Incoming
<1>9. /\ InOrder(chan'[n][q])
      /\ \A b \in Range(chan'[n][q]) : b \in Range(chan[n][q]) \/ replies = <<b>>
    <2>1. CASE replies = <<>>
        <3>1. chan'[n][q] = chan[n][q]
            BY <1>5, <1>6, <2>1, ConcatEmptySeq
        <3> QED BY <3>1 DEF LinkInOrder
    <2>2. ASSUME NEW r \in Packet, replies = <<r>>, \A a \in Range(chan[n][q]) : Precedes(a, r)
          PROVE  /\ InOrder(chan'[n][q])
                 /\ \A b \in Range(chan'[n][q]) : b \in Range(chan[n][q]) \/ replies = <<b>>
        <3>1. chan'[n][q] = Append(chan[n][q], r)
            BY <1>5, <1>6, <2>2, AppendIsConcat
        <3>2. InOrder(chan'[n][q]) /\ Range(chan'[n][q]) = Range(chan[n][q]) \cup {r}
            BY <1>5, <2>2, <3>1, AppendPacket DEF LinkInOrder
        <3> QED BY <2>2, <3>2
    <2> QED BY <2>1, <2>2 DEF MayFollow
<1> HIDE DEF s
<1>10. LinkInOrder'
    <2>1. \A m \in Nodes, k \in Priorities : InOrder(chan'[m][k])
        BY <1>7, <1>8, <1>9 DEF LinkInOrder
    <2> QED BY <1>2, <2>1 DEF LinkInOrder
<1>11. \A m \in Nodes, k \in Priorities : \A b \in Range(chan'[m][k]) :
           b \in Range(chan[m][k]) \/ (m = n /\ k = q /\ replies = <<b>>)
    BY <1>7, <1>8, <1>9
<1> QED BY <1>8, <1>10, <1>11 DEF s, LinkAfter

\* A packet read without a reply.
LEMMA ReadLink ==
    ASSUME TypeOK, LinkInOrder, NEW n \in Nodes, NEW p \in Priorities, NEW q \in Priorities,
           NEW type, Exchange(n, p, type, q, <<>>)
    PROVE  /\ LinkInOrder'
           /\ Incoming(n, p) \in Range(chan[Peer[n]][p])
           /\ \A b \in Range(chan'[Peer[n]][p]) : Precedes(Incoming(n, p), b)
           /\ \A m \in Nodes, k \in Priorities : Range(chan'[m][k]) \subseteq Range(chan[m][k])
<1> DEFINE replies == <<>>
<1>1. replies = <<>> /\ \A b : replies # <<b>>
    OBVIOUS
<1>2. Exchange(n, p, type, q, replies)
    OBVIOUS
<1> HIDE DEF replies
<1>3. MayFollow(n, q, replies)
    BY <1>1 DEF MayFollow
<1>4. LinkAfter(n, p, q, replies)
    BY <1>2, <1>3, ExchangeLink
<1> QED BY <1>1, <1>4 DEF LinkAfter

\* The SYN exchange of a requester of which no packet is added and whose
\* receiver keeps its assemblers.
LEMMA KeptSyn ==
    ASSUME TypeOK, SynExchange, NEW n \in Nodes, NEW p \in Priorities,
           assembler'[Peer[n]] = assembler[Peer[n]],
           \A b \in Range(chan'[n][p]) : IsRequest(b) =>
               b \in Range(chan[n][p]) /\ reachable'[n] /\ syn'[n] = "requesting",
           \A k \in Priorities : \A b \in Range(chan'[Peer[n]][k]) : b.type = "syn_rep" =>
               b \in Range(chan[Peer[n]][k]) /\ reachable'[n] /\ syn'[n] = "requesting"
    PROVE  RequestsKnown(n, p)' /\ RepliesKnown(n, p)'
<1>1. 0 \in Priorities
    BY DistributionAssumption DEF Priorities
<1>2. \A q \in Priorities : Holder(n, q)' = Holder(n, q)
    BY DEF Holder
<1>3. \A b \in Range(chan'[n][p]) : IsRequest(b) => RequestFits(n, p)'
    BY <1>1 DEF SynExchange, RequestsKnown, RequestFits
<1>4. \A b \in Range(chan'[Peer[n]][p]) : b.type = "syn_rep" => ReplyFits(n, p, b)'
    BY <1>2 DEF SynExchange, RepliesKnown, ReplyFits
<1> QED BY <1>3, <1>4 DEF RequestsKnown, RepliesKnown, IsRequest

\* The same for a requester whose state is unchanged.
LEMMA SameSyn ==
    ASSUME TypeOK, SynExchange, NEW n \in Nodes,
           assembler'[Peer[n]] = assembler[Peer[n]],
           reachable'[n] = reachable[n], syn'[n] = syn[n],
           \A k \in Priorities : \A b \in Range(chan'[n][k]) :
               IsRequest(b) => b \in Range(chan[n][k]),
           \A k \in Priorities : \A b \in Range(chan'[Peer[n]][k]) :
               b.type = "syn_rep" => b \in Range(chan[Peer[n]][k])
    PROVE  \A p \in Priorities : RequestsKnown(n, p)' /\ RepliesKnown(n, p)'
<1> SUFFICES ASSUME NEW p \in Priorities PROVE RequestsKnown(n, p)' /\ RepliesKnown(n, p)'
    OBVIOUS
<1>1. \A k \in Priorities : \A b \in Range(chan[n][k]) :
          IsRequest(b) => reachable[n] /\ syn[n] = "requesting"
    BY DEF SynExchange, RequestsKnown, RequestFits
<1>2. \A k \in Priorities : \A b \in Range(chan[Peer[n]][k]) :
          b.type = "syn_rep" => reachable[n] /\ syn[n] = "requesting"
    BY DEF SynExchange, RepliesKnown, ReplyFits
<1> QED BY <1>1, <1>2, KeptSyn

\* A flow of which both ends are unchanged, but for the application's side of
\* the receiver.
LEMMA UnchangedEnds ==
    ASSUME NEW n, NEW p, queue'[n][p] = queue[n][p], lastSn'[n][p] = lastSn[n][p],
           assembler'[Peer[n]][p] = assembler[Peer[n]][p], UNCHANGED sent, received \subseteq received'
    PROVE  EndsKept(n, p)
BY DEF EndsKept, TrackersKept, SentKept

\* A flow of which no packet is added and whose sender's state is unchanged.
LEMMA SameFlow ==
    ASSUME TypeOK, TypeOK', NEW n \in Nodes, NEW p \in Priorities, EndsKept(n, p),
           FlowInvariant(n, p),
           reachable'[n] = reachable[n], syn'[n] = syn[n], UNCHANGED link,
           \A b \in Range(chan'[n][p]) : IsData(b) => b \in Range(chan[n][p]),
           \A b \in Range(chan'[Peer[n]][p]) : b.type = "ack" => b \in Range(chan[Peer[n]][p])
    PROVE  FlowInvariant(n, p)'
<1>1. \A b \in Range(chan[n][p]) : IsData(b) => reachable[n] /\ syn[n] = "completed"
    BY DEF FlowInvariant, DataKnown, DataFits
<1>2. \A b \in Range(chan[Peer[n]][p]) : b.type = "ack" => reachable[n] /\ syn[n] = "completed"
    BY DEF FlowInvariant, AcksKnown, AckFits
<1> QED BY <1>1, <1>2, KeptFlow

-----------------------------------------------------------------------------
(***************************************************************************)
(* The steps that send and read nothing.                                   *)
(***************************************************************************)

\* A step that changes at most the time points of trackers, or loses packets.
LEMMA QuietStep ==
    ASSUME TypeOK, TypeOK', DeliveryInvariant, LinkInOrder',
           \A n \in Nodes : created[n] => created'[n],
           UNCHANGED <<syn, lastSn, assembler, link, reachable, sent, received, delivered>>,
           \A n \in Nodes, p \in Priorities :
               TrackersKept(n, p) /\ Range(chan'[n][p]) \subseteq Range(chan[n][p])
    PROVE  DeliveryInvariant'
<1>1. SynchronizedIsCreated' /\ DeliveredWasReceived'
    BY DEF DeliveryInvariant, SynchronizedIsCreated, DeliveredWasReceived
<1>2. ASSUME NEW n \in Nodes PROVE Peer[n] \in Nodes
    BY DeliveryAssumption
<1>3. SynExchange'
    BY <1>2, SameSyn DEF DeliveryInvariant, SynExchange
<1>4. ASSUME NEW n \in Nodes, NEW p \in Priorities PROVE FlowInvariant(n, p)'
    <2>1. EndsKept(n, p) /\ FlowInvariant(n, p)
        BY DEF EndsKept, SentKept, DeliveryInvariant
    <2> QED BY <1>2, <2>1, SameFlow
<1> QED BY <1>1, <1>3, <1>4 DEF DeliveryInvariant

\* A step after which nothing is in flight and no sender is synchronized.
LEMMA SilentStep ==
    ASSUME TypeOK, TypeOK', DeliveryInvariant, SynchronizedIsCreated',
           UNCHANGED <<queue, lastSn, assembler, sent, received, delivered>>,
           \A n \in Nodes, p \in Priorities : chan'[n][p] = <<>>,
           \A n \in Nodes : ~(link' = "up" /\ reachable'[n] /\ syn'[n] = "completed")
    PROVE  DeliveryInvariant'
<1>1. DeliveredWasReceived'
    BY DEF DeliveryInvariant, DeliveredWasReceived
<1>2. ASSUME NEW n \in Nodes, NEW p \in Priorities PROVE Range(chan'[n][p]) = {} /\ InOrder(chan'[n][p])
    BY DEF Range, InOrder
<1>3. ASSUME NEW n \in Nodes PROVE Peer[n] \in Nodes
    BY DeliveryAssumption
<1>4. LinkInOrder' /\ SynExchange'
    BY <1>2, <1>3 DEF LinkInOrder, SynExchange, RequestsKnown, RepliesKnown
<1>5. ASSUME NEW n \in Nodes, NEW p \in Priorities PROVE FlowInvariant(n, p)'
    <2>1. EndsKept(n, p) /\ FlowInvariant(n, p)
        BY UnchangedEnds DEF DeliveryInvariant
    <2> QED BY <1>2, <1>3, <2>1, KeptFlow
<1> QED BY <1>1, <1>4, <1>5 DEF DeliveryInvariant

\* The scan that finds nothing, the expirations, and packets lost under a
\* surviving route.
LEMMA QuietActions ==
    ASSUME TypeOK, TypeOK', DeliveryInvariant, NEW n \in Nodes, NEW p \in Priorities,
           ScanInVain(n) \/ ExpireSyn(n) \/ ExpireTracker(n, p) \/ Reroute(n, p)
    PROVE  DeliveryInvariant'
<1>1. LinkInOrder
    BY DEF DeliveryInvariant
<1>2. CASE UNCHANGED <<created, syn, queue, lastSn, assembler, chan, link, reachable, sent, received, delivered>>
    <2>1. LinkInOrder'
        BY <1>1, <1>2 DEF LinkInOrder
    <2> QED BY <1>2, <2>1, QuietStep DEF TrackersKept
<1>3. CASE ScanInVain(n) \/ ExpireSyn(n)
    BY <1>2, <1>3 DEF ScanInVain, ExpireSyn, synVars, outVars, netVars, histVars
<1>4. CASE ExpireTracker(n, p)
    <2>1. LinkInOrder'
        BY <1>1, <1>4 DEF LinkInOrder, ExpireTracker, netVars
    <2>2. PICK u : /\ queue' = SetFront(n, p, u)
                   /\ u.id = Front(n, p).id /\ u.first = Front(n, p).first
                   /\ u.count = Front(n, p).count /\ u.acked = Front(n, p).acked
        <3>1. Front(n, p) \in Tracker
            BY <1>4, FlowTypes DEF ExpireTracker
        <3> DEFINE t == Front(n, p)
                   u == IF t.headingExp THEN [t EXCEPT !.exp = TRUE] ELSE [t EXCEPT !.headingExp = TRUE]
        <3>2. queue' = SetFront(n, p, u)
            BY <1>4 DEF ExpireTracker
        <3>3. u.id = t.id /\ u.first = t.first /\ u.count = t.count /\ u.acked = t.acked
            BY <3>1 DEF Tracker
        <3> QED BY <3>2, <3>3
    <2>3. ASSUME NEW m \in Nodes, NEW q \in Priorities PROVE TrackersKept(m, q)
        <3>1. queue \in [Nodes -> [Priorities -> Seq(Tracker)]]
            BY DEF TypeOK
        <3>2. m # n \/ q # p => queue'[m][q] = queue[m][q]
            BY <2>2, <3>1 DEF SetFront
        <3>3. queue'[n][p] = [queue[n][p] EXCEPT ![1] = u]
            BY <2>2, <3>1 DEF SetFront
        <3>4. queue[n][p] \in Seq(Tracker) /\ queue[n][p] # <<>> /\ Front(n, p) = queue[n][p][1]
            BY <1>4, <3>1, FlowTypes DEF ExpireTracker
        <3>5. /\ Len(queue'[n][p]) = Len(queue[n][p])
              /\ \A k \in 1 .. Len(queue[n][p]) :
                     queue'[n][p][k] = IF k = 1 THEN u ELSE queue[n][p][k]
            BY <3>3, <3>4
        <3>6. TrackersKept(n, p)
            BY ZenonT(60), <2>2, <3>4, <3>5 DEF TrackersKept
        <3> QED BY <3>2, <3>6 DEF TrackersKept
    <2> QED BY <1>4, <2>1, <2>3, QuietStep DEF ExpireTracker, synVars, netVars, histVars
<1>5. CASE Reroute(n, p)
    <2>1. PICK kept \in 0 .. (Len(chan[n][p]) - 1) :
              chan' = [chan EXCEPT ![n][p] = SubSeq(chan[n][p], 1, kept)]
        BY <1>5 DEF Reroute
    <2>2. chan \in [Nodes -> [Priorities -> Seq(Packet)]] /\ chan[n][p] \in Seq(Packet)
        BY DEF TypeOK
    <2>3. kept \in 0 .. Len(chan[n][p]) /\ InOrder(chan[n][p])
        BY <1>1, <2>1, <2>2, LenProperties DEF LinkInOrder
    <2>4. Range(chan'[n][p]) \subseteq Range(chan[n][p]) /\ InOrder(chan'[n][p])
        BY <2>1, <2>2, <2>3, DropPackets
    <2>5. \A m \in Nodes, q \in Priorities : m # n \/ q # p => chan'[m][q] = chan[m][q]
        BY <2>1, <2>2
    <2>6. LinkInOrder'
        <3>1. link' = "up"
            BY <1>5 DEF Reroute
        <3> QED BY <1>1, <2>4, <2>5, <3>1 DEF LinkInOrder
    <2>7. \A m \in Nodes, q \in Priorities :
              TrackersKept(m, q) /\ Range(chan'[m][q]) \subseteq Range(chan[m][q])
        BY <1>5, <2>4, <2>5 DEF Reroute, outVars, TrackersKept
    <2> QED BY <1>5, <2>6, <2>7, QuietStep DEF Reroute, synVars, outVars, histVars
<1> QED BY <1>3, <1>4, <1>5

\* The link breaks, an end gives the route up, a new channel is made.
LEMMA SilentActions ==
    ASSUME TypeOK, TypeOK', DeliveryInvariant, NEW n,
           Break \/ Unreachable(n) \/ Reconnect
    PROVE  DeliveryInvariant'
<1>1. LinkInOrder /\ SynchronizedIsCreated
    BY DEF DeliveryInvariant
<1>2. CASE Break
    <2>1. \A m \in Nodes, q \in Priorities : chan'[m][q] = <<>>
        BY <1>2 DEF Break, NoPackets
    <2>2. SynchronizedIsCreated' /\ link' = "down"
        BY <1>1, <1>2 DEF Break, SynchronizedIsCreated, synVars
    <2> QED BY <1>2, <2>1, <2>2, SilentStep DEF Break, outVars, histVars
<1>3. CASE Unreachable(n)
    <2>1. link' = "down" /\ \A m \in Nodes, q \in Priorities : chan'[m][q] = <<>>
        BY <1>1, <1>3 DEF Unreachable, LinkInOrder
    <2>2. SynchronizedIsCreated'
        BY <1>1, <1>3 DEF Unreachable, SynchronizedIsCreated
    <2> QED BY <1>3, <2>1, <2>2, SilentStep DEF Unreachable, outVars, histVars
<1>4. CASE Reconnect
    <2>1. \A m \in Nodes, q \in Priorities : chan'[m][q] = <<>>
        BY <1>1, <1>4 DEF Reconnect, LinkInOrder
    <2>2. SynchronizedIsCreated' /\ \A m \in Nodes : ~reachable'[m]
        BY <1>1, <1>4 DEF Reconnect, SynchronizedIsCreated, synVars
    <2> QED BY <1>4, <2>1, <2>2, SilentStep DEF Reconnect, outVars, histVars
<1> QED BY <1>2, <1>3, <1>4

\* A restart: the flows of the node lose their trackers, those of its peer
\* their assemblers.
LEMMA RestartKeeps ==
    ASSUME TypeOK, TypeOK', DeliveryInvariant, NEW n \in Nodes, Restart(n)
    PROVE  DeliveryInvariant'
<1>1. /\ queue' = [queue EXCEPT ![n] = [p \in Priorities |-> <<>>]]
      /\ lastSn' = [lastSn EXCEPT ![n] = [p \in Priorities |-> 0]]
      /\ assembler' = [assembler EXCEPT ![n] = [p \in Priorities |-> NoAssembler]]
      /\ link' = "down"
      /\ chan' = NoPackets
      /\ UNCHANGED <<sent, received, delivered>>
    BY DEF Restart
<1>2. ASSUME NEW m \in Nodes, NEW p \in Priorities
      PROVE  chan'[m][p] = <<>> /\ Range(chan'[m][p]) = {} /\ InOrder(chan'[m][p])
    BY <1>1 DEF NoPackets, Range, InOrder
<1>3. ASSUME NEW m \in Nodes PROVE Peer[m] \in Nodes
    BY DeliveryAssumption
<1>4. LinkInOrder' /\ SynExchange' /\ DeliveredWasReceived'
    BY <1>1, <1>2, <1>3 DEF LinkInOrder, SynExchange, RequestsKnown, RepliesKnown,
                            DeliveredWasReceived, DeliveryInvariant
<1>5. SynchronizedIsCreated'
    BY DEF Restart, SynchronizedIsCreated, DeliveryInvariant, TypeOK
<1>6. ASSUME NEW m \in Nodes, NEW p \in Priorities PROVE FlowInvariant(m, p)'
    <2>1. /\ queue'[m][p] = IF m = n THEN <<>> ELSE queue[m][p]
          /\ assembler'[Peer[m]][p] = IF Peer[m] = n THEN NoAssembler ELSE assembler[Peer[m]][p]
          /\ m # n => lastSn'[m][p] = lastSn[m][p]
        BY ZenonT(60), <1>1, <1>3 DEF TypeOK
    <2>2. QueueInOrder(m, p) /\ HolderKnown(m, p)
        BY DEF DeliveryInvariant, FlowInvariant
    <2>3. DataKnown(m, p)' /\ AcksKnown(m, p)' /\ FrontHeld(m, p)'
        BY <1>1, <1>2, <1>3 DEF DataKnown, AcksKnown, FrontHeld
    <2>4. QueueInOrder(m, p)'
        <3>1. CASE m = n
            BY <2>1, <3>1 DEF QueueInOrder
        <3>2. CASE m # n
            <4>1. queue'[m][p] = queue[m][p] /\ lastSn'[m][p] = lastSn[m][p]
                BY <2>1, <3>2
            <4>2. TrackersKept(m, p)
                BY <4>1 DEF TrackersKept
            <4>3. SentKept
                BY <1>1 DEF SentKept
            <4> QED BY <2>2, <4>1, <4>2, <4>3, SameQueue
        <3> QED BY <3>1, <3>2
    <2>5. HolderKnown(m, p)'
        <3>1. queue'[m][p] # <<>> => queue[m][p] # <<>> /\ Front(m, p)' = Front(m, p) /\ Front(m, p).id \in Nat
            BY <2>1, FlowTypes DEF Front, Tracker
        <3>2. CASE Peer[m] = n
            BY <2>1, <3>1, <3>2 DEF HolderKnown, Holder, NoAssembler, NoMessage
        <3>3. CASE Peer[m] # n
            <4>1. Holder(m, p)' = Holder(m, p) /\ sent' = sent
                BY <1>1, <2>1, <3>3 DEF Holder
            <4> QED BY ONLY <2>2, <3>1, <4>1 DEF HolderKnown
        <3> QED BY <3>2, <3>3
    <2> QED BY <2>3, <2>4, <2>5 DEF FlowInvariant
<1> QED BY <1>4, <1>5, <1>6 DEF DeliveryInvariant

\* A route becomes ready: the controller was suspended, or did not exist, so
\* it is not synchronized.
LEMMA RouteReadyKeeps ==
    ASSUME TypeOK, TypeOK', SuspendedWhileUnreachable, DeliveryInvariant,
           NEW n \in Nodes, RouteReady(n)
    PROVE  DeliveryInvariant'
<1>1. /\ ~reachable[n] /\ UNCHANGED <<created, queue, lastSn, assembler, chan, link, sent, received, delivered>>
      /\ reachable' = [reachable EXCEPT ![n] = TRUE]
      /\ syn' = [syn EXCEPT ![n] = IF suspended[n] THEN "resuming" ELSE @]
    BY DEF RouteReady, Resume, outVars, histVars
<1>2. syn'[n] \notin {"requesting", "completed"}
    BY <1>1 DEF SuspendedWhileUnreachable, DeliveryInvariant, SynchronizedIsCreated, TypeOK
<1>3. \A m \in Nodes : m # n => reachable'[m] = reachable[m] /\ syn'[m] = syn[m]
    BY <1>1 DEF TypeOK
<1>4. LinkInOrder' /\ DeliveredWasReceived' /\ SynchronizedIsCreated'
    BY <1>1, <1>2, <1>3 DEF DeliveryInvariant, LinkInOrder, DeliveredWasReceived, SynchronizedIsCreated
<1>5. ASSUME NEW m \in Nodes, NEW p \in Priorities
      PROVE  RequestsKnown(m, p)' /\ RepliesKnown(m, p)' /\ FlowInvariant(m, p)'
    <2>1. FlowInvariant(m, p) /\ EndsKept(m, p) /\ SynExchange
        BY <1>1, UnchangedEnds DEF DeliveryInvariant
    <2>2. CASE m # n
        BY <1>1, <1>3, <2>1, <2>2, SameSyn, SameFlow
    <2>3. CASE m = n
        <3>1. RequestsKnown(m, p)' /\ RepliesKnown(m, p)'
            BY <1>1, <2>1, <2>3 DEF SynExchange, RequestsKnown, RepliesKnown, RequestFits, ReplyFits
        <3>2. \A b \in Range(chan[m][p]) : ~IsData(b)
            BY <1>1, <2>1, <2>3 DEF FlowInvariant, DataKnown, DataFits
        <3>3. \A b \in Range(chan[Peer[m]][p]) : b.type # "ack"
            BY <1>1, <2>1, <2>3 DEF FlowInvariant, AcksKnown, AckFits
        <3> QED BY <1>1, <1>2, <2>1, <2>3, <3>1, <3>2, <3>3, KeptFlow
    <2> QED BY <2>2, <2>3
<1> QED BY <1>4, <1>5 DEF DeliveryInvariant, SynExchange

-----------------------------------------------------------------------------
(***************************************************************************)
(* The steps of a sender.                                                  *)
(***************************************************************************)

\* A controller that has something to send exists and has a route.
LEMMA ActiveHasRoute ==
    ASSUME TypeOK, SuspendedWhileUnreachable, NEW n \in Nodes, Active(n)
    PROVE  created[n] /\ reachable[n]
BY DEF TypeOK, SuspendedWhileUnreachable, Active, Busy

\* A SYN request: nothing of an earlier exchange and no part is in flight.
LEMMA InitiateSynKeeps ==
    ASSUME TypeOK, TypeOK', SuspendedWhileUnreachable, DeliveryInvariant,
           NEW n \in Nodes, InitiateSyn(n)
    PROVE  DeliveryInvariant'
<1> DEFINE request == SynRequest(n)
<1>1. /\ created[n] /\ reachable[n]
      /\ syn[n] \notin {"requesting", "completed"}
      /\ Send(n, 0, request)
      /\ syn' = [syn EXCEPT ![n] = "requesting"]
      /\ UNCHANGED <<created, queue, lastSn, assembler, link, reachable, sent, received, delivered>>
    BY ActiveHasRoute DEF InitiateSyn, outVars, histVars
<1>2. 0 \in Priorities
    BY DistributionAssumption DEF Priorities
<1>3. request \in Packet /\ IsRequest(request) /\ ~IsData(request)
      /\ request.type \notin {"ack", "syn_rep", "message", "part"}
    BY DEF SynRequest, Packet, IsRequest, IsData
<1> HIDE DEF request
<1>4. Peer[n] \in Nodes /\ Peer[n] # n
    BY FlowTypes, <1>2
<1>5. \A k \in Priorities : \A b \in Range(chan[n][k]) : ~IsRequest(b) /\ ~IsData(b)
    BY <1>1 DEF DeliveryInvariant, SynExchange, RequestsKnown, RequestFits,
                FlowInvariant, DataKnown, DataFits
<1>6. \A k \in Priorities : \A b \in Range(chan[Peer[n]][k]) : b.type # "ack" /\ b.type # "syn_rep"
    BY <1>1 DEF DeliveryInvariant, SynExchange, RepliesKnown, ReplyFits,
                FlowInvariant, AcksKnown, AckFits
<1>7. /\ LinkInOrder'
      /\ \A m \in Nodes, q \in Priorities : \A b \in Range(chan'[m][q]) :
             b \in Range(chan[m][q]) \/ (m = n /\ q = 0 /\ b = request)
    <2>1. \A a \in Range(chan[n][0]) : Precedes(a, request)
        BY <1>2, <1>3, <1>5 DEF Precedes
    <2> QED BY <1>1, <1>2, <1>3, <2>1, SendLink DEF DeliveryInvariant
<1>8. SynchronizedIsCreated' /\ DeliveredWasReceived'
    BY <1>1 DEF DeliveryInvariant, SynchronizedIsCreated, DeliveredWasReceived, TypeOK
<1>9. \A m \in Nodes : syn'[m] = IF m = n THEN "requesting" ELSE syn[m]
    BY <1>1 DEF TypeOK
<1>10. ASSUME NEW m \in Nodes, NEW p \in Priorities
       PROVE  RequestsKnown(m, p)' /\ RepliesKnown(m, p)' /\ FlowInvariant(m, p)'
    <2>1. FlowInvariant(m, p) /\ EndsKept(m, p) /\ SynExchange /\ Peer[m] \in Nodes
        BY <1>1, UnchangedEnds, FlowTypes DEF DeliveryInvariant
    <2>2. CASE m # n
        <3>1. RequestsKnown(m, p)' /\ RepliesKnown(m, p)'
            BY ZenonT(60), <1>1, <1>3, <1>7, <1>9, <2>1, <2>2, SameSyn
        <3>2. FlowInvariant(m, p)'
            BY ZenonT(60), <1>1, <1>3, <1>7, <1>9, <2>1, <2>2, SameFlow
        <3> QED BY <3>1, <3>2
    <2>3. CASE m = n
        <3>1. \A k \in Priorities : \A b \in Range(chan'[Peer[n]][k]) : b.type # "ack" /\ b.type # "syn_rep"
            BY <1>4, <1>6, <1>7
        <3>2. \A b \in Range(chan'[n][p]) : ~IsData(b) /\ (IsRequest(b) => p = 0)
            BY <1>3, <1>5, <1>7
        <3>3. RequestsKnown(n, p)' /\ RepliesKnown(n, p)'
            BY <1>1, <1>2, <1>9, <3>1, <3>2 DEF RequestsKnown, RepliesKnown, RequestFits, IsRequest
        <3>4. FlowInvariant(n, p)'
            BY <1>9, <2>1, <2>3, <3>1, <3>2, KeptFlow
        <3> QED BY <2>3, <3>3, <3>4
    <2> QED BY <2>2, <2>3
<1> QED BY <1>7, <1>8, <1>10 DEF DeliveryInvariant, SynExchange

\* A message accepted: its tracker is the last of its flow, with numbers and
\* an id past all those in use.
LEMMA EnqueueKeeps ==
    ASSUME TypeOK, TypeOK', DeliveryInvariant,
           NEW n \in Nodes, NEW p \in Priorities, NEW count \in Nat, EnqueueMessage(n, p, count)
    PROVE  DeliveryInvariant'
<1> DEFINE u == NewTracker(Len(sent) + 1, count, lastSn[n][p] + 1)
           message == [from |-> n, priority |-> p, first |-> lastSn[n][p] + 1, count |-> count]
<1>1. /\ queue' = [queue EXCEPT ![n][p] = Append(queue[n][p], u)]
      /\ lastSn' = [lastSn EXCEPT ![n][p] = LastSn(u)]
      /\ sent' = Append(sent, message)
      /\ created' = [created EXCEPT ![n] = TRUE]
      /\ UNCHANGED <<syn, assembler, chan, link, reachable, received, delivered>>
    BY DEF EnqueueMessage, Enqueued, netVars
<1>2. /\ u.id = Len(sent) + 1 /\ u.count = count /\ u.first = lastSn[n][p] + 1 /\ u.acked = {}
      /\ LastSn(u) = lastSn[n][p] + count
    <2>1. u.id = Len(sent) + 1 /\ u.count = count /\ u.first = lastSn[n][p] + 1 /\ u.acked = {}
        BY DEF NewTracker
    <2>2. lastSn[n][p] \in Nat
        BY FlowTypes
    <2> HIDE DEF u
    <2> QED BY <2>1, <2>2 DEF LastSn
<1>3. message.first = u.first /\ message.count = count
    BY <1>2
<1> HIDE DEF u, message
<1>4. /\ Len(sent) \in Nat /\ Len(sent') = Len(sent) + 1
      /\ sent'[Len(sent) + 1] = message
      /\ \A i \in 1 .. Len(sent) : sent'[i] = sent[i]
    <2>1. sent \in Seq(Message)
        BY DEF TypeOK
    <2>2. message \in Message
        BY FlowTypes DEF message, Message
    <2> QED BY ONLY <1>1, <2>1, <2>2, AppendProperties, LenProperties
<1>5. SentKept
    BY <1>4 DEF SentKept
<1>6. LinkInOrder' /\ DeliveredWasReceived' /\ SynchronizedIsCreated'
    BY <1>1 DEF DeliveryInvariant, LinkInOrder, DeliveredWasReceived, SynchronizedIsCreated, TypeOK
<1>7. SynExchange'
    BY <1>1, SameSyn DEF DeliveryInvariant, SynExchange
<1>8. ASSUME NEW m \in Nodes, NEW q \in Priorities, m # n \/ q # p PROVE FlowInvariant(m, q)'
    <2>1. queue'[m][q] = queue[m][q] /\ lastSn'[m][q] = lastSn[m][q]
        BY ZenonT(60), <1>1, <1>8 DEF TypeOK
    <2>2. EndsKept(m, q) /\ FlowInvariant(m, q)
        BY ZenonT(60), <1>1, <1>5, <2>1 DEF EndsKept, TrackersKept, DeliveryInvariant
    <2> QED BY <1>1, <2>2, SameFlow
<1>9. FlowInvariant(n, p)'
    <2> DEFINE size == Len(queue[n][p])
               last == lastSn[n][p]
    <2>1. /\ size \in Nat /\ last \in Nat /\ (queue[n][p] = <<>> <=> size = 0)
          /\ \A k \in 1 .. size : queue[n][p][k] \in Tracker
          /\ queue[n][p] # <<>> => Front(n, p) = queue[n][p][1]
          /\ Holder(n, p) \in Assembler
        BY FlowTypes
    <2>2. /\ lastSn'[n][p] = last + count
          /\ queue'[n][p] = Append(queue[n][p], u)
          /\ Holder(n, p)' = Holder(n, p)
        BY <1>1, <1>2 DEF TypeOK, Holder
    <2>3. /\ Len(queue'[n][p]) = size + 1
          /\ queue'[n][p][size + 1] = u
          /\ \A k \in 1 .. size : queue'[n][p][k] = queue[n][p][k]
          /\ queue'[n][p] # <<>>
        <3>1. queue[n][p] \in Seq(Tracker)
            BY DEF TypeOK
        <3>2. u \in Tracker
            BY <1>4, <2>1 DEF u, NewTracker, Tracker
        <3> QED BY SMTT(60), <2>2, <3>1, <3>2, AppendProperties
    <2>4. Front(n, p)' = IF queue[n][p] = <<>> THEN u ELSE Front(n, p)
        <3>1. queue[n][p] \in Seq(Tracker)
            BY DEF TypeOK
        <3> QED BY <2>2, <3>1, HeadTailAppend DEF Front
    <2>5. FlowInvariant(n, p)
        BY DEF DeliveryInvariant
    <2>6. QueueInOrder(n, p)'
        <3> DEFINE FitsAs(t, q, k, msgs, limit) ==
                /\ t.id \in 1 .. Len(msgs)
                /\ t.first = msgs[t.id].first
                /\ t.count = msgs[t.id].count
                /\ LastSn(t) <= limit
                /\ t.acked = {} \/ (k = 1 /\ 0 \in t.acked)
                /\ \A j \in 1 .. (k - 1) : q[j].id < t.id /\ LastSn(q[j]) < t.first
                   Fits(q, k, msgs, limit) == FitsAs(q[k], q, k, msgs, limit)
        <3>1. ASSUME NEW k \in 1 .. size PROVE Fits(queue'[n][p], k, sent', lastSn'[n][p])
            <4> DEFINE t == queue[n][p][k]
            <4>1. t \in Tracker /\ Fits(queue[n][p], k, sent, last)
                BY ZenonT(60), <2>1, <2>5 DEF FlowInvariant, QueueInOrder
            <4>2. LastSn(t) \in Int /\ t.id \in Nat
                BY <4>1, TrackerNumbers
            <4>3. /\ t.id \in 1 .. Len(sent) /\ LastSn(t) <= last
                  /\ t.first = sent[t.id].first /\ t.count = sent[t.id].count
                  /\ t.acked = {} \/ (k = 1 /\ 0 \in t.acked)
                BY <4>1
            <4>4. \A j \in 1 .. (k - 1) : queue[n][p][j].id < t.id /\ LastSn(queue[n][p][j]) < t.first
                BY <4>1
            <4>5. queue'[n][p][k] = t
                BY <2>3
            <4> HIDE DEF t
            <4>6. t.id \in 1 .. Len(sent') /\ sent'[t.id] = sent[t.id]
                BY <1>5, <4>3 DEF SentKept
            <4>7. LastSn(t) <= lastSn'[n][p]
                BY <2>1, <2>2, <4>2, <4>3
            <4>8. \A j \in 1 .. (k - 1) : queue'[n][p][j] = queue[n][p][j]
                BY <2>1, <2>3
            <4>9. FitsAs(t, queue'[n][p], k, sent', lastSn'[n][p])
                BY ONLY <4>3, <4>4, <4>6, <4>7, <4>8
            <4> HIDE DEF FitsAs
            <4> QED BY ONLY <4>5, <4>9
        <3>2. Fits(queue'[n][p], size + 1, sent', lastSn'[n][p])
            <4>1. ASSUME NEW j \in 1 .. size
                  PROVE  queue'[n][p][j].id < u.id /\ LastSn(queue'[n][p][j]) < u.first
                <5> DEFINE t == queue[n][p][j]
                <5>1. t \in Tracker /\ t.id \in 1 .. Len(sent) /\ LastSn(t) <= last
                    BY <2>1, <2>5 DEF FlowInvariant, QueueInOrder
                <5>2. LastSn(t) \in Int
                    BY <5>1, TrackerNumbers
                <5>3. queue'[n][p][j] = t
                    BY <2>3
                <5> HIDE DEF t
                <5> QED BY <1>2, <1>4, <2>1, <5>1, <5>2, <5>3
            <4>2. u.id \in 1 .. Len(sent') /\ u.first = sent'[u.id].first /\ u.count = sent'[u.id].count
                BY <1>2, <1>3, <1>4
            <4>3. LastSn(u) <= lastSn'[n][p]
                BY <1>2, <2>1, <2>2
            <4>4. \A j \in 1 .. ((size + 1) - 1) : j \in 1 .. size
                BY <2>1
            <4>5. u.acked = {}
                BY <1>2
            <4>6. queue'[n][p][size + 1] = u
                BY <2>3
            <4>7. \A j \in 1 .. ((size + 1) - 1) :
                      queue'[n][p][j].id < u.id /\ LastSn(queue'[n][p][j]) < u.first
                BY ONLY <4>1, <4>4
            <4> HIDE DEF u, size
            <4>8. FitsAs(u, queue'[n][p], size + 1, sent', lastSn'[n][p])
                BY ONLY <4>2, <4>3, <4>5, <4>7
            <4> HIDE DEF FitsAs
            <4> QED BY ONLY <4>6, <4>8
        <3>3. \A k \in 1 .. Len(queue'[n][p]) : Fits(queue'[n][p], k, sent', lastSn'[n][p])
            <4>1. \A k \in 1 .. Len(queue'[n][p]) : k \in 1 .. size \/ k = size + 1
                BY <2>1, <2>3
            <4> HIDE DEF Fits
            <4> QED BY <3>1, <3>2, <4>1
        <3> QED BY <3>3 DEF QueueInOrder
    <2>7. HolderKnown(n, p)'
        <3>1. HolderKnown(n, p)
            BY <2>5 DEF FlowInvariant
        <3>2. Holder(n, p).id <= Front(n, p)'.id
            BY <1>2, <1>4, <2>1, <2>4, <3>1 DEF HolderKnown, NoAssembler, NoMessage
        <3> QED BY <1>4, <2>2, <3>1, <3>2 DEF HolderKnown
    <2>8. ASSUME NEW b \in Range(chan'[n][p]), IsData(b) PROVE DataFits(n, p, b)'
        <3>1. DataFits(n, p, b) /\ b \in Packet
            BY <1>1, <2>5, <2>8, FlowTypes DEF FlowInvariant, DataKnown
        <3>2. b.sn \in Nat /\ MessageOf(b) \in 1 .. Len(sent)
            BY <2>8, <3>1, PacketFields DEF IsData, DataFits
        <3>3. b.type = "message" => b.id \in 1 .. Len(sent)
            BY <3>2 DEF MessageOf
        <3>4. reachable'[n] /\ syn'[n] = "completed" /\ b.sn <= lastSn'[n][p]
            BY <1>1, <2>1, <2>2, <3>1, <3>2 DEF DataFits
        <3>5. queue[n][p] = <<>> => MessageOf(b) < u.id /\ b.sn < u.first
            BY <1>2, <1>4, <2>1, <3>1, <3>2 DEF DataFits
        <3> QED BY <1>4, <2>2, <2>4, <3>1, <3>2, <3>3, <3>4, <3>5 DEF DataFits, MessageOf, InRange
    <2>9. ASSUME NEW b \in Range(chan'[Peer[n]][p]), b.type = "ack" PROVE AckFits(n, p, b)'
        <3>1. AckFits(n, p, b) /\ b \in Packet
            BY <1>1, <2>5, <2>9, FlowTypes DEF FlowInvariant, AcksKnown
        <3>2. b.sn \in Nat
            BY <2>9, <3>1, PacketFields
        <3>3. reachable'[n] /\ syn'[n] = "completed" /\ b.sn <= lastSn'[n][p]
            BY <1>1, <2>1, <2>2, <3>1, <3>2 DEF AckFits
        <3>4. queue[n][p] = <<>> => b.sn < u.first
            BY <1>2, <2>1, <3>1, <3>2 DEF AckFits
        <3> QED BY <1>1, <2>2, <2>4, <3>1, <3>3, <3>4 DEF AckFits, InRange, Holds, HeadingInFlight
    <2>10. FrontHeld(n, p)'
        BY <1>1, <1>2, <2>2, <2>4, <2>5 DEF FlowInvariant, FrontHeld, Holds
    <2> QED BY <2>6, <2>7, <2>8, <2>9, <2>10 DEF FlowInvariant, DataKnown, AcksKnown
<1> QED BY <1>6, <1>7, <1>8, <1>9 DEF DeliveryInvariant

\* acquire_next_part sends the heading as long as it is not acknowledged.
LEMMA HeadingFirst ==
    ASSUME NEW t \in Tracker, Sendable(t) # {}
    PROVE  /\ NextPart(t) \in 0 .. (t.count - 1)
           /\ NextPart(t) \notin t.acked
           /\ 0 \notin t.acked => NextPart(t) = 0
<1> DEFINE i == NextPart(t)
<1>1. i \in Sendable(t) /\ i \in Nat /\ i < t.count
    BY NextPartIsSendable
<1>2. i \notin t.acked
    BY <1>1 DEF Sendable
<1>3. ASSUME 0 \notin t.acked PROVE i = 0
    <2>1. CASE AwaitingHeading(t)
        BY <1>1, <2>1 DEF Sendable
    <2>2. CASE ~AwaitingHeading(t)
        <3>1. t.current = 0 /\ 0 < t.count
            BY <1>1, <1>3, <2>2 DEF AwaitingHeading, Tracker
        <3>2. ~AwaitingAcks(t) /\ ~OutOfWindow(t)
            BY <1>1 DEF Sendable
        <3>3. 0 \in Sendable(t)
            BY <1>3, <2>2, <3>1, <3>2 DEF Sendable, Indices, Tracker
        <3>4. Sendable(t) \subseteq Nat
            BY DEF Sendable, Indices, Tracker
        <3>5. i <= 0
            BY <3>3, <3>4, MinOfNaturals DEF NextPart
        <3> QED BY <1>1, <3>5
    <2> QED BY <2>1, <2>2
<1> HIDE DEF i
<1>4. i \in 0 .. (t.count - 1)
    BY <1>1 DEF Tracker
<1> QED BY <1>2, <1>3, <1>4 DEF i

\* A part sent is of the message being sent: no later one, and the heading
\* never behind another part of it.
LEMMA SendPartKeeps ==
    ASSUME TypeOK, TypeOK', SuspendedWhileUnreachable, DeliveryInvariant,
           NEW n \in Nodes, SendPart(n)
    PROVE  DeliveryInvariant'
<1>0. PICK p : p = FirstReady(turn[n], Ready(n))
    OBVIOUS
<1> DEFINE t == Front(n, p)
           i == NextPart(t)
           packet == PartPacket(t, i)
           u == AcquirePart(t, i)
<1>1. /\ reachable[n] /\ syn[n] = "completed"
      /\ Send(n, p, packet)
      /\ queue' = SetFront(n, p, u)
      /\ UNCHANGED <<created, syn, lastSn, assembler, link, reachable, sent, received, delivered>>
    BY <1>0, ActiveHasRoute DEF SendPart, synVars, histVars
<1>2. p \in Priorities /\ queue[n][p] # <<>> /\ Sendable(t) # {}
    <2>1. turn[n] \in PriorityTracker /\ Ready(n) \subseteq Priorities /\ Ready(n) # {}
        BY DEF SendPart, TypeOK, Ready, Busy
    <2>2. p \in Ready(n)
        BY <1>0, <2>1, FirstReadyIsReady
    <2> QED BY <2>1, <2>2 DEF Ready, Busy
<1>3. t \in Tracker /\ t = queue[n][p][1]
    BY <1>2, FlowTypes
<1>4. i \in 0 .. (t.count - 1) /\ i \notin t.acked /\ (0 \notin t.acked => i = 0)
    BY <1>2, <1>3, HeadingFirst
<1>5. u.id = t.id /\ u.first = t.first /\ u.count = t.count /\ u.acked = t.acked
    BY <1>3 DEF AcquirePart, Tracker
<1>6. /\ packet \in Packet /\ IsData(packet) /\ MessageOf(packet) = t.id
      /\ packet.sn = t.first + i
      /\ packet.type = IF i = 0 THEN "message" ELSE "part"
      /\ i = 0 => packet.last = LastSn(t)
      /\ packet.type = "message" => packet.id = t.id
    <2>1. /\ t.id \in Nat /\ t.first \in Nat /\ t.first + i \in Nat
          /\ i = 0 => LastSn(t) \in Nat
        BY <1>3, <1>4 DEF LastSn, Tracker
    <2> HIDE DEF t, i
    <2> QED BY <2>1 DEF PartPacket, Packet, IsData, MessageOf
<1> HIDE DEF packet, u, i
<1>7. FlowInvariant(n, p)
    BY <1>2 DEF DeliveryInvariant
<1>8. /\ t.id \in 1 .. Len(sent) /\ t.first = sent[t.id].first /\ t.count = sent[t.id].count
      /\ LastSn(t) <= lastSn[n][p]
      /\ t.acked = {} \/ 0 \in t.acked
    BY <1>2, <1>3, <1>7, FlowTypes DEF FlowInvariant, QueueInOrder
<1> HIDE DEF t
<1>9. ASSUME NEW m \in Nodes, NEW q \in Priorities PROVE EndsKept(m, q)
    <2>1. queue \in [Nodes -> [Priorities -> Seq(Tracker)]]
        BY DEF TypeOK
    <2>2. m # n \/ q # p => queue'[m][q] = queue[m][q]
        BY <1>1, <2>1 DEF SetFront
    <2>3. queue'[n][p] = [queue[n][p] EXCEPT ![1] = u]
        BY <1>1, <1>2, <2>1 DEF SetFront
    <2>4. queue[n][p] \in Seq(Tracker)
        BY <1>2, <2>1
    <2>5. /\ Len(queue'[n][p]) = Len(queue[n][p])
          /\ \A k \in 1 .. Len(queue[n][p]) :
                 queue'[n][p][k] = IF k = 1 THEN u ELSE queue[n][p][k]
        BY <2>3, <2>4
    <2>6. TrackersKept(m, q)
        BY ZenonT(60), <1>3, <1>5, <2>2, <2>5 DEF TrackersKept
    <2> QED BY <1>1, <2>6 DEF EndsKept, SentKept
<1>10. \A a \in Range(chan[n][p]) : Precedes(a, packet)
    <2> SUFFICES ASSUME NEW a \in Range(chan[n][p]) PROVE Precedes(a, packet)
        OBVIOUS
    <2>1. ~IsRequest(a)
        BY <1>1, <1>2 DEF DeliveryInvariant, SynExchange, RequestsKnown, RequestFits
    <2>2. packet.type # "syn_rep"
        BY <1>6
    <2>3. ASSUME IsData(a) PROVE /\ MessageOf(a) <= MessageOf(packet)
                                 /\ MessageOf(a) = MessageOf(packet) /\ packet.type = "message" => a.type = "message"
        <3>1. DataFits(n, p, a)
            BY <1>7, <2>3 DEF FlowInvariant, DataKnown
        <3>2. MessageOf(a) \in Nat /\ t.id \in Nat
            BY <1>3, <3>1 DEF DataFits, Tracker
        <3>3. \/ MessageOf(a) < t.id
              \/ MessageOf(a) = t.id /\ (a.type = "part" => 0 \in t.acked)
            BY <1>2, <3>1 DEF DataFits, t
        <3>4. packet.type = "message" => 0 \notin t.acked
            BY <1>4, <1>6
        <3> QED BY <1>6, <2>3, <3>2, <3>3, <3>4 DEF IsData
    <2> QED BY <2>1, <2>2, <2>3 DEF Precedes
<1>11. /\ LinkInOrder'
       /\ \A m \in Nodes, q \in Priorities : \A b \in Range(chan'[m][q]) :
              b \in Range(chan[m][q]) \/ (m = n /\ q = p /\ b = packet)
    BY <1>1, <1>2, <1>6, <1>10, SendLink DEF DeliveryInvariant
<1>12. ~IsRequest(packet) /\ packet.type # "syn_rep" /\ packet.type # "ack"
    BY <1>6 DEF IsRequest
<1>13. SynchronizedIsCreated' /\ DeliveredWasReceived'
    BY <1>1 DEF DeliveryInvariant, SynchronizedIsCreated, DeliveredWasReceived
<1>14. ASSUME NEW m \in Nodes, NEW q \in Priorities
       PROVE  RequestsKnown(m, q)' /\ RepliesKnown(m, q)'
    <2>1. Peer[m] \in Nodes /\ SynExchange
        BY FlowTypes DEF DeliveryInvariant
    <2>2. \A k \in Priorities : \A b \in Range(chan'[m][k]) : IsRequest(b) => b \in Range(chan[m][k])
        BY <1>11, <1>12
    <2>3. \A k \in Priorities : \A b \in Range(chan'[Peer[m]][k]) :
              b.type = "syn_rep" => b \in Range(chan[Peer[m]][k])
        BY <1>11, <1>12, <2>1
    <2> QED BY <1>1, <2>1, <2>2, <2>3, SameSyn
<1>15. DataFits(n, p, packet)
    <2>1. Holder(n, p).id <= t.id
        BY <1>2, <1>7 DEF FlowInvariant, HolderKnown, t
    <2>2. packet.sn <= LastSn(t) /\ t.first <= packet.sn /\ LastSn(t) \in Int /\ packet.sn \in Nat
        BY <1>3, <1>4, <1>6 DEF LastSn, Tracker
    <2>3. packet.sn <= lastSn[n][p]
        BY <1>2, <1>8, <2>2, FlowTypes
    <2>4. IF packet.type = "part" THEN 0 \in t.acked ELSE t.acked \subseteq {0}
        BY <1>4, <1>6, <1>8
    <2>5. packet.type = "message" =>
              /\ packet.sn = sent[packet.id].first
              /\ packet.last = sent[packet.id].first + sent[packet.id].count - 1
              /\ packet.sn <= packet.last
        <3>1. t.first \in Nat /\ t.count \in Nat
            BY <1>3, TrackerNumbers
        <3>2. packet.type = "message" => packet.sn = t.first /\ packet.last = LastSn(t) /\ packet.id = t.id
            <4>1. packet.type = "message" => i = 0 /\ packet.id = t.id
                BY <1>6
            <4>2. packet.sn = t.first + i /\ (i = 0 => packet.last = LastSn(t))
                BY <1>6
            <4> QED BY ONLY <3>1, <4>1, <4>2
        <3>3. LastSn(t) = sent[t.id].first + sent[t.id].count - 1
            BY <1>8 DEF LastSn
        <3> QED BY ONLY <1>8, <2>2, <3>2, <3>3
    <2> QED BY <1>1, <1>6, <1>8, <2>1, <2>2, <2>3, <2>4, <2>5 DEF DataFits, InRange, t
<1>16. FlowInvariant(n, p)'
    <2>1. QueueInOrder(n, p)' /\ HolderKnown(n, p)' /\ FrontHeld(n, p)'
        BY <1>1, <1>2, <1>7, <1>9, KeptQueue, KeptHolder, KeptFrontHeld DEF FlowInvariant
    <2>2. DataKnown(n, p)'
        <3>1. \A b \in Range(chan'[n][p]) : IsData(b) => DataFits(n, p, b)
            BY <1>2, <1>7, <1>11, <1>15 DEF FlowInvariant, DataKnown
        <3> QED BY <1>1, <1>2, <1>9, <3>1, KeptData DEF DataKnown, IsData
    <2>3. AcksKnown(n, p)'
        <3>1. \A b \in Range(chan'[Peer[n]][p]) : b.type = "ack" => AckFits(n, p, b)
            BY ZenonT(60), <1>2, <1>7, <1>11, <1>12, FlowTypes DEF FlowInvariant, AcksKnown
        <3>2. \A c \in Range(chan'[n][p]) : c.type = "message" =>
                  c \in Range(chan[n][p]) \/ 0 \notin t.acked
            BY <1>2, <1>4, <1>6, <1>11
        <3> QED BY <1>1, <1>2, <1>9, <3>1, <3>2, KeptAck DEF AcksKnown, t
    <2> QED BY <2>1, <2>2, <2>3 DEF FlowInvariant
<1>17. ASSUME NEW m \in Nodes, NEW q \in Priorities, m # n \/ q # p PROVE FlowInvariant(m, q)'
    <2>1. FlowInvariant(m, q) /\ EndsKept(m, q) /\ Peer[m] \in Nodes
        BY <1>9, FlowTypes DEF DeliveryInvariant
    <2>2. \A b \in Range(chan'[m][q]) : IsData(b) => b \in Range(chan[m][q])
        BY <1>11, <1>17
    <2>3. \A b \in Range(chan'[Peer[m]][q]) : b.type = "ack" => b \in Range(chan[Peer[m]][q])
        BY <1>11, <1>12, <2>1
    <2> QED BY <1>1, <2>1, <2>2, <2>3, SameFlow
<1> QED BY <1>11, <1>13, <1>14, <1>16, <1>17 DEF DeliveryInvariant, SynExchange
-----------------------------------------------------------------------------
(***************************************************************************)
(* The packets of the SYN exchange.                                        *)
(***************************************************************************)

\* The answer to a SYN request: the requester waits for it, so its own parts
\* and their acknowledgements are gone, and the answer is the only one.
LEMMA AnswerKeeps ==
    ASSUME TypeOK, TypeOK', DeliveryInvariant, NEW n \in Nodes, NEW p \in Priorities,
           NEW type \in {"syn_rst", "syn_req"},
           Exchange(n, p, type, 0, <<SynReply(assembler'[n])>>),
           \A q \in Priorities : assembler'[n][q] \in {assembler[n][q], NoAssembler},
           \A m \in Nodes : m # n => assembler'[m] = assembler[m],
           UNCHANGED <<syn, queue, lastSn, received, delivered>>
    PROVE  DeliveryInvariant'
<1> DEFINE s == Peer[n]
           packet == Incoming(n, p)
           reply == SynReply(assembler'[n])
<1>0. 0 \in Priorities
    BY DistributionAssumption DEF Priorities
<1>1. s \in Nodes /\ s # n /\ Peer[s] = n /\ \A m \in Nodes : Peer[m] \in Nodes /\ (m # s => Peer[m] # n)
    BY DeliveryAssumption
<1>2. /\ packet.type = type
      /\ created' = [created EXCEPT ![n] = TRUE]
      /\ UNCHANGED <<link, reachable, sent>>
    BY DEF Exchange
<1>3. packet \in Range(chan[s][p])
    <2>1. chan[s][p] # <<>> /\ chan[s][p] \in Seq(Packet)
        BY SMTT(60), <1>1 DEF Exchange, Receivable, TypeOK
    <2> QED BY <1>1, <2>1, ReadPacket DEF DeliveryInvariant, LinkInOrder, Incoming
<1> HIDE DEF packet
<1>4. IsRequest(packet)
    BY <1>2 DEF IsRequest
<1>5. /\ p = 0 /\ reachable[s] /\ syn[s] = "requesting"
      /\ \A b \in Range(chan[n][0]) : b.type # "syn_rep"
    BY <1>1, <1>3, <1>4 DEF DeliveryInvariant, SynExchange, RequestsKnown, RequestFits
<1>6. /\ reply \in Packet /\ reply.type = "syn_rep"
      /\ \A q \in Priorities : reply.sns[q] = <<assembler'[n][q].id, LowestAckedSn(assembler'[n][q])>>
    <2>1. \A q \in Priorities : assembler'[n][q].id \in Nat /\ LowestAckedSn(assembler'[n][q]) \in Nat
        <3>1. \A q \in Priorities : assembler'[n][q] \in Assembler
            BY DEF TypeOK
        <3> QED BY <3>1, AssemblerTypes DEF Assembler
    <2> QED BY <2>1 DEF SynReply, Packet
<1> HIDE DEF reply
<1>7. ~IsRequest(reply) /\ ~IsData(reply) /\ reply.type # "ack"
    BY <1>6 DEF IsRequest, IsData
<1>8. /\ LinkInOrder'
      /\ \A b \in Range(chan'[s][p]) : Precedes(packet, b)
      /\ \A m \in Nodes, k \in Priorities : \A b \in Range(chan'[m][k]) :
             b \in Range(chan[m][k]) \/ (m = n /\ k = 0 /\ b = reply)
    <2>1. \A a \in Range(chan[n][0]) : Precedes(a, reply)
        BY <1>5, <1>7 DEF Precedes
    <2>2. MayFollow(n, 0, <<reply>>)
        BY <1>6, <2>1 DEF MayFollow
    <2>3. Exchange(n, p, type, 0, <<reply>>) /\ LinkInOrder
        BY DEF reply, DeliveryInvariant
    <2>4. LinkAfter(n, p, 0, <<reply>>)
        BY <1>0, <2>2, <2>3, ExchangeLink
    <2>5. \A b : <<reply>> = <<b>> => b = reply
        OBVIOUS
    <2> QED BY <2>4, <2>5 DEF LinkAfter, packet
<1>9. \A q \in Priorities : Holder(s, q)' = assembler'[n][q] /\ Holder(s, q) = assembler[n][q]
    BY <1>1 DEF Holder
<1>10. SynchronizedIsCreated' /\ DeliveredWasReceived'
    BY <1>2 DEF DeliveryInvariant, SynchronizedIsCreated, DeliveredWasReceived, TypeOK
<1> HIDE DEF s
<1>11. ASSUME NEW k \in Priorities PROVE RequestsKnown(s, k)' /\ RepliesKnown(s, k)' /\ FlowInvariant(s, k)'
    <2>1. \A b \in Range(chan'[s][k]) : b \in Range(chan[s][k])
        BY <1>1, <1>8
    <2>2. RequestsKnown(s, k)'
        <3>1. \A b \in Range(chan'[s][k]) : ~IsRequest(b)
            BY <1>1, <1>4, <1>5, <1>8, <2>1
               DEF DeliveryInvariant, SynExchange, RequestsKnown, RequestFits, Precedes
        <3> QED BY <3>1 DEF RequestsKnown, IsRequest
    <2>3. RepliesKnown(s, k)'
        <3>1. ASSUME NEW b \in Range(chan'[n][k]), b.type = "syn_rep"
              PROVE  k = 0 /\ b = reply
            <4>1. b \in Range(chan[n][k]) => k = 0
                BY <1>1, <3>1 DEF DeliveryInvariant, SynExchange, RepliesKnown, ReplyFits
            <4> QED BY <1>5, <1>8, <3>1, <4>1
        <3>2. \A b \in Range(chan'[n][k]) : b.type = "syn_rep" => ReplyFits(s, k, b)'
            BY <1>2, <1>5, <1>6, <1>9, <3>1 DEF ReplyFits
        <3> QED BY <1>1, <3>2 DEF RepliesKnown
    <2>4. FlowInvariant(s, k)
        BY <1>1 DEF DeliveryInvariant
    <2>5. DataKnown(s, k)'
        <3>1. \A b \in Range(chan'[s][k]) : ~IsData(b)
            BY <1>5, <2>1, <2>4 DEF FlowInvariant, DataKnown, DataFits
        <3> QED BY <3>1 DEF DataKnown, IsData
    <2>6. AcksKnown(s, k)'
        <3>1. \A b \in Range(chan'[n][k]) : b.type # "ack"
            BY <1>1, <1>5, <1>7, <1>8, <2>4 DEF FlowInvariant, AcksKnown, AckFits
        <3> QED BY <1>1, <3>1 DEF AcksKnown
    <2>7. FrontHeld(s, k)' /\ QueueInOrder(s, k)'
        BY SMTT(60), <1>2, <1>5, <2>4 DEF FrontHeld, FlowInvariant, QueueInOrder
    <2>8. HolderKnown(s, k)'
        <3>1. queue'[s][k] # <<>> => Front(s, k)' = Front(s, k) /\ Front(s, k).id \in Nat
            BY <1>1, FlowTypes DEF Front, Tracker
        <3>2. HolderKnown(s, k)
            BY <2>4 DEF FlowInvariant
        <3>3. CASE Holder(s, k)' = Holder(s, k)
            BY <1>2, <3>1, <3>2, <3>3 DEF HolderKnown
        <3>4. CASE Holder(s, k)' = NoAssembler
            BY <3>1, <3>4 DEF HolderKnown, NoAssembler, NoMessage
        <3> QED BY <1>9, <3>3, <3>4
    <2> QED BY <2>2, <2>3, <2>5, <2>6, <2>7, <2>8 DEF FlowInvariant
<1>12. ASSUME NEW m \in Nodes, NEW k \in Priorities, m # s
       PROVE  RequestsKnown(m, k)' /\ RepliesKnown(m, k)' /\ FlowInvariant(m, k)'
    <2>1. Peer[m] \in Nodes /\ Peer[m] # n /\ assembler'[Peer[m]] = assembler[Peer[m]]
        BY <1>1, <1>12
    <2>2. EndsKept(m, k) /\ FlowInvariant(m, k) /\ SynExchange
        BY <1>2, <2>1, UnchangedEnds DEF DeliveryInvariant
    <2>3. \A j \in Priorities : \A b \in Range(chan'[m][j]) :
              IsRequest(b) \/ IsData(b) => b \in Range(chan[m][j])
        BY <1>7, <1>8
    <2>4. \A j \in Priorities : \A b \in Range(chan'[Peer[m]][j]) : b \in Range(chan[Peer[m]][j])
        BY <1>8, <2>1
    <2>5. RequestsKnown(m, k)' /\ RepliesKnown(m, k)'
        BY <1>2, <2>1, <2>2, <2>3, <2>4, SameSyn
    <2>6. FlowInvariant(m, k)'
        BY <1>2, <2>2, <2>3, <2>4, SameFlow
    <2> QED BY <2>5, <2>6
<1> QED BY <1>8, <1>10, <1>11, <1>12 DEF DeliveryInvariant, SynExchange

\* The receiver has every part up to the serial number it replies with.
LEMMA PrefixHeld ==
    ASSUME NEW a \in Assembler, LowestAckedSn(a) # 0,
           NEW i \in Nat, i <= LowestAckedSn(a) - a.first
    PROVE  i \in a.got
<1> DEFINE missing == (1 .. (a.last - a.first)) \ a.got
<1>1. 0 \in a.got
    BY DEF LowestAckedSn
<1>2. a.first \in Nat /\ a.last \in Nat
    BY DEF Assembler
<1>3. CASE missing = {}
    <2>1. LowestAckedSn(a) = a.first
        BY <1>1, <1>3 DEF LowestAckedSn
    <2> QED BY <1>1, <1>2, <2>1
<1>4. CASE missing # {}
    <2>1. missing \subseteq Nat
        BY <1>2
    <2>2. PICK low : low = Min(missing)
        OBVIOUS
    <2>3. low \in missing /\ \A x \in missing : low <= x
        BY ONLY <1>4, <2>1, <2>2, MinOfNaturals
    <2>4. LowestAckedSn(a) = a.first + low - 1
        BY <1>1, <1>4, <2>2 DEF LowestAckedSn
    <2>5. low \in Nat /\ low <= a.last - a.first
        <3>1. low \in 1 .. (a.last - a.first)
            BY ONLY <2>3
        <3>2. a.last - a.first \in Int
            BY ONLY <1>2
        <3> QED BY ONLY <3>1, <3>2
    <2>6. i < low
        <3>1. PICK reply : reply = LowestAckedSn(a) /\ i <= reply - a.first
            OBVIOUS
        <3>2. reply = a.first + low - 1
            BY ONLY <2>4, <3>1
        <3> QED BY ONLY <1>2, <2>5, <3>1, <3>2, i \in Nat
    <2>7. i = 0 \/ i \in 1 .. (a.last - a.first)
        BY ONLY <1>2, <2>5, <2>6, i \in Nat
    <2>8. i \notin missing
        <3>1. ~(low <= i)
            BY ONLY <2>5, <2>6, i \in Nat
        <3> QED BY ONLY <2>3, <3>1
    <2> QED BY ONLY <1>1, <2>7, <2>8
<1> QED BY <1>3, <1>4

\* What a tracker holds acknowledged after reset_to.
LEMMA ResetAcked ==
    ASSUME NEW t \in Tracker, NEW id, NEW sn \in Nat, id = t.id /\ sn # 0 => InRange(t, sn)
    PROVE  LET u == ResetTo(t, id, sn)
           IN  /\ u.id = t.id /\ u.first = t.first /\ u.count = t.count
               /\ \/ u.acked = {}
                  \/ id = t.id /\ sn # 0 /\ 0 \in u.acked /\ u.acked = 0 .. (sn - t.first)
<1>1. CASE sn = 0 \/ id # t.id
    BY <1>1 DEF ResetTo, ResetTracker, NewTracker
<1>2. CASE ~(sn = 0 \/ id # t.id)
    <2>1. sn - t.first \in Nat
        BY <1>2 DEF InRange, Tracker
    <2> QED BY <1>2, <2>1 DEF ResetTo, Tracker
<1> QED BY <1>1, <1>2

\* The SYN reply: the sender goes on from where its receiver is.
LEMMA SynReplyKeeps ==
    ASSUME TypeOK, TypeOK', DeliveryInvariant, NEW n \in Nodes, NEW p \in Priorities,
           ReceiveSynRep(n, p)
    PROVE  DeliveryInvariant'
<1>0. PICK s : s = Peer[n]
    OBVIOUS
<1>1. s \in Nodes /\ s # n /\ Peer[s] = n /\ \A m \in Nodes : Peer[m] \in Nodes
    BY <1>0, DeliveryAssumption
<1>2. PICK packet : packet = Incoming(n, p)
    OBVIOUS
<1>3. /\ packet.type = "syn_rep"
      /\ created' = [created EXCEPT ![n] = TRUE]
      /\ UNCHANGED <<link, reachable, sent, lastSn, assembler, received, delivered>>
      /\ syn' = [syn EXCEPT ![n] = "completed"]
      /\ ReplyMatches(n, packet.sns)
      /\ queue' = [queue EXCEPT ![n] = [q \in Priorities |->
             IF q \in Busy(n)
             THEN [queue[n][q] EXCEPT ![1] = ResetTo(Front(n, q), packet.sns[q][1], packet.sns[q][2])]
             ELSE <<>>]]
    BY <1>2 DEF ReceiveSynRep, Exchange
<1>4. 0 \in Priorities
    BY DistributionAssumption DEF Priorities
<1>5. /\ LinkInOrder'
      /\ packet \in Range(chan[s][p])
      /\ \A b \in Range(chan'[s][p]) : Precedes(packet, b)
      /\ \A m \in Nodes, k \in Priorities : \A b \in Range(chan'[m][k]) : b \in Range(chan[m][k])
    <2>1. Exchange(n, p, "syn_rep", 0, <<>>) /\ LinkInOrder
        BY DEF ReceiveSynRep, DeliveryInvariant
    <2> QED BY <1>0, <1>2, <1>4, <2>1, ReadLink
<1>6. /\ p = 0 /\ reachable[n] /\ syn[n] = "requesting"
      /\ \A q \in Priorities :
             packet.sns[q] = <<Holder(n, q).id, LowestAckedSn(Holder(n, q))>>
    BY <1>0, <1>3, <1>5 DEF DeliveryInvariant, SynExchange, RepliesKnown, ReplyFits
<1>7. \A k \in Priorities : \A b \in Range(chan[n][k]) : ~IsRequest(b) /\ ~IsData(b)
    <2>1. \A k \in Priorities : \A b \in Range(chan[n][k]) : ~IsRequest(b)
        BY <1>0, <1>3, <1>5, <1>6 DEF DeliveryInvariant, SynExchange, RequestsKnown, RequestFits
    <2>2. \A k \in Priorities : \A b \in Range(chan[n][k]) : ~IsData(b)
        BY <1>6 DEF DeliveryInvariant, FlowInvariant, DataKnown, DataFits
    <2> QED BY <2>1, <2>2
<1>8. \A k \in Priorities : \A b \in Range(chan[s][k]) : b.type # "ack" /\ (b.type = "syn_rep" => k = 0)
    BY <1>0, <1>6 DEF DeliveryInvariant, SynExchange, RepliesKnown, ReplyFits,
                      FlowInvariant, AcksKnown, AckFits
<1>9. \A m \in Nodes : syn'[m] = IF m = n THEN "completed" ELSE syn[m]
    BY <1>3 DEF TypeOK
<1>10. SynchronizedIsCreated' /\ DeliveredWasReceived'
    BY <1>3, <1>9 DEF DeliveryInvariant, SynchronizedIsCreated, DeliveredWasReceived, TypeOK
<1>11. ASSUME NEW m \in Nodes, NEW k \in Priorities, m # n
       PROVE  RequestsKnown(m, k)' /\ RepliesKnown(m, k)' /\ FlowInvariant(m, k)'
    <2>1. queue'[m] = queue[m]
        BY <1>3, <1>11 DEF TypeOK
    <2>2. EndsKept(m, k) /\ FlowInvariant(m, k) /\ SynExchange
        BY <1>3, <2>1, UnchangedEnds DEF DeliveryInvariant
    <2>3. RequestsKnown(m, k)' /\ RepliesKnown(m, k)'
        BY <1>1, <1>3, <1>5, <1>9, <1>11, <2>2, SameSyn
    <2>4. FlowInvariant(m, k)'
        BY <1>1, <1>3, <1>5, <1>9, <1>11, <2>2, SameFlow
    <2> QED BY <2>3, <2>4
<1>12. ASSUME NEW k \in Priorities PROVE RequestsKnown(n, k)' /\ RepliesKnown(n, k)'
    <2>1. \A b \in Range(chan'[n][k]) : ~IsRequest(b)
        BY <1>5, <1>7
    <2>2. \A b \in Range(chan'[s][k]) : b.type # "syn_rep"
        BY <1>1, <1>3, <1>5, <1>6, <1>8 DEF Precedes
    <2> QED BY <1>0, <2>1, <2>2 DEF RequestsKnown, RepliesKnown, IsRequest
<1>13. ASSUME NEW k \in Priorities PROVE FlowInvariant(n, k)'
    <2>1. FlowInvariant(n, k)
        BY DEF DeliveryInvariant
    <2>2. DataKnown(n, k)' /\ AcksKnown(n, k)'
        <3>1. \A b \in Range(chan'[n][k]) : ~IsData(b)
            BY <1>5, <1>7
        <3>2. \A b \in Range(chan'[s][k]) : b.type # "ack"
            BY <1>1, <1>5, <1>8
        <3> QED BY <1>0, <3>1, <3>2 DEF DataKnown, AcksKnown, IsData
    <2>3. Holder(n, k)' = Holder(n, k) /\ Holder(n, k) \in Assembler
        BY <1>3, FlowTypes DEF Holder
    <2>4. CASE queue[n][k] = <<>>
        <3>1. queue'[n][k] = <<>>
            BY <1>3, <2>4 DEF Busy, TypeOK
        <3>2. QueueInOrder(n, k)'
            <4>1. \A j \in 1 .. 0 : FALSE
                OBVIOUS
            <4>2. Len(queue'[n][k]) = 0
                BY <3>1
            <4> QED BY ONLY <4>1, <4>2 DEF QueueInOrder
        <3>3. HolderKnown(n, k)'
            <4>1. HolderKnown(n, k) /\ sent' = sent
                BY <1>3, <2>1 DEF FlowInvariant
            <4> QED BY ONLY <2>3, <3>1, <4>1 DEF HolderKnown
        <3>4. FrontHeld(n, k)'
            BY ONLY <3>1 DEF FrontHeld
        <3> QED BY ONLY <2>2, <3>2, <3>3, <3>4 DEF FlowInvariant
    <2>5. CASE queue[n][k] # <<>>
        <3>1. PICK t : t = Front(n, k)
            OBVIOUS
        <3>2. PICK u : u = ResetTo(t, Holder(n, k).id, LowestAckedSn(Holder(n, k)))
            OBVIOUS
        <3>3. t \in Tracker /\ t = queue[n][k][1] /\ queue[n][k] \in Seq(Tracker)
            <4>1. queue[n][k] \in Seq(Tracker)
                BY DEF TypeOK
            <4> QED BY <2>5, <3>1, <4>1, FlowTypes
        <3>4. Holder(n, k).id = t.id /\ LowestAckedSn(Holder(n, k)) # 0 =>
                  InRange(t, LowestAckedSn(Holder(n, k)))
            BY <1>3, <1>6, <2>5, <3>1 DEF ReplyMatches, Busy
        <3>5. LowestAckedSn(Holder(n, k)) \in Nat
            BY <2>3, AssemblerTypes
        <3>6. /\ u.id = t.id /\ u.first = t.first /\ u.count = t.count
              /\ \/ u.acked = {}
                 \/ /\ Holder(n, k).id = t.id /\ LowestAckedSn(Holder(n, k)) # 0
                    /\ 0 \in u.acked
                    /\ u.acked = 0 .. (LowestAckedSn(Holder(n, k)) - t.first)
            BY <3>2, <3>3, <3>4, <3>5, ResetAcked
        <3>7. queue'[n][k] = [queue[n][k] EXCEPT ![1] = u]
            <4>1. k \in Busy(n)
                BY <2>5 DEF Busy
            <4>2. packet.sns[k][1] = Holder(n, k).id /\ packet.sns[k][2] = LowestAckedSn(Holder(n, k))
                <5>1. PICK pair : pair = packet.sns[k]
                    OBVIOUS
                <5>2. PICK id, sn : id = Holder(n, k).id /\ sn = LowestAckedSn(Holder(n, k))
                    OBVIOUS
                <5>3. pair = <<id, sn>>
                    BY <1>6, <5>1, <5>2
                <5>4. pair[1] = id /\ pair[2] = sn
                    BY <5>3
                <5> QED BY <5>1, <5>2, <5>4
            <4>3. queue'[n][k] =
                      [queue[n][k] EXCEPT ![1] = ResetTo(Front(n, k), packet.sns[k][1], packet.sns[k][2])]
                BY <1>3, <4>1 DEF TypeOK
            <4> QED BY <3>1, <3>2, <4>2, <4>3
        <3>8. /\ Len(queue'[n][k]) = Len(queue[n][k])
              /\ Len(queue[n][k]) \in Nat \ {0}
              /\ \A j \in 1 .. Len(queue[n][k]) :
                     queue'[n][k][j] = IF j = 1 THEN u ELSE queue[n][k][j]
              /\ queue'[n][k] # <<>> /\ Front(n, k)' = u
            BY <2>5, <3>3, <3>7, EmptySeq, LenProperties DEF Front
        <3>9. QueueInOrder(n, k)'
            <4>1. QueueInOrder(n, k)
                BY <2>1 DEF FlowInvariant
            <4>2. LastSn(u) = LastSn(t)
                BY <3>6 DEF LastSn
            <4>3. \A j \in 1 .. Len(queue[n][k]) :
                      /\ queue'[n][k][j].id = queue[n][k][j].id
                      /\ queue'[n][k][j].first = queue[n][k][j].first
                      /\ queue'[n][k][j].count = queue[n][k][j].count
                      /\ LastSn(queue'[n][k][j]) = LastSn(queue[n][k][j])
                BY <3>3, <3>6, <3>8, <4>2
            <4>4. \A j \in 1 .. Len(queue[n][k]) :
                      queue'[n][k][j].acked = {} \/ (j = 1 /\ 0 \in queue'[n][k][j].acked)
                BY SMTT(60), <3>6, <3>8, <4>1 DEF QueueInOrder
            <4>5. \A j \in 1 .. Len(queue[n][k]) : \A i \in 1 .. (j - 1) : i \in 1 .. Len(queue[n][k])
                BY <3>8
            <4>6. sent' = sent /\ lastSn' = lastSn
                BY <1>3
            <4>7. ASSUME NEW j \in 1 .. Len(queue[n][k])
                  PROVE  LET w == queue'[n][k][j]
                         IN  /\ w.id \in 1 .. Len(sent')
                             /\ w.first = sent'[w.id].first
                             /\ w.count = sent'[w.id].count
                             /\ LastSn(w) <= lastSn'[n][k]
                             /\ \A i \in 1 .. (j - 1) :
                                    queue'[n][k][i].id < w.id /\ LastSn(queue'[n][k][i]) < w.first
                <5>1. LET w == queue[n][k][j]
                      IN  /\ w.id \in 1 .. Len(sent)
                          /\ w.first = sent[w.id].first
                          /\ w.count = sent[w.id].count
                          /\ LastSn(w) <= lastSn[n][k]
                          /\ \A i \in 1 .. (j - 1) :
                                 queue[n][k][i].id < w.id /\ LastSn(queue[n][k][i]) < w.first
                    BY ONLY <4>1, <4>7 DEF QueueInOrder
                <5> QED BY ONLY <4>3, <4>5, <4>6, <4>7, <5>1
            <4>8. Len(queue'[n][k]) = Len(queue[n][k])
                BY <3>8
            <4> QED BY ONLY <4>4, <4>7, <4>8 DEF QueueInOrder
        <3>10. HolderKnown(n, k)'
            BY <1>3, <2>1, <2>3, <2>5, <3>1, <3>6, <3>8 DEF FlowInvariant, HolderKnown
        <3>11. FrontHeld(n, k)'
            <4> SUFFICES ASSUME NEW i \in u.acked PROVE Holds(n, k, u, i)'
                BY <3>8 DEF FrontHeld
            <4> DEFINE a == Holder(n, k)
            <4>1. /\ a.id = t.id /\ LowestAckedSn(a) # 0
                  /\ i \in 0 .. (LowestAckedSn(a) - t.first)
                BY <3>6
            <4>2. a.first = t.first
                <5>1. /\ t.id \in 1 .. Len(sent) /\ t.first = sent[t.id].first
                    BY <2>1, <3>3, <3>8 DEF FlowInvariant, QueueInOrder
                <5>2. a # NoAssembler
                    BY <4>1, <5>1 DEF NoAssembler, NoMessage
                <5> QED BY <2>1, <4>1, <5>1, <5>2 DEF FlowInvariant, HolderKnown
            <4>3. i \in a.got
                BY <2>3, <3>5, <4>1, <4>2, PrefixHeld
            <4> QED BY <2>3, <3>6, <4>1, <4>3 DEF Holds
        <3> QED BY <2>2, <3>9, <3>10, <3>11 DEF FlowInvariant
    <2> QED BY <2>4, <2>5
<1> QED BY <1>5, <1>10, <1>11, <1>12, <1>13 DEF DeliveryInvariant, SynExchange
-----------------------------------------------------------------------------
(***************************************************************************)
(* Acknowledgements.                                                       *)
(***************************************************************************)

\* An acknowledgement that is not of the message being sent, and a part that
\* no heading has preceded, change nothing.
LEMMA IgnoredKeeps ==
    ASSUME TypeOK, TypeOK', DeliveryInvariant, NEW n \in Nodes, NEW p \in Priorities,
           IgnoreAck(n, p) \/ IgnorePart(n, p)
    PROVE  DeliveryInvariant'
<1>1. PICK type : Exchange(n, p, type, p, <<>>)
    BY DEF IgnoreAck, IgnorePart
<1>2. LinkInOrder' /\ \A m \in Nodes, k \in Priorities : Range(chan'[m][k]) \subseteq Range(chan[m][k])
    BY <1>1, ReadLink DEF DeliveryInvariant
<1>3. (\A m \in Nodes : created[m] => created'[m]) /\ UNCHANGED <<link, reachable, sent>>
    BY <1>1 DEF Exchange, TypeOK
<1>4. UNCHANGED <<syn, queue, lastSn, assembler, received, delivered>>
    BY DEF IgnoreAck, IgnorePart, outVars
<1>5. \A m \in Nodes, k \in Priorities : TrackersKept(m, k)
    BY <1>4 DEF TrackersKept
<1> QED BY <1>2, <1>3, <1>4, <1>5, QuietStep

\* A receiver that holds every part of a message has handed it over.
LEMMA AllHeldIsReceived ==
    ASSUME TypeOK, NEW n \in Nodes, NEW p \in Priorities, HolderKnown(n, p),
           NEW t \in Tracker, t.id \in 1 .. Len(sent), t.first = sent[t.id].first,
           t.count = sent[t.id].count, Indices(t) # {},
           \A i \in Indices(t) : Holds(n, p, t, i)
    PROVE  t.id \in received
<1> SUFFICES ASSUME t.id \notin received PROVE FALSE
    OBVIOUS
<1> DEFINE a == Holder(n, p)
<1>1. a.id = t.id /\ Indices(t) \subseteq a.got
    BY DEF Holds
<1>2. a # NoAssembler
    BY <1>1 DEF NoAssembler, NoMessage
<1>3. /\ a.first = t.first
      /\ a.last = t.first + t.count - 1
      /\ a.got \subseteq 0 .. (a.last - a.first)
      /\ ~IsAssembled(a)
    BY <1>1, <1>2 DEF HolderKnown
<1>4. 0 .. (a.last - a.first) = Indices(t)
    BY <1>3 DEF Indices, Tracker
<1> QED BY <1>1, <1>3, <1>4 DEF IsAssembled

\* An acknowledgement of the message being sent: the receiver has had that
\* part, so when it was the last one missing the receiver has had them all.
LEMMA AckKeeps ==
    ASSUME TypeOK, TypeOK', DeliveryInvariant, NEW n \in Nodes, NEW p \in Priorities,
           ReceiveAck(n, p)
    PROVE  DeliveryInvariant'
<1>0. PICK s, packet, t, sn :
          s = Peer[n] /\ packet = Incoming(n, p) /\ t = Front(n, p) /\ sn = packet.sn
    OBVIOUS
<1>1. s \in Nodes /\ s # n /\ Peer[s] = n /\ \A m \in Nodes : Peer[m] \in Nodes
    BY <1>0, DeliveryAssumption
<1>2. Exchange(n, p, "ack", p, <<>>) /\ link = "up" /\ packet.type = "ack"
    BY <1>0 DEF ReceiveAck, Exchange, Receivable
<1>3. /\ LinkInOrder'
      /\ packet \in Range(chan[s][p])
      /\ \A m \in Nodes, k \in Priorities : Range(chan'[m][k]) \subseteq Range(chan[m][k])
    BY <1>0, <1>2, ReadLink DEF DeliveryInvariant
<1>4. /\ created' = [created EXCEPT ![n] = TRUE]
      /\ UNCHANGED <<link, reachable, sent, syn, lastSn, assembler, received>>
    BY <1>2 DEF ReceiveAck, Exchange
<1>5. queue[n][p] # <<>> /\ InRange(t, sn)
    BY <1>0 DEF ReceiveAck, Acknowledges
<1>6. FlowInvariant(n, p)
    BY DEF DeliveryInvariant
<1>7. /\ t \in Tracker /\ t = queue[n][p][1] /\ queue[n][p] \in Seq(Tracker)
      /\ Len(queue[n][p]) \in Nat \ {0}
      /\ \A k \in 1 .. Len(queue[n][p]) : queue[n][p][k] \in Tracker
    <2>1. queue[n][p] \in Seq(Tracker)
        BY DEF TypeOK
    <2> QED BY <1>0, <1>5, <2>1, FlowTypes
<1>8. packet \in Packet /\ sn \in Nat
    <2>1. packet \in Packet
        BY <1>1, <1>3, FlowTypes
    <2> QED BY <1>0, <1>2, <2>1, PacketFields
<1> DEFINE i == sn - t.first
<1>9. /\ reachable[n] /\ syn[n] = "completed"
      /\ Holds(n, p, t, i)
      /\ i = 0 \/ (0 \in t.acked /\ ~HeadingInFlight(n, p, t))
    <2>1. AckFits(n, p, packet)
        BY <1>0, <1>2, <1>3, <1>6 DEF FlowInvariant, AcksKnown
    <2>2. t.first \in Nat
        BY <1>7 DEF Tracker
    <2>3. ~(sn < t.first)
        BY <1>5, <1>8, <2>2 DEF InRange
    <2> QED BY <1>0, <1>5, <1>8, <2>1, <2>2, <2>3 DEF AckFits
<1>10. i \in Indices(t) /\ t.first <= sn /\ sn <= LastSn(t)
    <2>1. t.first \in Nat /\ t.count \in Nat
        BY <1>7 DEF Tracker
    <2>2. t.first <= sn /\ sn <= t.first + t.count - 1
        BY <1>5 DEF InRange, LastSn
    <2>3. i \in 0 .. (t.count - 1)
        BY <1>8, <2>1, <2>2
    <2> QED BY <1>5, <2>3 DEF Indices, InRange
<1>11. /\ t.id \in 1 .. Len(sent) /\ t.first = sent[t.id].first /\ t.count = sent[t.id].count
       /\ t.acked = {} \/ 0 \in t.acked
    BY <1>6, <1>7 DEF FlowInvariant, QueueInOrder
<1>12. \A j \in t.acked \cup {i} : Holds(n, p, t, j)
    BY <1>0, <1>2, <1>5, <1>6, <1>9 DEF FlowInvariant, FrontHeld
<1>13. Holder(n, p)' = Holder(n, p)
    BY <1>4 DEF Holder
<1>14. queue \in [Nodes -> [Priorities -> Seq(Tracker)]]
    BY DEF TypeOK
<1> DEFINE u == TrackerAcknowledge(t, sn)
<1>15. u.id = t.id /\ u.first = t.first /\ u.count = t.count /\ u.acked = t.acked \cup {i}
    BY <1>7 DEF TrackerAcknowledge, Tracker
<1>16. \/ /\ IsComplete(u)
          /\ queue' = [queue EXCEPT ![n][p] = Tail(queue[n][p])]
          /\ delivered' = delivered \cup {t.id}
       \/ /\ queue' = SetFront(n, p, u)
          /\ delivered' = delivered
    BY <1>0 DEF ReceiveAck
<1> HIDE DEF i, u
<1>17. \A m \in Nodes, k \in Priorities : m # n \/ k # p => queue'[m][k] = queue[m][k]
    BY <1>14, <1>16 DEF SetFront
<1>18. SynchronizedIsCreated'
    BY <1>4 DEF DeliveryInvariant, SynchronizedIsCreated, TypeOK
<1>19. ASSUME NEW m \in Nodes, NEW k \in Priorities
       PROVE  RequestsKnown(m, k)' /\ RepliesKnown(m, k)'
    BY <1>1, <1>3, <1>4, SameSyn DEF DeliveryInvariant
<1>20. ASSUME NEW m \in Nodes, NEW k \in Priorities, m # n \/ k # p
       PROVE  FlowInvariant(m, k)'
    <2>1. EndsKept(m, k) /\ FlowInvariant(m, k)
        BY <1>4, <1>17, <1>20, UnchangedEnds DEF DeliveryInvariant
    <2> QED BY <1>1, <1>3, <1>4, <2>1, SameFlow
<1>21. CASE /\ IsComplete(u)
            /\ queue' = [queue EXCEPT ![n][p] = Tail(queue[n][p])]
            /\ delivered' = delivered \cup {t.id}
    <2>1. t.id \in received
        BY ZenonT(60), <1>6, <1>7, <1>10, <1>11, <1>12, <1>15, <1>21, AllHeldIsReceived
           DEF IsComplete, Indices, FlowInvariant
    <2>2. DeliveredWasReceived'
        BY <1>4, <1>21, <2>1 DEF DeliveryInvariant, DeliveredWasReceived
    <2>3. FlowInvariant(n, p)'
        <3> DEFINE q == queue[n][p]
        <3>1. queue'[n][p] = Tail(q)
            BY <1>14, <1>21
        <3>2. /\ Len(queue'[n][p]) = Len(q) - 1
              /\ \A k \in 1 .. (Len(q) - 1) : queue'[n][p][k] = q[k + 1]
              /\ queue'[n][p] # <<>> => 2 \in 1 .. Len(q) /\ Front(n, p)' = q[2]
            <4>1. Tail(q) \in Seq(Tracker) /\ Len(Tail(q)) = Len(q) - 1
                  /\ \A k \in 1 .. Len(Tail(q)) : Tail(q)[k] = q[k + 1]
                BY <1>5, <1>7, HeadTailProperties
            <4>2. Tail(q) # <<>> => Len(q) - 1 # 0 /\ Head(Tail(q)) = Tail(q)[1]
                BY SMTT(60), <4>1, EmptySeq
            <4> QED BY <1>7, <3>1, <4>1, <4>2 DEF Front
        <3>3. \A k \in 1 .. (Len(q) - 1) : k + 1 \in 1 .. Len(q) /\ k + 1 # 1
            BY <1>7
        <3>4. QueueInOrder(n, p)
            BY <1>6 DEF FlowInvariant
        <3>5. QueueInOrder(n, p)'
            <4>1. ASSUME NEW k \in 1 .. (Len(q) - 1), NEW v, v = q[k + 1]
                  PROVE  /\ v.id \in 1 .. Len(sent)
                         /\ v.first = sent[v.id].first
                         /\ v.count = sent[v.id].count
                         /\ LastSn(v) <= lastSn[n][p]
                         /\ v.acked = {}
                         /\ \A j \in 1 .. (k - 1) :
                                queue'[n][p][j].id < v.id /\ LastSn(queue'[n][p][j]) < v.first
                <5>1. PICK m \in 1 .. Len(q) : m = k + 1 /\ m # 1
                    BY <3>3
                <5>2. /\ v.id \in 1 .. Len(sent)
                      /\ v.first = sent[v.id].first
                      /\ v.count = sent[v.id].count
                      /\ LastSn(v) <= lastSn[n][p]
                      /\ v.acked = {}
                      /\ \A j \in 1 .. (m - 1) : q[j].id < v.id /\ LastSn(q[j]) < v.first
                    BY <3>4, <4>1, <5>1 DEF QueueInOrder
                <5>3. \A j \in 1 .. (k - 1) :
                          j + 1 \in 1 .. (m - 1) /\ queue'[n][p][j] = q[j + 1]
                    BY SMTT(60), <1>7, <3>2, <5>1
                <5> QED BY <5>2, <5>3
            <4>2. /\ 1 .. Len(queue'[n][p]) = 1 .. (Len(q) - 1)
                  /\ \A k \in 1 .. (Len(q) - 1) : queue'[n][p][k] = q[k + 1]
                  /\ sent' = sent /\ lastSn' = lastSn
                BY <1>4, <3>2
            <4>3. ASSUME NEW k \in 1 .. Len(queue'[n][p])
                  PROVE  LET v == queue'[n][p][k]
                         IN  /\ v.id \in 1 .. Len(sent')
                             /\ v.first = sent'[v.id].first
                             /\ v.count = sent'[v.id].count
                             /\ LastSn(v) <= lastSn'[n][p]
                             /\ v.acked = {} \/ (k = 1 /\ 0 \in v.acked)
                             /\ \A j \in 1 .. (k - 1) :
                                    queue'[n][p][j].id < v.id /\ LastSn(queue'[n][p][j]) < v.first
                <5>1. PICK v : v = queue'[n][p][k]
                    OBVIOUS
                <5>2. k \in 1 .. (Len(q) - 1) /\ v = q[k + 1] /\ sent' = sent /\ lastSn' = lastSn
                    BY <4>2, <5>1
                <5>3. /\ v.id \in 1 .. Len(sent)
                      /\ v.first = sent[v.id].first
                      /\ v.count = sent[v.id].count
                      /\ LastSn(v) <= lastSn[n][p]
                      /\ v.acked = {}
                      /\ \A j \in 1 .. (k - 1) :
                             queue'[n][p][j].id < v.id /\ LastSn(queue'[n][p][j]) < v.first
                    BY ZenonT(60), <4>1, <5>2
                <5> QED BY <5>1, <5>2, <5>3, Zenon
            <4> QED BY <4>3 DEF QueueInOrder
        <3>6. queue'[n][p] # <<>> =>
                  /\ Front(n, p)' \in Tracker
                  /\ t.id < Front(n, p)'.id
                  /\ LastSn(t) < Front(n, p)'.first
                  /\ Front(n, p)'.acked = {}
            BY <1>7, <3>2, <3>4 DEF QueueInOrder
        <3> HIDE DEF q
        <3>7. HolderKnown(n, p)'
            <4>1. HolderKnown(n, p) /\ Holder(n, p).id <= t.id
                BY <1>0, <1>5, <1>6 DEF FlowInvariant, HolderKnown
            <4>2. queue'[n][p] # <<>> => Holder(n, p).id <= Front(n, p)'.id
                <5>1. Holder(n, p).id \in Nat /\ t.id \in Nat
                    BY <1>7, FlowTypes DEF Assembler, Tracker
                <5>2. queue'[n][p] # <<>> => Front(n, p)'.id \in Nat
                    BY <3>6 DEF Tracker
                <5> QED BY <3>6, <4>1, <5>1, <5>2
            <4> QED BY <1>4, <1>13, <4>1, <4>2 DEF HolderKnown
        <3>8. LastSn(t) \in Int /\ t.id \in Nat /\ t.first \in Nat
            <4>1. t.id \in Nat /\ t.first \in Nat /\ t.count \in Nat
                BY <1>7 DEF Tracker
            <4> QED BY <4>1 DEF LastSn
        <3>9. ASSUME NEW b \in Range(chan'[n][p]), IsData(b) PROVE DataFits(n, p, b)'
            <4>1. DataFits(n, p, b) /\ b \in Packet
                BY <1>3, <1>6, <3>9, FlowTypes DEF FlowInvariant, DataKnown
            <4>2. b.sn \in Nat /\ MessageOf(b) \in Nat
                BY <3>9, <4>1, PacketFields DEF IsData, DataFits
            <4>3. MessageOf(b) <= t.id /\ (b.sn < t.first \/ b.sn <= LastSn(t)) /\ t.first <= LastSn(t)
                BY <1>0, <1>5, <1>8, <1>10, <3>8, <4>1, <4>2 DEF DataFits, InRange
            <4>4. queue'[n][p] # <<>> => MessageOf(b) < Front(n, p)'.id /\ b.sn < Front(n, p)'.first
                <5>1. queue'[n][p] # <<>> => Front(n, p)'.id \in Nat /\ Front(n, p)'.first \in Nat
                    BY <3>6 DEF Tracker
                <5> QED BY <3>6, <3>8, <4>2, <4>3, <5>1
            <4> QED BY <1>4, <1>13, <4>1, <4>4 DEF DataFits, MessageOf
        <3>10. ASSUME NEW b \in Range(chan'[s][p]), b.type = "ack" PROVE AckFits(n, p, b)'
            <4>1. AckFits(n, p, b) /\ b \in Packet
                BY ZenonT(60), <1>0, <1>1, <1>3, <1>6, <3>10, FlowTypes DEF FlowInvariant, AcksKnown
            <4>2. b.sn \in Nat
                BY <3>10, <4>1, PacketFields
            <4>3. (b.sn < t.first \/ b.sn <= LastSn(t)) /\ t.first <= LastSn(t)
                BY <1>0, <1>5, <1>8, <1>10, <3>8, <4>1, <4>2 DEF AckFits, InRange
            <4>4. queue'[n][p] # <<>> => b.sn < Front(n, p)'.first
                <5>1. queue'[n][p] # <<>> => Front(n, p)'.first \in Nat
                    BY <3>6 DEF Tracker
                <5> QED BY <3>6, <3>8, <4>2, <4>3, <5>1
            <4> QED BY <1>4, <4>1, <4>4 DEF AckFits
        <3>11. FrontHeld(n, p)'
            BY <3>6 DEF FrontHeld
        <3> QED BY <1>0, <3>5, <3>7, <3>9, <3>10, <3>11 DEF FlowInvariant, DataKnown, AcksKnown
    <2> QED BY <1>3, <1>18, <1>19, <1>20, <2>2, <2>3 DEF DeliveryInvariant, SynExchange
<1>22. CASE queue' = SetFront(n, p, u) /\ delivered' = delivered
    <2>1. DeliveredWasReceived'
        BY <1>4, <1>22 DEF DeliveryInvariant, DeliveredWasReceived
    <2>2. FlowInvariant(n, p)'
        <3>1. queue'[n][p] = [queue[n][p] EXCEPT ![1] = u]
            BY <1>14, <1>22 DEF SetFront
        <3>2. /\ Len(queue'[n][p]) = Len(queue[n][p])
              /\ \A k \in 1 .. Len(queue[n][p]) :
                     queue'[n][p][k] = IF k = 1 THEN u ELSE queue[n][p][k]
              /\ queue'[n][p] # <<>> /\ Front(n, p)' = u
            BY <1>5, <1>7, <3>1 DEF Front
        <3>3. LastSn(u) = LastSn(t)
            BY <1>15 DEF LastSn
        <3>4. 0 \in u.acked
            BY <1>9, <1>15
        <3>5. QueueInOrder(n, p)'
            <4>1. QueueInOrder(n, p)
                BY <1>6 DEF FlowInvariant
            <4>2. \A j \in 1 .. Len(queue[n][p]) :
                      /\ queue'[n][p][j].id = queue[n][p][j].id
                      /\ queue'[n][p][j].first = queue[n][p][j].first
                      /\ queue'[n][p][j].count = queue[n][p][j].count
                      /\ LastSn(queue'[n][p][j]) = LastSn(queue[n][p][j])
                BY <1>7, <1>15, <3>2, <3>3
            <4>3. \A j \in 1 .. Len(queue[n][p]) :
                      queue'[n][p][j].acked = {} \/ (j = 1 /\ 0 \in queue'[n][p][j].acked)
                BY ZenonT(60), <3>2, <3>4, <4>1 DEF QueueInOrder
            <4>4. \A j \in 1 .. Len(queue[n][p]) : \A k \in 1 .. (j - 1) : k \in 1 .. Len(queue[n][p])
                BY <1>7
            <4> QED BY ZenonT(60), <1>4, <3>2, <4>1, <4>2, <4>3, <4>4 DEF QueueInOrder
        <3>6. HolderKnown(n, p)'
            BY <1>0, <1>4, <1>5, <1>6, <1>13, <1>15, <3>2 DEF FlowInvariant, HolderKnown
        <3>7. ASSUME NEW b \in Range(chan'[n][p]), IsData(b) PROVE DataFits(n, p, b)'
            <4>1. DataFits(n, p, b) /\ b \in Range(chan[n][p])
                BY <1>3, <1>6, <3>7 DEF FlowInvariant, DataKnown
            <4>2. b.type = "message" /\ MessageOf(b) = t.id => i = 0
                BY <1>9, <4>1 DEF HeadingInFlight, MessageOf
            <4>3. MessageOf(b) = t.id =>
                      IF b.type = "part" THEN 0 \in u.acked ELSE u.acked \subseteq {0}
                <5>1. ASSUME MessageOf(b) = t.id, b.type # "part" PROVE u.acked \subseteq {0}
                    <6>1. b.type = "message"
                        BY <3>7, <5>1 DEF IsData
                    <6>2. t.acked \subseteq {0}
                        <7>1. t.id \in Nat
                            BY <1>7 DEF Tracker
                        <7> QED BY <1>0, <1>5, <4>1, <5>1, <7>1 DEF DataFits
                    <6> QED BY <1>15, <4>2, <5>1, <6>1, <6>2
                <5> QED BY <3>4, <5>1
            <4> QED BY <1>0, <1>4, <1>5, <1>13, <1>15, <3>2, <3>3, <4>1, <4>3
                    DEF DataFits, MessageOf, InRange
        <3>8. ASSUME NEW b \in Range(chan'[s][p]), b.type = "ack" PROVE AckFits(n, p, b)'
            <4>1. AckFits(n, p, b)
                BY <1>0, <1>1, <1>3, <1>6, <3>8 DEF FlowInvariant, AcksKnown
            <4>2. ~HeadingInFlight(n, p, t) => ~HeadingInFlight(n, p, u)'
                BY <1>3, <1>15 DEF HeadingInFlight
            <4>3. \A j : Holds(n, p, t, j) => Holds(n, p, u, j)'
                BY <1>4, <1>13, <1>15 DEF Holds
            <4>4. \/ b.sn < t.first
                  \/ /\ InRange(t, b.sn) /\ Holds(n, p, t, b.sn - t.first)
                     /\ b.sn = t.first \/ (0 \in t.acked /\ ~HeadingInFlight(n, p, t))
                BY <1>0, <1>5, <4>1 DEF AckFits
            <4>5. \/ b.sn < u.first
                  \/ /\ InRange(u, b.sn) /\ Holds(n, p, u, b.sn - u.first)'
                     /\ b.sn = u.first \/ (0 \in u.acked /\ ~HeadingInFlight(n, p, u)')
                BY <1>15, <3>3, <4>2, <4>3, <4>4 DEF InRange
            <4> QED BY <1>4, <3>2, <4>1, <4>5 DEF AckFits, Holds, HeadingInFlight
        <3>9. FrontHeld(n, p)'
            BY <1>4, <1>12, <1>13, <1>15, <3>2 DEF FrontHeld, Holds
        <3> QED BY <1>0, <3>5, <3>6, <3>7, <3>8, <3>9 DEF FlowInvariant, DataKnown, AcksKnown
    <2> QED BY <1>3, <1>18, <1>19, <1>20, <2>1, <2>2 DEF DeliveryInvariant, SynExchange
<1> QED BY <1>16, <1>21, <1>22
-----------------------------------------------------------------------------
(***************************************************************************)
(* Parts.                                                                  *)
(***************************************************************************)

\* The link after n has read a packet at p and acknowledged the sequence number
\* sn, or nothing: it is in order, and only the acknowledgement has been added.
AckedAfter(n, p, sn) ==
    /\ LinkInOrder'
    /\ \A b \in Range(chan'[Peer[n]][p]) : Precedes(Incoming(n, p), b)
    /\ \A m \in Nodes, k \in Priorities : \A b \in Range(chan'[m][k]) :
           b \in Range(chan[m][k]) \/ (m = n /\ k = p /\ b.type = "ack" /\ b.sn = sn)

\* A part read, and its acknowledgement, if any.
LEMMA AckLink ==
    ASSUME TypeOK, LinkInOrder, NEW n \in Nodes, NEW p \in Priorities,
           NEW sn \in Nat, NEW type, Exchange(n, p, type, p, Ack(n, sn))
    PROVE  AckedAfter(n, p, sn)
<1> DEFINE ack == [type |-> "ack", sn |-> sn]
           replies == Ack(n, sn)
<1>1. ack \in Packet /\ \A b \in Range(chan[n][p]) : Precedes(b, ack)
    BY DEF Packet, Precedes, IsData, IsRequest
<1>2. replies = <<>> \/ replies = <<ack>>
    BY DEF Ack
<1>3. ack.type = "ack" /\ ack.sn = sn
    OBVIOUS
<1>4. Exchange(n, p, type, p, replies)
    OBVIOUS
<1> HIDE DEF ack, replies
<1>5. MayFollow(n, p, replies)
    BY <1>1, <1>2 DEF MayFollow
<1>6. LinkAfter(n, p, p, replies)
    BY <1>4, <1>5, ExchangeLink
<1>7. \A b : replies = <<b>> => b = ack
    BY <1>2
<1> QED BY <1>3, <1>6, <1>7 DEF LinkAfter, AckedAfter

\* The assembler a is that of a message sent, no later than that of the packet.
FitsMessage(packet, a) ==
    /\ a.id \in 1 .. Len(sent) /\ a.first = sent[a.id].first
    /\ a.last = sent[a.id].first + sent[a.id].count - 1
    /\ a.got \subseteq 0 .. (a.last - a.first)
    /\ a.id <= MessageOf(packet)

\* The assembler a has what the sender may count on, the packet's part with it.
FitsFront(s, p, packet, type, a) ==
    queue[s][p] # <<>> =>
        LET t == Front(s, p)
            Had(i) == t.id \in received \/ (a.id = t.id /\ i \in a.got)
        IN  /\ \A i : Holds(s, p, t, i) /\ (i = 0 \/ ~HeadingInFlight(s, p, t)) => Had(i)
            /\ \A i \in t.acked : Holds(s, p, t, i) => Had(i)
            /\ \/ packet.sn < t.first
               \/ /\ MessageOf(packet) = t.id
                  /\ InRange(t, packet.sn)
                  /\ Had(packet.sn - t.first)
                  /\ packet.sn = t.first \/ (0 \in t.acked /\ type = "part")

\* A part read and filed in the assembler that becomes a: the flow agrees
\* still when a has what the sender may count on, and the acknowledgement
\* tells of the part just filed.
LEMMA DataKeeps ==
    ASSUME TypeOK, TypeOK', DeliveryInvariant,
           NEW n \in Nodes, NEW p \in Priorities, NEW s, s = Peer[n],
           NEW packet, packet = Incoming(n, p),
           NEW type \in {"message", "part"}, NEW a \in Assembler,
           Exchange(n, p, type, p, Ack(n, packet.sn)),
           KeepOrHandOver(n, p, a),
           UNCHANGED <<syn, queue, lastSn, delivered>>,
           FitsMessage(packet, a), FitsFront(s, p, packet, type, a)
    PROVE  DeliveryInvariant'
<1> USE DEF FitsMessage, FitsFront
<1>1. s \in Nodes /\ s # n /\ Peer[s] = n /\ \A m \in Nodes : Peer[m] \in Nodes /\ (m # s => Peer[m] # n)
    BY DeliveryAssumption
<1>2. /\ packet.type = type /\ link = "up"
      /\ created' = [created EXCEPT ![n] = TRUE]
      /\ UNCHANGED <<link, reachable, sent>>
    BY DEF Exchange, Receivable
<1>3. packet \in Range(chan[s][p]) /\ packet \in Packet
    <2>1. chan[s][p] # <<>> /\ chan[s][p] \in Seq(Packet)
        BY SMTT(60), <1>1 DEF Exchange, Receivable, TypeOK
    <2>2. packet \in Range(chan[s][p])
        BY <1>1, <2>1, ReadPacket DEF DeliveryInvariant, LinkInOrder, Incoming
    <2> QED BY <1>1, <2>2, FlowTypes
<1>4. IsData(packet) /\ packet.sn \in Nat
    BY <1>2, <1>3, PacketFields DEF IsData
<1>5. FlowInvariant(s, p)
    BY <1>1 DEF DeliveryInvariant
<1>6. DataFits(s, p, packet)
    BY <1>3, <1>4, <1>5 DEF FlowInvariant, DataKnown
<1>7. reachable[s] /\ syn[s] = "completed"
    BY <1>6 DEF DataFits
<1>8. /\ LinkInOrder'
      /\ \A b \in Range(chan'[s][p]) : Precedes(packet, b)
      /\ \A m \in Nodes, k \in Priorities : \A b \in Range(chan'[m][k]) :
             b \in Range(chan[m][k]) \/ (m = n /\ k = p /\ b.type = "ack" /\ b.sn = packet.sn)
    <2>1. LinkInOrder
        BY DEF DeliveryInvariant
    <2>2. AckedAfter(n, p, packet.sn)
        <3>1. TypeOK /\ n \in Nodes /\ p \in Priorities /\ Exchange(n, p, type, p, Ack(n, packet.sn))
            OBVIOUS
        <3> QED BY ONLY <1>4, <2>1, <3>1, AckLink
    <2>3. s = Peer[n] /\ packet = Incoming(n, p)
        OBVIOUS
    <2> QED BY ONLY <2>2, <2>3 DEF AckedAfter
<1>9. /\ \A m \in Nodes, k \in Priorities : m # n \/ k # p => assembler'[m][k] = assembler[m][k]
      /\ \A m \in Nodes : m # n => assembler'[m] = assembler[m]
      /\ \/ IsAssembled(a) /\ assembler'[n][p] = NoAssembler /\ received' = received \cup {a.id}
         \/ ~IsAssembled(a) /\ assembler'[n][p] = a /\ received' = received
    <2>1. assembler' = [assembler EXCEPT ![n][p] = IF IsAssembled(a) THEN NoAssembler ELSE a]
        BY DEF KeepOrHandOver
    <2>2. assembler \in [Nodes -> [Priorities -> Assembler]]
        BY DEF TypeOK
    <2> QED BY <2>1, <2>2 DEF KeepOrHandOver
<1>10. SynchronizedIsCreated' /\ DeliveredWasReceived'
    BY ZenonT(60), <1>2, <1>9 DEF DeliveryInvariant, SynchronizedIsCreated, DeliveredWasReceived, TypeOK
<1>11. ASSUME NEW m \in Nodes, NEW k \in Priorities
       PROVE  RequestsKnown(m, k)' /\ RepliesKnown(m, k)'
    <2>1. CASE m # s
        <3>1. Peer[m] \in Nodes /\ assembler'[Peer[m]] = assembler[Peer[m]] /\ SynExchange
            BY <1>1, <1>9, <2>1 DEF DeliveryInvariant
        <3>2. \A j \in Priorities : \A b \in Range(chan'[m][j]) : IsRequest(b) => b \in Range(chan[m][j])
            BY <1>8 DEF IsRequest
        <3>3. \A j \in Priorities : \A b \in Range(chan'[Peer[m]][j]) :
                  b.type = "syn_rep" => b \in Range(chan[Peer[m]][j])
            BY <1>8, <3>1
        <3> QED BY <1>2, <3>1, <3>2, <3>3, SameSyn
    <2>2. CASE m = s
        <3>1. \A b \in Range(chan'[s][k]) : ~IsRequest(b)
            BY <1>1, <1>7, <1>8 DEF DeliveryInvariant, SynExchange, RequestsKnown, RequestFits, IsRequest
        <3>2. \A b \in Range(chan'[n][k]) : b.type # "syn_rep"
            BY <1>1, <1>7, <1>8 DEF DeliveryInvariant, SynExchange, RepliesKnown, ReplyFits
        <3> QED BY <1>1, <2>2, <3>1, <3>2 DEF RequestsKnown, RepliesKnown, IsRequest
    <2> QED BY <2>1, <2>2
<1>12. ASSUME NEW m \in Nodes, NEW k \in Priorities, m # s \/ k # p
       PROVE  FlowInvariant(m, k)'
    <2>1. Peer[m] \in Nodes /\ assembler'[Peer[m]][k] = assembler[Peer[m]][k]
        BY <1>1, <1>9, <1>12
    <2>2. EndsKept(m, k) /\ FlowInvariant(m, k)
        BY <1>2, <1>9, <2>1, UnchangedEnds DEF DeliveryInvariant
    <2>3. \A b \in Range(chan'[m][k]) : IsData(b) => b \in Range(chan[m][k])
        BY <1>8 DEF IsData
    <2>4. \A b \in Range(chan'[Peer[m]][k]) : b.type = "ack" => b \in Range(chan[Peer[m]][k])
        BY <1>1, <1>8, <1>12, <2>1
    <2> QED BY <1>2, <2>2, <2>3, <2>4, SameFlow
<1>13. FlowInvariant(s, p)'
    <2>1. PICK t : t = Front(s, p)
        OBVIOUS
    <2>2. Front(s, p)' = t
        BY <2>1 DEF Front
    <2>3. queue[s][p] # <<>> => t \in Tracker
        BY <1>1, <2>1, FlowTypes
    <2>4. /\ Holder(s, p)' = assembler'[n][p]
          /\ Holder(s, p)'.id \in {NoMessage, a.id}
        BY <1>1, <1>9 DEF Holder, NoAssembler
    <2>5. \A i : t.id \in received \/ (a.id = t.id /\ i \in a.got) => Holds(s, p, t, i)'
        BY <1>9, <2>4 DEF Holds
    <2>6. HeadingInFlight(s, p, t)' => HeadingInFlight(s, p, t)
        BY <1>1, <1>8 DEF HeadingInFlight
    <2>7. QueueInOrder(s, p)'
        BY ZenonT(60), <1>2, <1>5 DEF FlowInvariant, QueueInOrder
    <2>8. a.id \in Nat /\ MessageOf(packet) \in Nat
        BY <1>6 DEF DataFits
    <2>9. HolderKnown(s, p)'
        <3>1. queue[s][p] # <<>> => a.id <= t.id
            BY <1>6, <2>1, <2>3, <2>8 DEF DataFits, Tracker
        <3>2. queue[s][p] # <<>> => Holder(s, p)'.id <= t.id
            BY <2>3, <2>4, <3>1 DEF Tracker, NoMessage
        <3> QED BY <1>2, <1>9, <2>2, <2>4, <3>2 DEF HolderKnown
    <2>10. ASSUME NEW b \in Range(chan'[s][p]), IsData(b) PROVE DataFits(s, p, b)'
        <3>1. DataFits(s, p, b)
            BY <1>1, <1>5, <1>8, <2>10 DEF FlowInvariant, DataKnown
        <3>2. MessageOf(packet) <= MessageOf(b) /\ MessageOf(b) \in Nat
            BY <1>4, <1>8, <2>10, <3>1 DEF Precedes, DataFits
        <3>3. Holder(s, p)'.id <= MessageOf(b)
            BY <2>4, <2>8, <3>2 DEF NoMessage
        <3> QED BY <1>2, <2>1, <2>2, <3>1, <3>3 DEF DataFits, MessageOf
    <2>11. ASSUME NEW b \in Range(chan'[n][p]), b.type = "ack" PROVE AckFits(s, p, b)'
        <3>1. CASE b \in Range(chan[n][p])
            <4>1. AckFits(s, p, b)
                BY <1>1, <1>5, <2>11, <3>1 DEF FlowInvariant, AcksKnown
            <4>2. queue[s][p] # <<>> /\ ~(b.sn < t.first) => Holds(s, p, t, b.sn - t.first)'
                <5> SUFFICES ASSUME queue[s][p] # <<>>, ~(b.sn < t.first)
                             PROVE  Holds(s, p, t, b.sn - t.first)'
                    OBVIOUS
                <5>1. /\ Holds(s, p, t, b.sn - t.first)
                      /\ b.sn = t.first \/ ~HeadingInFlight(s, p, t)
                    BY <2>1, <4>1 DEF AckFits
                <5>2. t.first \in Nat
                    BY <2>3 DEF Tracker
                <5>3. b.sn - t.first = 0 \/ ~HeadingInFlight(s, p, t)
                    BY <5>1, <5>2
                <5>4. t.id \in received \/ (a.id = t.id /\ b.sn - t.first \in a.got)
                    BY <2>1, <5>1, <5>3
                <5> QED BY <2>5, <5>4
            <4>3. queue[s][p] # <<>> =>
                      \/ b.sn < t.first
                      \/ /\ InRange(t, b.sn)
                         /\ Holds(s, p, t, b.sn - t.first)'
                         /\ b.sn = t.first \/ (0 \in t.acked /\ ~HeadingInFlight(s, p, t)')
                BY <2>1, <2>6, <4>1, <4>2 DEF AckFits
            <4> QED BY <1>2, <2>2, <4>1, <4>3 DEF AckFits, Holds, HeadingInFlight
        <3>2. CASE b.sn = packet.sn
            <4>1. type = "part" /\ MessageOf(packet) = t.id => ~HeadingInFlight(s, p, t)'
                BY <1>2, <1>4, <1>8 DEF HeadingInFlight, Precedes, MessageOf, IsData
            <4>2. queue[s][p] # <<>> =>
                      \/ b.sn < t.first
                      \/ /\ InRange(t, b.sn)
                         /\ Holds(s, p, t, b.sn - t.first)'
                         /\ b.sn = t.first \/ (0 \in t.acked /\ ~HeadingInFlight(s, p, t)')
                BY <2>1, <2>5, <3>2, <4>1
            <4>3. b.sn <= lastSn[s][p]
                BY <1>6, <3>2 DEF DataFits
            <4> QED BY <1>2, <1>7, <2>2, <4>2, <4>3 DEF AckFits, Holds, HeadingInFlight
        <3> QED BY <1>1, <1>8, <2>11, <3>1, <3>2
    <2>12. FrontHeld(s, p)'
        <3> SUFFICES ASSUME queue[s][p] # <<>>, NEW i \in t.acked PROVE Holds(s, p, t, i)'
            BY <2>2 DEF FrontHeld, Holds
        <3>1. Holds(s, p, t, i)
            BY <1>2, <1>5, <1>7, <2>1 DEF FlowInvariant, FrontHeld
        <3> QED BY <2>1, <2>5, <3>1
    <2> QED BY <1>1, <2>7, <2>9, <2>10, <2>11, <2>12 DEF FlowInvariant, DataKnown, AcksKnown
<1> QED BY <1>8, <1>10, <1>11, <1>12, <1>13 DEF DeliveryInvariant, SynExchange

\* A heading: it is not later than the message being sent, and when it is of
\* that message at most the heading is acknowledged, so what the assembler it
\* replaces had is not counted on.
LEMMA HeadingKeeps ==
    ASSUME TypeOK, TypeOK', DeliveryInvariant, NEW n \in Nodes, NEW p \in Priorities,
           ReceiveHeading(n, p)
    PROVE  DeliveryInvariant'
<1>0. PICK s, packet, old, a :
          /\ s = Peer[n] /\ packet = Incoming(n, p)
          /\ old = assembler[n][p] /\ a = Started(old, packet)
    OBVIOUS
<1>1. s \in Nodes /\ Peer[s] = n /\ Holder(s, p) = old
    BY <1>0, DeliveryAssumption DEF Holder
<1>2. /\ Exchange(n, p, "message", p, Ack(n, packet.sn))
      /\ KeepOrHandOver(n, p, a)
      /\ UNCHANGED <<syn, queue, lastSn, delivered>>
      /\ packet.type = "message"
    BY <1>0 DEF ReceiveHeading, Exchange, outVars
<1>3. packet \in Range(chan[s][p]) /\ packet \in Packet
    <2>1. chan[s][p] # <<>> /\ chan[s][p] \in Seq(Packet)
        BY SMTT(60), <1>0, <1>1, <1>2 DEF Exchange, Receivable, TypeOK
    <2>2. packet \in Range(chan[s][p])
        BY <1>0, <1>1, <2>1, ReadPacket DEF DeliveryInvariant, LinkInOrder, Incoming
    <2> QED BY <1>1, <2>2, FlowTypes
<1>4. FlowInvariant(s, p) /\ DataFits(s, p, packet)
    BY <1>1, <1>2, <1>3 DEF DeliveryInvariant, FlowInvariant, DataKnown, IsData
<1>5. /\ packet.id \in 1 .. Len(sent)
      /\ packet.sn = sent[packet.id].first
      /\ packet.last = sent[packet.id].first + sent[packet.id].count - 1
      /\ packet.sn <= packet.last
      /\ MessageOf(packet) = packet.id
      /\ packet.id \in Nat /\ packet.sn \in Nat /\ packet.last \in Nat
    BY <1>2, <1>3, <1>4, PacketFields DEF DataFits, MessageOf
<1>6. a.id = packet.id /\ a.first = packet.sn /\ a.last = packet.last /\ a.got = {0} /\ a \in Assembler
    BY <1>0, <1>5 DEF Started, NewAssembler, AssemblerAcknowledge, Assembler
<1>7. a.got \subseteq 0 .. (a.last - a.first) /\ a.id <= MessageOf(packet)
    BY <1>5, <1>6
<1>8. FitsFront(s, p, packet, "message", a)
    <2> SUFFICES ASSUME queue[s][p] # <<>>, NEW t, t = Front(s, p)
                 PROVE  /\ \A i : Holds(s, p, t, i) /\ (i = 0 \/ ~HeadingInFlight(s, p, t)) =>
                               t.id \in received \/ (a.id = t.id /\ i \in a.got)
                        /\ \A i \in t.acked : Holds(s, p, t, i) =>
                               t.id \in received \/ (a.id = t.id /\ i \in a.got)
                        /\ \/ packet.sn < t.first
                           \/ /\ MessageOf(packet) = t.id
                              /\ InRange(t, packet.sn)
                              /\ t.id \in received \/ (a.id = t.id /\ packet.sn - t.first \in a.got)
                              /\ packet.sn = t.first
        BY DEF FitsFront
    <2>1. t \in Tracker /\ t = queue[s][p][1] /\ 1 \in 1 .. Len(queue[s][p])
        BY <1>1, FlowTypes
    <2>2. t.id \in Nat /\ t.first \in Nat /\ t.first = sent[t.id].first
        BY ZenonT(60), <1>4, <2>1 DEF FlowInvariant, QueueInOrder, Tracker
    <2>3. \/ packet.id < t.id /\ packet.sn < t.first
          \/ packet.id = t.id /\ InRange(t, packet.sn) /\ t.acked \subseteq {0}
        BY <1>2, <1>4, <1>5 DEF DataFits
    <2>4. old.id <= packet.id /\ old.id \in Nat
        BY <1>1, <1>4, <1>5, FlowTypes DEF DataFits, Assembler
    <2>5. ASSUME NEW i, Holds(s, p, t, i), t.id \notin received
          PROVE  packet.id = t.id /\ t.acked \subseteq {0} /\ HeadingInFlight(s, p, t)
        <3>1. old.id = t.id
            BY <1>1, <2>5 DEF Holds
        <3>2. packet.id = t.id /\ t.acked \subseteq {0}
            BY <1>5, <2>2, <2>3, <2>4, <3>1
        <3> QED BY <1>2, <1>3, <3>2 DEF HeadingInFlight
    <2>6. packet.id = t.id => packet.sn = t.first /\ packet.sn - t.first \in a.got
        BY <1>5, <1>6, <2>2
    <2> QED BY <1>5, <1>6, <2>3, <2>5, <2>6
<1>9. FitsMessage(packet, a)
    BY <1>5, <1>6, <1>7 DEF FitsMessage
<1> QED BY <1>0, <1>2, <1>6, <1>8, <1>9, DataKeeps

\* Another part: the assembler is that of the message it was cut from, since
\* that message's heading is acknowledged, or the message has been received.
LEMMA PartKeeps ==
    ASSUME TypeOK, TypeOK', DeliveryInvariant, NEW n \in Nodes, NEW p \in Priorities,
           ReceivePart(n, p)
    PROVE  DeliveryInvariant'
<1>0. PICK s, packet, old, a :
          /\ s = Peer[n] /\ packet = Incoming(n, p)
          /\ old = assembler[n][p] /\ a = AssemblerAcknowledge(old, packet.sn)
    OBVIOUS
<1>1. s \in Nodes /\ Peer[s] = n /\ Holder(s, p) = old /\ old \in Assembler
    <2>1. s \in Nodes /\ Peer[s] = n /\ Holder(s, p) = old
        BY <1>0, DeliveryAssumption DEF Holder
    <2> QED BY <2>1, FlowTypes
<1>2. /\ Exchange(n, p, "part", p, Ack(n, packet.sn))
      /\ old # NoAssembler /\ AssemblerInRange(old, packet.sn)
      /\ KeepOrHandOver(n, p, a)
      /\ UNCHANGED <<syn, queue, lastSn, delivered>>
      /\ packet.type = "part" /\ link = "up"
    BY <1>0 DEF ReceivePart, Exchange, Receivable, outVars
<1>3. packet \in Range(chan[s][p]) /\ packet \in Packet
    <2>1. chan[s][p] # <<>> /\ chan[s][p] \in Seq(Packet)
        BY SMTT(60), <1>0, <1>1, <1>2 DEF Exchange, Receivable, TypeOK
    <2>2. packet \in Range(chan[s][p])
        BY <1>0, <1>1, <2>1, ReadPacket DEF DeliveryInvariant, LinkInOrder, Incoming
    <2> QED BY <1>1, <2>2, FlowTypes
<1>4. FlowInvariant(s, p) /\ DataFits(s, p, packet)
    BY <1>1, <1>2, <1>3 DEF DeliveryInvariant, FlowInvariant, DataKnown, IsData
<1>5. /\ packet.sn \in Nat /\ old.first \in Nat /\ old.last \in Nat
      /\ old.first <= packet.sn /\ packet.sn <= old.last
    BY <1>1, <1>2, <1>3, PacketFields DEF AssemblerInRange, Assembler
<1>6. /\ a \in Assembler
      /\ a.id = old.id /\ a.first = old.first /\ a.last = old.last
      /\ a.got = old.got \cup {packet.sn - old.first}
    <2>1. a \in Assembler
        BY <1>0, <1>1, <1>5, AssemblerTypes
    <2> QED BY <1>0, <1>1, <2>1 DEF AssemblerAcknowledge, Assembler
<1>7. /\ old.id \in 1 .. Len(sent)
      /\ old.first = sent[old.id].first
      /\ old.last = sent[old.id].first + sent[old.id].count - 1
      /\ old.got \subseteq 0 .. (old.last - old.first)
      /\ old.id <= MessageOf(packet)
    BY <1>1, <1>2, <1>4 DEF FlowInvariant, HolderKnown, DataFits
<1>8. a.got \subseteq 0 .. (a.last - a.first)
    BY <1>5, <1>6, <1>7
<1>9. FitsFront(s, p, packet, "part", a)
    <2> SUFFICES ASSUME queue[s][p] # <<>>, NEW t, t = Front(s, p)
                 PROVE  /\ \A i : Holds(s, p, t, i) =>
                               t.id \in received \/ (a.id = t.id /\ i \in a.got)
                        /\ \/ packet.sn < t.first
                           \/ /\ MessageOf(packet) = t.id
                              /\ InRange(t, packet.sn)
                              /\ t.id \in received \/ (a.id = t.id /\ packet.sn - t.first \in a.got)
                              /\ 0 \in t.acked
        BY DEF FitsFront
    <2>1. \A i : Holds(s, p, t, i) => t.id \in received \/ (a.id = t.id /\ i \in a.got)
        BY <1>1, <1>6 DEF Holds
    <2>2. t \in Tracker /\ t = queue[s][p][1] /\ 1 \in 1 .. Len(queue[s][p])
        BY <1>1, FlowTypes
    <2>3. t.first = sent[t.id].first
        BY <1>4, <2>2 DEF FlowInvariant, QueueInOrder
    <2>4. \/ packet.sn < t.first
          \/ MessageOf(packet) = t.id /\ InRange(t, packet.sn) /\ 0 \in t.acked
        BY <1>2, <1>4 DEF DataFits
    <2>5. ASSUME 0 \in t.acked
          PROVE  t.id \in received \/ (a.id = t.id /\ packet.sn - t.first \in a.got)
        <3>1. Holds(s, p, t, 0)
            BY <1>2, <1>4, <2>5 DEF FlowInvariant, FrontHeld, DataFits
        <3> QED BY <1>6, <1>7, <2>1, <2>3, <3>1
    <2> QED BY <2>1, <2>4, <2>5
<1>10. FitsMessage(packet, a)
    BY <1>6, <1>7, <1>8 DEF FitsMessage
<1> QED BY <1>0, <1>2, <1>6, <1>9, <1>10, DataKeeps
-----------------------------------------------------------------------------
\* At first nothing is queued, in flight, assembled or delivered.
LEMMA InitDelivery == Init => DeliveryInvariant
<1> SUFFICES ASSUME Init PROVE DeliveryInvariant
    OBVIOUS
<1>1. TypeOK
    BY InitTypeOK
<1>2. ASSUME NEW n \in Nodes, NEW p \in Priorities
      PROVE  /\ chan[n][p] = <<>> /\ Range(chan[n][p]) = {}
             /\ queue[n][p] = <<>>
             /\ assembler[n][p] = NoAssembler
             /\ syn[n] = "initial"
    BY DEF Init, Range
<1>3. \A n \in Nodes : Peer[n] \in Nodes
    BY DeliveryAssumption
<1>4. LinkInOrder
    BY <1>2 DEF LinkInOrder, InOrder
<1>5. SynchronizedIsCreated /\ DeliveredWasReceived
    BY <1>2 DEF Init, SynchronizedIsCreated, DeliveredWasReceived
<1>6. SynExchange
    BY <1>2, <1>3 DEF SynExchange, RequestsKnown, RepliesKnown
<1>7. ASSUME NEW n \in Nodes, NEW p \in Priorities PROVE FlowInvariant(n, p)
    <2>1. Holder(n, p) = NoAssembler
        BY <1>2, <1>3 DEF Holder
    <2>2. HolderKnown(n, p)
        BY <1>2, <2>1 DEF HolderKnown
    <2>3. QueueInOrder(n, p) /\ FrontHeld(n, p)
        BY <1>2 DEF QueueInOrder, FrontHeld
    <2>4. DataKnown(n, p) /\ AcksKnown(n, p)
        BY <1>2, <1>3 DEF DataKnown, AcksKnown
    <2> QED BY <2>2, <2>3, <2>4 DEF FlowInvariant
<1> QED BY <1>4, <1>5, <1>6, <1>7 DEF DeliveryInvariant

\* A packet of any type read.
LEMMA ReceiveKeeps ==
    ASSUME TypeOK, TypeOK', DeliveryInvariant, NEW n \in Nodes, NEW p \in Priorities,
           Receive(n, p)
    PROVE  DeliveryInvariant'
<1>1. assembler \in [Nodes -> [Priorities -> Assembler]]
    BY DEF TypeOK
<1>2. CASE ReceiveSynRst(n, p)
    <2>1. PICK reset : reset = [q \in Priorities |-> NoAssembler]
        OBVIOUS
    <2>2. /\ Exchange(n, p, "syn_rst", 0, <<SynReply(reset)>>)
          /\ assembler' = [assembler EXCEPT ![n] = reset]
          /\ UNCHANGED <<syn, queue, lastSn, received, delivered>>
        BY <1>2, <2>1 DEF ReceiveSynRst, outVars
    <2>3. assembler'[n] = reset
        BY <1>1, <2>2
    <2>4. \A q \in Priorities : assembler'[n][q] \in {assembler[n][q], NoAssembler}
        BY <2>1, <2>3
    <2>5. \A m \in Nodes : m # n => assembler'[m] = assembler[m]
        BY <1>1, <2>2
    <2>6. Exchange(n, p, "syn_rst", 0, <<SynReply(assembler'[n])>>)
        BY <2>2, <2>3
    <2> QED BY <2>2, <2>4, <2>5, <2>6, AnswerKeeps
<1>3. CASE ReceiveSynReq(n, p)
    <2>1. /\ Exchange(n, p, "syn_req", 0, <<SynReply(assembler[n])>>)
          /\ assembler' = assembler
          /\ UNCHANGED <<syn, queue, lastSn, received, delivered>>
        BY <1>3 DEF ReceiveSynReq, outVars
    <2>2. Exchange(n, p, "syn_req", 0, <<SynReply(assembler'[n])>>)
        BY <2>1
    <2>3. /\ \A q \in Priorities : assembler'[n][q] \in {assembler[n][q], NoAssembler}
          /\ \A m \in Nodes : m # n => assembler'[m] = assembler[m]
        BY <2>1
    <2> QED BY <2>1, <2>2, <2>3, AnswerKeeps
<1>4. CASE ReceiveSynRep(n, p)
    BY <1>4, SynReplyKeeps
<1>5. CASE ReceiveAck(n, p)
    BY <1>5, AckKeeps
<1>6. CASE IgnoreAck(n, p) \/ IgnorePart(n, p)
    BY <1>6, IgnoredKeeps
<1>7. CASE ReceiveHeading(n, p)
    BY <1>7, HeadingKeeps
<1>8. CASE ReceivePart(n, p)
    BY <1>8, PartKeeps
<1> QED BY <1>2, <1>3, <1>4, <1>5, <1>6, <1>7, <1>8 DEF Receive

\* Every step keeps the agreement of the two ends and what is between them.
LEMMA NextDelivery ==
    TypeOK /\ TypeOK' /\ SuspendedWhileUnreachable /\ DeliveryInvariant /\ [Next]_vars
        => DeliveryInvariant'
<1> SUFFICES ASSUME TypeOK, TypeOK', SuspendedWhileUnreachable, DeliveryInvariant, [Next]_vars
             PROVE  DeliveryInvariant'
    OBVIOUS
<1>1. ASSUME NEW n \in Senders, NEW p \in Priorities, NEW count \in PartCounts,
             EnqueueMessage(n, p, count)
      PROVE  DeliveryInvariant'
    <2>1. n \in Nodes /\ count \in Nat
        BY DeliveryAssumption
    <2> QED BY <1>1, <2>1, EnqueueKeeps
<1>2. ASSUME NEW n \in Nodes,
             \/ InitiateSyn(n) \/ SendPart(n) \/ ScanInVain(n) \/ ExpireSyn(n)
             \/ Unreachable(n) \/ RouteReady(n) \/ Restart(n)
      PROVE  DeliveryInvariant'
    <2>1. CASE InitiateSyn(n)
        BY <2>1, InitiateSynKeeps
    <2>2. CASE SendPart(n)
        BY <2>2, SendPartKeeps
    <2>3. CASE ScanInVain(n) \/ ExpireSyn(n)
        <3>1. 0 \in Priorities
            BY DistributionAssumption DEF Priorities
        <3> QED BY <2>3, <3>1, QuietActions
    <2>4. CASE Unreachable(n)
        BY <2>4, SilentActions
    <2>5. CASE RouteReady(n)
        BY <2>5, RouteReadyKeeps
    <2>6. CASE Restart(n)
        BY <2>6, RestartKeeps
    <2> QED BY <1>2, <2>1, <2>2, <2>3, <2>4, <2>5, <2>6
<1>3. ASSUME NEW n \in Nodes, NEW p \in Priorities,
             Receive(n, p) \/ ExpireTracker(n, p) \/ Reroute(n, p)
      PROVE  DeliveryInvariant'
    <2>1. CASE Receive(n, p)
        BY <2>1, ReceiveKeeps
    <2>2. CASE ExpireTracker(n, p) \/ Reroute(n, p)
        BY <2>2, QuietActions
    <2> QED BY <1>3, <2>1, <2>2
<1>4. CASE Break \/ Reconnect
    BY <1>4, SilentActions
<1>5. CASE UNCHANGED vars
    <2>1. UNCHANGED <<created, syn, queue, lastSn, assembler, chan, link, reachable, sent, received, delivered>>
        BY <1>5 DEF vars, synVars, outVars, netVars, histVars
    <2>2. LinkInOrder'
        BY <2>1 DEF DeliveryInvariant, LinkInOrder
    <2> QED BY <2>1, <2>2, QuietStep DEF TrackersKept
<1> QED BY <1>1, <1>2, <1>3, <1>4, <1>5 DEF Next

-----------------------------------------------------------------------------
\* What the two ends and the packets between them agree on holds always:
\* the numbers, headings, assemblers and acknowledgements of every flow fit.
THEOREM DeliveryIsInvariant == Spec => []DeliveryInvariant
<1>1. Init => TypeOK /\ SuspendedWhileUnreachable /\ DeliveryInvariant
    BY InitTypeOK, InitDelivery DEF Init, SuspendedWhileUnreachable
<1>2. TypeOK /\ SuspendedWhileUnreachable /\ DeliveryInvariant /\ [Next]_vars
          => TypeOK' /\ SuspendedWhileUnreachable' /\ DeliveryInvariant'
    BY NextTypeOK, NextKeepsRoutes, NextDelivery
<1> QED BY <1>1, <1>2, PTL DEF Spec

\* on_message_delivered tells the sender the truth, for any nodes, priorities,
\* messages, losses, reconnections and restarts: a message reported delivered
\* has been handed to the receiving application.
THEOREM DeliveryIsTrue == Spec => []DeliveredWasReceived
<1>1. DeliveryInvariant => DeliveredWasReceived
    BY DEF DeliveryInvariant
<1> QED BY <1>1, DeliveryIsInvariant, PTL

\* A synchronized sender is never ahead of its receiver: the parts it holds
\* acknowledged are in the receiver's assembler, or the message is received.
THEOREM AcknowledgedIsHeld == Spec => []AckedIsHeld
<1>1. DeliveryInvariant => AckedIsHeld
    <2> SUFFICES ASSUME DeliveryInvariant, NEW n \in Nodes, NEW p \in Busy(n),
                        link = "up", reachable[n], syn[n] = "completed",
                        Front(n, p).id \notin received, Front(n, p).acked # {}
                 PROVE  LET t == Front(n, p)
                            a == assembler[Peer[n]][p]
                        IN  a.id = t.id /\ t.acked \subseteq a.got
        BY DEF AckedIsHeld
    <2>1. p \in Priorities /\ queue[n][p] # <<>>
        BY DEF Busy
    <2>2. \A i \in Front(n, p).acked : Holds(n, p, Front(n, p), i)
        BY <2>1 DEF DeliveryInvariant, FlowInvariant, FrontHeld
    <2> QED BY <2>2 DEF Holds, Holder
<1> QED BY <1>1, DeliveryIsInvariant, PTL
=============================================================================
