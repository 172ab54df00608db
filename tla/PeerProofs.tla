----------------------------- MODULE PeerProofs -----------------------------
(***************************************************************************)
(* Two peers that connect, shake hands, lose their channel and reconnect,  *)
(* for any numbers of connections, breaks, refusals and failures.  Where   *)
(* they are orderly, as assumed below, both ends have one connection under *)
(* the channel, and what the applications are told is what ChannelLink     *)
(* promises.  Of any two peers, with nothing assumed (the last part), the  *)
(* application is told of the channel there is, until a second one is      *)
(* refused, and an assertion throws for two reasons only.                  *)
(***************************************************************************)
EXTENDS Peer, SequenceTheorems, FunctionTheorems, FiniteSetTheorems, WellFoundedInduction, TLAPS

-----------------------------------------------------------------------------
(***************************************************************************)
(* What is assumed.  Each of these excludes one of the known disagreements *)
(* of the code: see the README.                                            *)
(***************************************************************************)

\* The application of one node at most asks for connections that are kept.
OneKeeps == \A m, k \in Connectors : RequesterCompletes(m) /\ RequesterCompletes(k) => m = k

Orderly ==
    /\ FreedReads = {"same"} /\ InOrder /\ OncePerStep /\ "unreachable" \notin FirstOutcomes
    /\ OneKeeps

-----------------------------------------------------------------------------
(***************************************************************************)
(* The invariant.                                                          *)
(***************************************************************************)

Kinds == {"connecting", "connected", "accepted"}

Connection ==
    [client : Connectors, live : BOOLEAN, accepted : BOOLEAN,
     packet : {"none", "request", "response"}]

\* Every variable of the nodes is one of all nodes.
Shapes ==
    /\ DOMAIN socks = Nodes /\ DOMAIN polled = Nodes /\ DOMAIN served = Nodes
    /\ DOMAIN cache = Nodes /\ DOMAIN closing = Nodes /\ DOMAIN channels = Nodes
    /\ retry \in [Nodes -> [attempts : Nat, deferred : Nat]]
    /\ phase \in [Nodes -> Listening .. Timers]
    /\ hosts \in [Nodes -> BOOLEAN] /\ told \in [Nodes -> BOOLEAN]
    /\ rejected \in [Nodes -> BOOLEAN] /\ failed \in [Nodes -> BOOLEAN]

\* A dead connection carries nothing, and only an accepted one has been answered.
ConnsFit ==
    /\ conns \in Seq(Connection) /\ Len(conns) <= MaxConnections
    /\ \A c \in DOMAIN conns :
           /\ conns[c].packet # "none" => conns[c].live
           /\ conns[c].packet = "response" => conns[c].accepted

\* A socket is one end of its connection, the client's or the acceptor's, and no two
\* are of one connection.
SocketFits(n, s) ==
    /\ socks[n][s] = [conn |-> socks[n][s].conn, kind |-> socks[n][s].kind]
    /\ socks[n][s].kind \in Kinds
    /\ socks[n][s].kind = "connecting" <=> socks[n][s].conn = 0
    /\ socks[n][s].conn # 0 => socks[n][s].conn \in DOMAIN conns
    /\ socks[n][s].kind = "connected" => ConnOf(n, s).client = n
    /\ socks[n][s].kind = "accepted" => ConnOf(n, s).client # n /\ ConnOf(n, s).accepted

SocksFit(n) ==
    /\ DOMAIN socks[n] \subseteq Sids
    /\ \A s \in DOMAIN socks[n] : SocketFits(n, s)
    /\ \A s, t \in Pooled(n) : socks[n][s].conn = socks[n][t].conn => s = t

\* A socket is polled until it is closed, and it is closed only at the end of a step;
\* it is to be closed because its connection is dead, because its handshake took too
\* long or because the response said that it is not needed.
ToBeClosed(n, s) ==
    \/ ~ConnOf(n, s).live
    \/ socks[n][s].kind = "connected" /\ (ConnOf(n, s).packet = "none" \/ phase[n] = Timers)

StepFits(n) ==
    /\ polled[n] \subseteq {"read", "write"} \X Pooled(n)
    /\ served[n] \subseteq {"read", "write"} \X Sids
    /\ closing[n] \subseteq Pooled(n)
    /\ closing[n] # {} => phase[n] >= Writing
    /\ \A s \in Pooled(n) \ closing[n] : <<"read", s>> \in polled[n] /\ <<"write", s>> \in polled[n]
    /\ \A s \in closing[n] : ToBeClosed(n, s)

\* The handshake of a connected socket is waited for until its response is read.
CacheFits(n) ==
    /\ cache[n] \subseteq OfKind(n, "connected")
    /\ \A s \in OfKind(n, "connected") \ (cache[n] \cup closing[n]) : ConnOf(n, s).packet = "none"

\* A node has one attempt to connect at most: a deferred one, one that is under way or
\* a connection that is not to be closed.
Active(n) == OfKind(n, "connecting") \cup (OfKind(n, "connected") \ closing[n])

OneAttempt(n) ==
    /\ hosts[n] => n \in Connectors
    /\ ~hosts[n] => OfKind(n, "connecting") \cup OfKind(n, "connected") = {} /\ retry[n].deferred = 0
    /\ retry[n].deferred \in {0, 1}
    /\ retry[n].deferred = 1 => Active(n) = {}
    /\ \A s, t \in Active(n) : s = t
    /\ closing[n] \cap OfKind(n, "connected") # {} => Active(n) = {}

\* The channel map with one socket in both of its bimaps.
OneWay(s) == [first |-> s, second |-> {s}]
ChannelOf(s) == [readers |-> OneWay(s), writers |-> OneWay(s)]

\* The socket of a channel is open and its handshake is over.
Carries(n, s) ==
    /\ s \in Pooled(n) /\ s \notin closing[n] /\ s \notin cache[n]
    /\ RequesterCompletes(ConnOf(n, s).client)
    /\ ConnOf(n, s).packet # "request"

ChannelFits(n) ==
    /\ \/ channels[n] = EmptyMap /\ ~told[n]
       \/ told[n] /\ \E s \in Pooled(n) : channels[n] = ChannelOf(s) /\ Carries(n, s)
    /\ ~rejected[n] /\ ~failed[n]

NodeFits(n) == SocksFit(n) /\ StepFits(n) /\ CacheFits(n) /\ OneAttempt(n) /\ ChannelFits(n)

\* Of the connections of one client only the last may be alive, and its client has a
\* socket for it.
OneConnection ==
    /\ \A c, d \in DOMAIN conns : conns[c].client = conns[d].client /\ c < d => ~conns[c].live
    /\ \A c \in DOMAIN conns :
           conns[c].live =>
               \E s \in DOMAIN socks[conns[c].client] :
                   /\ socks[conns[c].client][s].kind = "connected"
                   /\ socks[conns[c].client][s].conn = c

\* Who has answered a request has the channel as long as the connection is alive.
Answered(c, n) ==
    /\ conns[c].live /\ conns[c].packet # "request"
    /\ n # conns[c].client /\ RequesterCompletes(conns[c].client)

HasChannelOf(n, c) == \E s \in Pooled(n) : socks[n][s].conn = c /\ channels[n] = ChannelOf(s)

AnsweredHas == \A c \in DOMAIN conns : \A n \in Nodes : Answered(c, n) => HasChannelOf(n, c)

PeerInvariant ==
    Shapes /\ ConnsFit /\ (\A n \in Nodes : NodeFits(n)) /\ OneConnection /\ AnsweredHas

-----------------------------------------------------------------------------
(***************************************************************************)
(* Nodes, numbers and channel maps.                                        *)
(***************************************************************************)

\* There are two nodes.
LEMMA TwoNodes ==
    ASSUME NEW n \in Nodes
    PROVE  /\ Other(n) \in Nodes /\ Other(n) # n
           /\ \A m \in Nodes : m # n => m = Other(n)
<1>1. IsFiniteSet(Nodes) /\ Cardinality(Nodes) = 2
    BY PeerAssumption DEF PeerAssumption
<1>2. IsFiniteSet(Nodes \ {n}) /\ Cardinality(Nodes \ {n}) = 1
    BY <1>1, FS_RemoveElement
<1>3. PICK m : Nodes \ {n} = {m}
    BY <1>2, FS_Singleton
<1>4. m \in Nodes /\ m # n /\ \A k \in Nodes : k # n => k = m
    BY ONLY <1>3
<1>5. Other(n) = m
    BY <1>4 DEF Other
<1> QED BY <1>4, <1>5

\* Both ends of a connection decide alike whether it becomes a channel.
LEMMA BothDecideAlike ==
    ASSUME NEW n \in Nodes, NEW client \in Nodes, n # client
    PROVE  AcceptorCompletes(n, client) <=> RequesterCompletes(client)
<1>1. Other(client) = n
    BY TwoNodes
<1>2. Id[n] \in Nat /\ Id[client] \in Nat
    BY PeerAssumption DEF PeerAssumption
<1> QED BY <1>1, <1>2 DEF AcceptorCompletes, RequesterCompletes

\* The order on the naturals as a relation.
Below == {ss \in Nat \X Nat : ss[1] < ss[2]}

\* A set of naturals has a least element, and Min chooses it.
LEMMA LeastOf ==
    ASSUME NEW S, S \subseteq Nat, S # {}
    PROVE  Min(S) \in S
<1>1. IsWellFoundedOn(Below, Nat)
    BY NatLessThanWellFounded DEF OpToRel, Below
<1>2. PICK lowest \in S : \A x \in S : ~(<<x, lowest>> \in Below)
    BY <1>1, WFMin
<1>3. ASSUME NEW x \in S PROVE lowest <= x
    <2>1. lowest \in Nat /\ x \in Nat /\ ~(<<x, lowest>> \in Below)
        BY <1>2
    <2> QED BY <2>1 DEF Below
<1> QED BY <1>3 DEF Min

\* There are k numbers from 1 to k.
LEMMA IntervalSize ==
    ASSUME NEW k \in Nat
    PROVE  IsFiniteSet(1 .. k) /\ Cardinality(1 .. k) = k
<1>1. PICK one \in Int : one = 1
    OBVIOUS
<1>2. k \in Int
    OBVIOUS
<1>3. /\ IsFiniteSet(one .. k)
      /\ Cardinality(one .. k) = IF one > k THEN 0 ELSE k - one + 1
    BY ONLY <1>1, <1>2, FS_Interval
<1> QED BY <1>1, <1>3

\* Of the numbers up to one more than there are sockets, one is free.
LEMMA FreeNumber ==
    ASSUME NEW n, NEW max \in Nat, IsFiniteSet(DOMAIN socks[n]), Cardinality(DOMAIN socks[n]) <= max
    PROVE  FreeSid(n) \in 1 .. max + 1 /\ FreeSid(n) \notin DOMAIN socks[n]
<1> DEFINE used == DOMAIN socks[n]
           all == 1 .. Cardinality(used) + 1
<1>1. Cardinality(used) \in Nat
    BY FS_CardinalityType
<1>2. IsFiniteSet(all) /\ Cardinality(all) = Cardinality(used) + 1
    BY <1>1, IntervalSize
<1>3. ~(all \subseteq used)
    <2>1. ASSUME all \subseteq used PROVE FALSE
        <3>1. Cardinality(all) <= Cardinality(used)
            BY <2>1, FS_Subset
        <3> QED BY <1>1, <1>2, <3>1
    <2> QED BY <2>1
<1>4. FreeSid(n) \in all \ used
    <2>1. all \ used \subseteq Nat /\ all \ used # {}
        BY <1>1, <1>3
    <2>2. Min(all \ used) \in all \ used
        BY <2>1, LeastOf
    <2> QED BY <2>2 DEF FreeSid
<1>5. FreeSid(n) \in 1 .. Cardinality(used) + 1
    BY <1>4
<1> HIDE DEF used
<1> QED BY <1>1, <1>4, <1>5 DEF used

\* A node has a socket for each connection at most, and one that is connecting; so a
\* number within the bound is free as long as it has not both.
LEMMA FreeWithin ==
    ASSUME Shapes, ConnsFit, NEW n \in Nodes, SocksFit(n), NEW spare,
           \A s, t \in OfKind(n, "connecting") : s = t,
           \/ OfKind(n, "connecting") = {}
           \/ spare \in DOMAIN conns /\ \A s \in Pooled(n) : socks[n][s].conn # spare
    PROVE  FreeSid(n) \in Sids /\ FreeSid(n) \notin DOMAIN socks[n]
<1> DEFINE used == DOMAIN socks[n]
           places == 1 .. Len(conns)
           f == [s \in used |-> IF socks[n][s].conn = 0 THEN spare ELSE socks[n][s].conn]
<1>1. Len(conns) \in Nat /\ DOMAIN conns = places /\ MaxConnections \in Nat /\ Len(conns) <= MaxConnections
    BY LenProperties, PeerAssumption DEF ConnsFit, PeerAssumption
<1>2. ASSUME NEW s \in used
      PROVE  /\ socks[n][s].conn = 0 <=> s \in OfKind(n, "connecting")
             /\ socks[n][s].conn # 0 => socks[n][s].conn \in DOMAIN conns /\ s \in Pooled(n)
    <2>1. SocketFits(n, s)
        BY DEF SocksFit
    <2> QED BY <2>1 DEF SocketFits, OfKind, Pooled, Kinds
<1>3. f \in [used -> places]
    <2>1. ASSUME NEW s \in used PROVE (IF socks[n][s].conn = 0 THEN spare ELSE socks[n][s].conn) \in places
        BY <1>1, <1>2
    <2> QED BY <2>1
<1>4. ASSUME NEW s \in used, NEW t \in used, f[s] = f[t] PROVE s = t
    <2>1. CASE socks[n][s].conn = 0 /\ socks[n][t].conn = 0
        BY <1>2, <2>1
    <2>2. CASE socks[n][s].conn = 0 /\ socks[n][t].conn # 0
        BY <1>2, <1>4, <2>2
    <2>3. CASE socks[n][s].conn # 0 /\ socks[n][t].conn = 0
        BY <1>2, <1>4, <2>3
    <2>4. CASE socks[n][s].conn # 0 /\ socks[n][t].conn # 0
        BY <1>2, <1>4, <2>4 DEF SocksFit
    <2> QED BY <2>1, <2>2, <2>3, <2>4
<1>5. f \in Injection(used, places)
    BY <1>3, <1>4 DEF Injection, IsInjective
<1>6. IsFiniteSet(places) /\ Cardinality(places) = Len(conns)
    BY <1>1, IntervalSize
<1>7. IsFiniteSet(used) /\ Cardinality(used) <= Cardinality(places)
    BY <1>5, <1>6, FS_Injection
<1>8. Cardinality(used) \in Nat
    BY <1>7, FS_CardinalityType
<1>9. Cardinality(used) <= MaxConnections
    BY <1>1, <1>6, <1>7, <1>8
<1> QED BY <1>1, <1>7, <1>9, FreeNumber DEF Sids

-----------------------------------------------------------------------------
(***************************************************************************)
(* What a step does not touch.                                             *)
(***************************************************************************)

\* Nothing of the node changes.
NodeSame(m) ==
    /\ socks'[m] = socks[m] /\ polled'[m] = polled[m] /\ served'[m] = served[m]
    /\ cache'[m] = cache[m] /\ closing'[m] = closing[m] /\ channels'[m] = channels[m]
    /\ retry'[m] = retry[m] /\ phase'[m] = phase[m] /\ hosts'[m] = hosts[m]
    /\ told'[m] = told[m] /\ rejected'[m] = rejected[m] /\ failed'[m] = failed[m]

\* Connections only come, are accepted, die and have their packets read and answered.
ConnsGoOn ==
    /\ DOMAIN conns \subseteq DOMAIN conns'
    /\ \A c \in DOMAIN conns :
           /\ conns'[c].client = conns[c].client
           /\ conns[c].accepted => conns'[c].accepted
           /\ conns'[c].live => conns[c].live
           /\ conns[c].packet = "none" => conns'[c].packet = "none"
           /\ conns[c].packet # "request" => conns'[c].packet # "request"

\* A socket whose connection stays alive stays what it is.
SocketsStay(m) ==
    \A s \in Pooled(m) :
        conns'[socks[m][s].conn].live => s \in Pooled(m)' /\ socks'[m][s] = socks[m][s]

\* A pooled socket has a connection, and the other kind has none.
LEMMA PooledHas ==
    ASSUME NEW n \in Nodes, SocksFit(n), NEW s \in DOMAIN socks[n]
    PROVE  /\ s \in Pooled(n) <=> socks[n][s].conn # 0
           /\ s \in Pooled(n) => socks[n][s].conn \in DOMAIN conns
           /\ s \in OfKind(n, "connecting") <=> socks[n][s].conn = 0
           /\ s \in OfKind(n, "connected") => ConnOf(n, s).client = n
           /\ s \in OfKind(n, "accepted") => ConnOf(n, s).client # n /\ ConnOf(n, s).accepted
           /\ s \in Pooled(n) <=> s \in OfKind(n, "connected") \/ s \in OfKind(n, "accepted")
           /\ ~(s \in OfKind(n, "connected") /\ s \in OfKind(n, "accepted"))
<1>1. SocketFits(n, s)
    BY DEF SocksFit
<1> QED BY <1>1 DEF SocketFits, OfKind, Pooled, Kinds

\* The sockets of a kind are known by the sockets.
LEMMA SocksSame ==
    ASSUME NEW m, socks'[m] = socks[m]
    PROVE  /\ Pooled(m)' = Pooled(m)
           /\ \A kind : OfKind(m, kind)' = OfKind(m, kind)
BY DEF Pooled, OfKind

\* A node of which nothing changes fits as long as the connections go on.
LEMMA SameFits ==
    ASSUME NEW m \in Nodes, NodeFits(m), NodeSame(m), ConnsGoOn
    PROVE  NodeFits(m)' /\ SocketsStay(m)
<1>1. SocksFit(m) /\ StepFits(m) /\ CacheFits(m) /\ OneAttempt(m) /\ ChannelFits(m)
    BY DEF NodeFits
<1>2. /\ socks'[m] = socks[m] /\ Pooled(m)' = Pooled(m)
      /\ OfKind(m, "connected")' = OfKind(m, "connected")
      /\ OfKind(m, "connecting")' = OfKind(m, "connecting")
    BY SocksSame DEF NodeSame
<1>3. SocksFit(m)'
    <2>1. ASSUME NEW s \in DOMAIN socks[m] PROVE SocketFits(m, s)'
        <3>1. SocketFits(m, s)
            BY <1>1 DEF SocksFit
        <3> QED BY <1>2, <3>1 DEF SocketFits, ConnOf, ConnsGoOn
    <2> QED BY <1>1, <1>2, <2>1 DEF SocksFit
<1>4. StepFits(m)'
    <2>1. ASSUME NEW s \in closing[m] PROVE ToBeClosed(m, s)'
        <3>1. ToBeClosed(m, s) /\ s \in Pooled(m) /\ s \in DOMAIN socks[m]
            BY <1>1 DEF StepFits, Pooled, OfKind
        <3>2. socks[m][s].conn \in DOMAIN conns
            BY <1>1, <3>1, PooledHas
        <3> QED BY <1>2, <3>1, <3>2 DEF ToBeClosed, ConnOf, ConnsGoOn, NodeSame
    <2> QED BY <1>1, <1>2, <2>1 DEF StepFits, NodeSame
<1>5. CacheFits(m)'
    <2>1. ASSUME NEW s \in OfKind(m, "connected"), s \notin cache[m], s \notin closing[m]
          PROVE  ConnOf(m, s)'.packet = "none"
        <3>1. ConnOf(m, s).packet = "none" /\ s \in DOMAIN socks[m]
            BY <1>1, <2>1 DEF CacheFits, OfKind
        <3>2. socks[m][s].conn \in DOMAIN conns
            BY <1>1, <2>1, <3>1, PooledHas
        <3> QED BY <1>2, <3>1, <3>2 DEF ConnOf, ConnsGoOn
    <2> QED BY <1>1, <1>2, <2>1 DEF CacheFits, NodeSame
<1>6. OneAttempt(m)'
    BY <1>1, <1>2 DEF OneAttempt, Active, NodeSame
<1>7. ChannelFits(m)'
    <2>1. ASSUME NEW s \in Pooled(m), Carries(m, s) PROVE Carries(m, s)'
        <3>1. s \in DOMAIN socks[m]
            BY DEF Pooled, OfKind
        <3>2. socks[m][s].conn \in DOMAIN conns
            BY <1>1, <3>1, PooledHas
        <3>3. conns'[socks[m][s].conn].client = conns[socks[m][s].conn].client
            BY <3>2 DEF ConnsGoOn
        <3> QED BY <1>2, <2>1, <3>2, <3>3
                DEF Carries, ConnOf, ConnsGoOn, NodeSame, RequesterCompletes
    <2> QED BY <1>1, <1>2, <2>1 DEF ChannelFits, NodeSame
<1> QED BY <1>2, <1>3, <1>4, <1>5, <1>6, <1>7 DEF NodeFits, SocketsStay

\* No new connection, and the sockets stay: then there is one of each client still.
LEMMA OneConnectionStays ==
    ASSUME ConnsFit, \A m \in Nodes : SocksFit(m), OneConnection, ConnsGoOn,
           DOMAIN conns' = DOMAIN conns, \A m \in Nodes : SocketsStay(m)
    PROVE  OneConnection'
<1>1. ASSUME NEW c \in DOMAIN conns, NEW d \in DOMAIN conns,
             conns'[c].client = conns'[d].client, c < d
      PROVE  ~conns'[c].live
    BY <1>1 DEF OneConnection, ConnsGoOn
<1>2. ASSUME NEW c \in DOMAIN conns, conns'[c].live
      PROVE  \E s \in DOMAIN socks'[conns'[c].client] :
                 /\ socks'[conns'[c].client][s].kind = "connected"
                 /\ socks'[conns'[c].client][s].conn = c
    <2>1. PICK m : m = conns[c].client
        OBVIOUS
    <2>2. conns'[c].client = m /\ conns[c].live
        BY <1>2, <2>1 DEF ConnsGoOn
    <2>3. conns[c] \in Connection
        BY DEF ConnsFit
    <2>4. m \in Nodes
        BY <2>1, <2>3, PeerAssumption DEF Connection, PeerAssumption
    <2>5. PICK s \in DOMAIN socks[m] : socks[m][s].kind = "connected" /\ socks[m][s].conn = c
        BY <2>1, <2>2 DEF OneConnection
    <2>6. s \in Pooled(m)
        BY <2>5 DEF Pooled, OfKind
    <2>7. s \in Pooled(m)' /\ socks'[m][s] = socks[m][s]
        BY <1>2, <2>4, <2>5, <2>6 DEF SocketsStay
    <2>8. s \in DOMAIN socks'[m]
        BY <2>7 DEF Pooled, OfKind
    <2> QED BY <2>2, <2>5, <2>7, <2>8
<1> QED BY <1>1, <1>2 DEF OneConnection

\* Who had answered and keeps its channel, has answered still.
LEMMA AnsweredStays ==
    ASSUME AnsweredHas, \A m \in Nodes : SocketsStay(m),
           \A c \in DOMAIN conns' : \A m \in Nodes : Answered(c, m)' =>
               \/ HasChannelOf(m, c)'
               \/ /\ c \in DOMAIN conns /\ Answered(c, m)
                  /\ HasChannelOf(m, c) => channels'[m] = channels[m]
    PROVE  AnsweredHas'
<1>1. ASSUME NEW c \in DOMAIN conns', NEW m \in Nodes, Answered(c, m)' PROVE HasChannelOf(m, c)'
    <2>1. CASE HasChannelOf(m, c)'
        BY <2>1
    <2>2. CASE ~HasChannelOf(m, c)'
        <3>1. /\ c \in DOMAIN conns /\ Answered(c, m)
              /\ HasChannelOf(m, c) => channels'[m] = channels[m]
            BY <1>1, <2>2
        <3>2. HasChannelOf(m, c)
            BY <3>1 DEF AnsweredHas
        <3>3. PICK s \in Pooled(m) : socks[m][s].conn = c /\ channels[m] = ChannelOf(s)
            BY <3>2 DEF HasChannelOf
        <3>4. conns'[c].live
            BY <1>1 DEF Answered
        <3>5. s \in Pooled(m)' /\ socks'[m][s] = socks[m][s]
            BY <3>3, <3>4 DEF SocketsStay
        <3> QED BY <3>1, <3>2, <3>3, <3>5 DEF HasChannelOf
    <2> QED BY <2>1, <2>2
<1> QED BY <1>1 DEF AnsweredHas

\* Of connections that only go on nobody has answered who had not answered before,
\* unless it has just sent its response.
LEMMA AnswersGoOn ==
    ASSUME ConnsGoOn, NEW c \in DOMAIN conns, NEW m \in Nodes,
           conns[c].packet = "request" => conns'[c].packet = "request" \/ ~conns'[c].live,
           Answered(c, m)'
    PROVE  Answered(c, m)
<1>1. conns'[c].client = conns[c].client /\ (conns'[c].live => conns[c].live)
    BY DEF ConnsGoOn
<1> QED BY <1>1 DEF Answered, RequesterCompletes

-----------------------------------------------------------------------------
(***************************************************************************)
(* What the parts of an action do.                                         *)
(***************************************************************************)

\* A socket is added, or one that was there becomes another.
LEMMA SocketAdded ==
    ASSUME Shapes, NEW n \in Nodes, NEW sid, NEW conn, NEW kind, AddSocket(n, sid, conn, kind)
    PROVE  /\ DOMAIN socks' = Nodes
           /\ \A m \in Nodes : m # n => socks'[m] = socks[m]
           /\ DOMAIN socks'[n] = DOMAIN socks[n] \cup {sid}
           /\ socks'[n][sid] = [conn |-> conn, kind |-> kind]
           /\ \A s \in DOMAIN socks[n] : s # sid => socks'[n][s] = socks[n][s]
<1>1. PICK f : f = [s \in DOMAIN socks[n] \cup {sid} |->
                        IF s = sid THEN [conn |-> conn, kind |-> kind] ELSE socks[n][s]]
    OBVIOUS
<1>2. socks' = [socks EXCEPT ![n] = f]
    BY <1>1 DEF AddSocket
<1>3. DOMAIN socks = Nodes
    BY DEF Shapes
<1>4. DOMAIN socks' = Nodes /\ socks'[n] = f /\ \A m \in Nodes : m # n => socks'[m] = socks[m]
    BY <1>2, <1>3
<1>5. /\ DOMAIN f = DOMAIN socks[n] \cup {sid}
      /\ f[sid] = [conn |-> conn, kind |-> kind]
      /\ \A s \in DOMAIN socks[n] : s # sid => f[s] = socks[n][s]
    BY <1>1
<1> QED BY <1>4, <1>5

\* Which sockets there are of a kind then.
LEMMA KindsAdded ==
    ASSUME Shapes, NEW n \in Nodes, NEW sid, NEW conn, NEW kind, AddSocket(n, sid, conn, kind),
           NEW k
    PROVE  OfKind(n, k)' = IF k = kind THEN OfKind(n, k) \cup {sid} ELSE OfKind(n, k) \ {sid}
<1>1. /\ DOMAIN socks'[n] = DOMAIN socks[n] \cup {sid}
      /\ socks'[n][sid] = [conn |-> conn, kind |-> kind]
      /\ \A s \in DOMAIN socks[n] : s # sid => socks'[n][s] = socks[n][s]
    BY SocketAdded
<1>2. socks'[n][sid].kind = kind
    BY <1>1
<1> QED BY <1>1, <1>2 DEF OfKind

\* Sockets are removed.
LEMMA SocketsRemoved ==
    ASSUME Shapes, NEW n \in Nodes, NEW sids, RemoveSockets(n, sids)
    PROVE  /\ DOMAIN socks' = Nodes
           /\ \A m \in Nodes : m # n => socks'[m] = socks[m]
           /\ DOMAIN socks'[n] = DOMAIN socks[n] \ sids
           /\ \A s \in DOMAIN socks[n] \ sids : socks'[n][s] = socks[n][s]
<1>1. PICK f : f = [s \in DOMAIN socks[n] \ sids |-> socks[n][s]]
    OBVIOUS
<1>2. socks' = [socks EXCEPT ![n] = f]
    BY <1>1 DEF RemoveSockets, Restrict
<1>3. DOMAIN socks = Nodes
    BY DEF Shapes
<1>4. DOMAIN socks' = Nodes /\ socks'[n] = f /\ \A m \in Nodes : m # n => socks'[m] = socks[m]
    BY <1>2, <1>3
<1> QED BY <1>1, <1>4

\* Which sockets there are of a kind then.
LEMMA KindsRemoved ==
    ASSUME Shapes, NEW n \in Nodes, NEW sids, RemoveSockets(n, sids), NEW k
    PROVE  OfKind(n, k)' = OfKind(n, k) \ sids
<1>1. /\ DOMAIN socks'[n] = DOMAIN socks[n] \ sids
      /\ \A s \in DOMAIN socks[n] \ sids : socks'[n][s] = socks[n][s]
    BY SocketsRemoved
<1> QED BY <1>1 DEF OfKind

Attempts == [attempts : Nat, deferred : Nat]

\* One connection is deferred, or the host is given up.
LEMMA ScheduledOne ==
    ASSUME NEW n \in Nodes, NEW r \in Attempts
    PROVE  /\ Scheduled(n, r) \in Attempts
           /\ Scheduled(n, r).deferred \in {r.deferred, r.deferred + 1}
<1>1. r = [attempts |-> r.attempts, deferred |-> r.deferred] /\ r.attempts \in Nat /\ r.deferred \in Nat
    BY DEF Attempts
<1>2. CASE r.attempts = 0 \/ Required(n, r)
    <2>1. Scheduled(n, r) = [attempts |-> r.attempts + 1, deferred |-> r.deferred + 1]
        BY <1>2 DEF Scheduled
    <2>2. r.attempts + 1 \in Nat /\ r.deferred + 1 \in Nat
        BY <1>1
    <2> QED BY <2>1, <2>2 DEF Attempts
<1>3. CASE ~(r.attempts = 0 \/ Required(n, r))
    <2>1. Scheduled(n, r) = [r EXCEPT !.attempts = 0]
        BY <1>3 DEF Scheduled
    <2>2. Scheduled(n, r) = [attempts |-> 0, deferred |-> r.deferred]
        BY <1>1, <2>1
    <2> QED BY <1>1, <2>2 DEF Attempts
<1> QED BY <1>2, <1>3

\* The bimap with one entry loses it.
LEMMA ErasedOneWay ==
    ASSUME Orderly, NEW s, s # NoSid
    PROVE  EraseByFirst(OneWay(s)) = {EmptyBimap}
<1>1. OneWay(s).first = s /\ OneWay(s).second \ {s} = {}
    BY DEF OneWay
<1>2. EraseByFirst(OneWay(s)) =
        {[first |-> NoSid, second |-> IF read = "same" THEN OneWay(s).second \ {s} ELSE OneWay(s).second] :
            read \in {"same"}}
    BY <1>1 DEF EraseByFirst, Orderly
<1> QED BY <1>1, <1>2 DEF EmptyBimap

\* The channel of a socket is open, whole and has no other socket.
LEMMA ChannelOfSocket ==
    ASSUME NEW s, s # NoSid
    PROVE  /\ IsOpen(ChannelOf(s)) /\ ~IsBroken(ChannelOf(s))
           /\ \A t : HasChannel(ChannelOf(s), t) <=> t = s
           /\ \A t : ChannelOf(s) = ChannelOf(t) => s = t
           /\ ClosedSockets(ChannelOf(s)) = {s}
           /\ ChannelOf(s).readers.first = s
           /\ ChannelOf(s) # EmptyMap
<1>1. /\ ChannelOf(s).readers = OneWay(s) /\ ChannelOf(s).writers = OneWay(s)
      /\ OneWay(s).first = s /\ OneWay(s).second = {s}
    BY DEF ChannelOf, OneWay
<1>2. IsOpen(ChannelOf(s)) /\ ~IsBroken(ChannelOf(s))
    BY <1>1 DEF IsOpen, IsBroken
<1>3. \A t : HasChannel(ChannelOf(s), t) <=> t = s
    BY <1>1 DEF HasChannel
<1>4. ASSUME NEW t, ChannelOf(s) = ChannelOf(t) PROVE s = t
    BY <1>1, <1>4 DEF ChannelOf, OneWay
<1>5. ClosedSockets(ChannelOf(s)) = {s}
    BY <1>1, <1>2 DEF ClosedSockets
<1>6. ChannelOf(s) # EmptyMap
    BY <1>1 DEF EmptyMap, EmptyBimap
<1> QED BY <1>1, <1>2, <1>3, <1>4, <1>5, <1>6

\* There is nothing in the empty map, and the first socket becomes the channel.
LEMMA EmptyMapFacts ==
    ASSUME NEW s
    PROVE  /\ ~IsOpen(EmptyMap) /\ ~HasChannel(EmptyMap, s)
           /\ CanInsertChannel(EmptyMap, s) /\ InsertChannel(EmptyMap, s) = {ChannelOf(s)}
<1>1. /\ EmptyMap.readers = EmptyBimap /\ EmptyMap.writers = EmptyBimap
      /\ EmptyBimap.first = NoSid /\ EmptyBimap.second = {}
    BY DEF EmptyMap, EmptyBimap
<1>2. CanInsert(EmptyBimap, s) /\ BimapInsert(EmptyBimap, s) = OneWay(s)
    BY <1>1 DEF CanInsert, BimapInsert, OneWay
<1>3. CanInsertChannel(EmptyMap, s)
    BY <1>1, <1>2 DEF CanInsertChannel
<1>4. InsertChannel(EmptyMap, s) = Maps({OneWay(s)}, {OneWay(s)})
    BY <1>1, <1>2, <1>3 DEF InsertChannel
<1>5. Maps({OneWay(s)}, {OneWay(s)}) = {ChannelOf(s)}
    BY DEF Maps, ChannelOf
<1> QED BY <1>1, <1>3, <1>4, <1>5 DEF IsOpen, HasChannel

\* A socket is closed at the end of the step, and its channel is gone at once.
LEMMA Destroyed ==
    ASSUME Orderly, Shapes, NEW n \in Nodes, SocksFit(n), ChannelFits(n),
           NEW sid \in Pooled(n), DestroyChannel(n, sid)
    PROVE  /\ closing' = [closing EXCEPT ![n] = @ \cup {sid}]
           /\ DOMAIN channels' = Nodes
           /\ channels'[n] = IF channels[n] = ChannelOf(sid) THEN EmptyMap ELSE channels[n]
           /\ \A m \in Nodes : m # n => channels'[m] = channels[m]
           /\ told' = [told EXCEPT ![n] = IF channels[n] = ChannelOf(sid) THEN FALSE ELSE @]
           /\ failed' = failed
<1>1. /\ DOMAIN channels = Nodes /\ failed \in [Nodes -> BOOLEAN] /\ told \in [Nodes -> BOOLEAN]
      /\ ~failed[n]
    BY DEF Shapes, ChannelFits
<1>2. /\ sid # NoSid /\ \A s \in Pooled(n) : s # NoSid
    <2>1. Pooled(n) \subseteq Sids
        BY DEF Pooled, OfKind, SocksFit
    <2> QED BY <2>1 DEF Sids, NoSid
<1>3. CASE channels[n] = ChannelOf(sid)
    <2>1. /\ HasChannel(channels[n], sid) /\ IsOpen(channels[n]) /\ ~IsBroken(channels[n])
          /\ ClosedSockets(channels[n]) = {sid}
        BY <1>2, <1>3, ChannelOfSocket
    <2>2. CloseChannel(channels[n]) = {EmptyMap}
        <3>1. CloseChannel(channels[n]) = Maps(EraseByFirst(OneWay(sid)), EraseByFirst(OneWay(sid)))
            BY <1>3, <2>1 DEF CloseChannel, ChannelOf
        <3>2. EraseByFirst(OneWay(sid)) = {EmptyBimap}
            BY <1>2, ErasedOneWay
        <3> QED BY <3>1, <3>2 DEF Maps, EmptyMap
    <2>3. /\ \E rest \in {EmptyMap} : channels' = [channels EXCEPT ![n] = rest]
          /\ closing' = [closing EXCEPT ![n] = @ \cup ({sid} \cap Pooled(n))]
          /\ told' = [told EXCEPT ![n] = @ /\ FALSE]
          /\ failed' = [failed EXCEPT ![n] = FALSE]
        BY <2>1, <2>2 DEF DestroyChannel
    <2>4. {sid} \cap Pooled(n) = {sid}
        OBVIOUS
    <2>5. failed' = failed
        BY <1>1, <2>3
    <2>6. told' = [told EXCEPT ![n] = IF channels[n] = ChannelOf(sid) THEN FALSE ELSE @]
        BY <1>3, <2>3
    <2>7. /\ DOMAIN channels' = Nodes /\ channels'[n] = EmptyMap
          /\ \A m \in Nodes : m # n => channels'[m] = channels[m]
        BY <1>1, <2>3
    <2> QED BY <1>3, <2>3, <2>4, <2>5, <2>6, <2>7
<1>4. CASE channels[n] # ChannelOf(sid)
    <2>1. ~HasChannel(channels[n], sid)
        <3>1. CASE channels[n] = EmptyMap
            BY <3>1, EmptyMapFacts
        <3>2. CASE channels[n] # EmptyMap
            <4>1. PICK s \in Pooled(n) : channels[n] = ChannelOf(s)
                BY <3>2 DEF ChannelFits
            <4> QED BY <1>2, <1>4, <4>1, ChannelOfSocket
        <3> QED BY <3>1, <3>2
    <2>2. /\ closing' = [closing EXCEPT ![n] = @ \cup ({sid} \cap Pooled(n))]
          /\ channels' = channels /\ told' = told /\ failed' = failed
        BY <2>1 DEF DestroyChannel
    <2>3. {sid} \cap Pooled(n) = {sid}
        OBVIOUS
    <2>4. told = [told EXCEPT ![n] = @]
        BY <1>1
    <2>5. told' = [told EXCEPT ![n] = IF channels[n] = ChannelOf(sid) THEN FALSE ELSE @]
        BY <1>4, <2>2, <2>4
    <2> QED BY <1>1, <1>4, <2>2, <2>3, <2>5
<1> QED BY <1>3, <1>4

-----------------------------------------------------------------------------
(***************************************************************************)
(* Connections that are attempted.                                         *)
(***************************************************************************)

\* One node acts, with no new connection: it has to fit afterwards, and to keep its
\* channel if it has answered.
LEMMA OneNodeActs ==
    ASSUME PeerInvariant, NEW n \in Nodes, Shapes', ConnsFit', ConnsGoOn,
           DOMAIN conns' = DOMAIN conns,
           \A m \in Nodes : m # n => NodeSame(m),
           NodeFits(n)', SocketsStay(n),
           \A c \in DOMAIN conns : \A m \in Nodes : Answered(c, m)' =>
               \/ HasChannelOf(m, c)'
               \/ Answered(c, m) /\ (HasChannelOf(m, c) => channels'[m] = channels[m])
    PROVE  PeerInvariant'
<1>1. Shapes /\ ConnsFit /\ (\A m \in Nodes : NodeFits(m)) /\ OneConnection /\ AnsweredHas
    BY DEF PeerInvariant
<1>2. ASSUME NEW m \in Nodes PROVE NodeFits(m)' /\ SocketsStay(m)
    <2>1. CASE m = n
        BY <2>1
    <2>2. CASE m # n
        BY <1>1, <2>2, SameFits
    <2> QED BY <2>1, <2>2
<1>3. \A m \in Nodes : SocksFit(m)
    BY <1>1 DEF NodeFits
<1>4. OneConnection'
    BY <1>1, <1>2, <1>3, OneConnectionStays
<1>5. AnsweredHas'
    BY <1>1, <1>2, AnsweredStays
<1> QED BY <1>2, <1>4, <1>5 DEF PeerInvariant

\* The same when the connections are left alone and the channel is.
LEMMA OneNodeOnly ==
    ASSUME PeerInvariant, NEW n \in Nodes, Shapes', conns' = conns,
           \A m \in Nodes : m # n => NodeSame(m),
           NodeFits(n)', SocketsStay(n), channels'[n] = channels[n]
    PROVE  PeerInvariant'
<1>1. ConnsFit' /\ ConnsGoOn /\ DOMAIN conns' = DOMAIN conns
    BY DEF PeerInvariant, ConnsFit, ConnsGoOn
<1>2. ASSUME NEW c \in DOMAIN conns, NEW m \in Nodes, Answered(c, m)'
      PROVE  Answered(c, m) /\ channels'[m] = channels[m]
    BY <1>2 DEF Answered, RequesterCompletes, NodeSame
<1> QED BY <1>1, <1>2, OneNodeActs

\* One socket that changes, and fits.
LEMMA SocksFitStays ==
    ASSUME NEW n \in Nodes, SocksFit(n), ConnsGoOn, NEW sid,
           DOMAIN socks'[n] \subseteq DOMAIN socks[n] \cup {sid},
           \A s \in DOMAIN socks'[n] : s # sid => socks'[n][s] = socks[n][s],
           sid \in DOMAIN socks'[n] =>
               /\ sid \in Sids /\ SocketFits(n, sid)'
               /\ \A s \in DOMAIN socks[n] :
                      s # sid /\ socks[n][s].conn = socks'[n][sid].conn => socks'[n][sid].conn = 0
    PROVE  SocksFit(n)'
<1>1. ASSUME NEW s \in DOMAIN socks'[n], s # sid PROVE SocketFits(n, s)'
    <2>1. SocketFits(n, s) /\ socks'[n][s] = socks[n][s]
        BY <1>1 DEF SocksFit
    <2> QED BY <1>1, <2>1 DEF SocketFits, ConnOf, ConnsGoOn
<1>2. \A s \in DOMAIN socks'[n] : SocketFits(n, s)'
    BY <1>1
<1>3. DOMAIN socks'[n] \subseteq Sids
    BY DEF SocksFit
<1>4. ASSUME NEW s \in Pooled(n)', NEW t \in Pooled(n)', socks'[n][s].conn = socks'[n][t].conn
      PROVE  s = t
    <2>1. s \in DOMAIN socks'[n] /\ t \in DOMAIN socks'[n]
        BY DEF Pooled, OfKind
    <2>2. socks'[n][s].conn # 0 /\ socks'[n][t].conn # 0
        BY <1>2, <2>1 DEF SocketFits, Pooled, OfKind
    <2>3. CASE s = sid \/ t = sid
        BY <1>4, <2>1, <2>2, <2>3
    <2>4. CASE s # sid /\ t # sid
        <3>1. /\ s \in DOMAIN socks[n] /\ t \in DOMAIN socks[n]
              /\ socks'[n][s] = socks[n][s] /\ socks'[n][t] = socks[n][t]
            BY <2>1, <2>4
        <3>2. s \in Pooled(n) /\ t \in Pooled(n)
            BY <2>2, <3>1, PooledHas
        <3> QED BY <1>4, <3>1, <3>2 DEF SocksFit
    <2> QED BY <2>3, <2>4
<1> QED BY <1>2, <1>3, <1>4 DEF SocksFit

\* A node without an attempt makes one.
LEMMA AttemptFits ==
    ASSUME Shapes, ConnsFit, NEW n \in Nodes, NodeFits(n), Active(n) = {},
           AddSocket(n, FreeSid(n), 0, "connecting"), conns' = conns,
           polled'[n] = polled[n], served'[n] = served[n], cache'[n] = cache[n],
           closing'[n] = closing[n], channels'[n] = channels[n], told'[n] = told[n],
           rejected'[n] = rejected[n], failed'[n] = failed[n],
           closing[n] # {} => phase'[n] = phase[n],
           closing[n] \cap OfKind(n, "connected") = {},
           hosts'[n], n \in Connectors, retry'[n].deferred = 0
    PROVE  NodeFits(n)' /\ SocketsStay(n)
<1>1. SocksFit(n) /\ StepFits(n) /\ CacheFits(n) /\ OneAttempt(n) /\ ChannelFits(n)
    BY DEF NodeFits
<1>2. PICK sid : sid = FreeSid(n)
    OBVIOUS
<1>3. OfKind(n, "connecting") = {}
    BY DEF Active
<1>4. sid \in Sids /\ sid \notin DOMAIN socks[n]
    BY <1>1, <1>2, <1>3, FreeWithin
<1>5. /\ DOMAIN socks'[n] = DOMAIN socks[n] \cup {sid}
      /\ socks'[n][sid] = [conn |-> 0, kind |-> "connecting"]
      /\ \A s \in DOMAIN socks[n] : s # sid => socks'[n][s] = socks[n][s]
    BY <1>2, SocketAdded
<1>6. /\ OfKind(n, "connecting")' = {sid}
      /\ OfKind(n, "connected")' = OfKind(n, "connected")
      /\ OfKind(n, "accepted")' = OfKind(n, "accepted")
    <2>1. OfKind(n, "connecting")' = OfKind(n, "connecting") \cup {sid}
        BY <1>2, KindsAdded
    <2>2. OfKind(n, "connected")' = OfKind(n, "connected") \ {sid}
        BY <1>2, KindsAdded
    <2>3. OfKind(n, "accepted")' = OfKind(n, "accepted") \ {sid}
        BY <1>2, KindsAdded
    <2>4. sid \notin OfKind(n, "connected") /\ sid \notin OfKind(n, "accepted")
        BY <1>4 DEF OfKind
    <2> QED BY <1>3, <2>1, <2>2, <2>3, <2>4
<1>7. Pooled(n)' = Pooled(n) /\ ConnsGoOn
    BY <1>6 DEF Pooled, ConnsGoOn
<1>8. \A s \in Pooled(n) : s \in DOMAIN socks[n] /\ socks'[n][s] = socks[n][s] /\ ConnOf(n, s)' = ConnOf(n, s)
    BY <1>4, <1>5 DEF Pooled, OfKind, ConnOf
<1>9. SocksFit(n)'
    <2>1. SocketFits(n, sid)'
        BY <1>5 DEF SocketFits, Kinds
    <2> QED BY <1>1, <1>4, <1>5, <1>7, <2>1, SocksFitStays
<1>10. StepFits(n)'
    <2>1. ASSUME NEW s \in closing[n] PROVE ToBeClosed(n, s)'
        <3>1. ToBeClosed(n, s) /\ s \in Pooled(n)
            BY <1>1 DEF StepFits
        <3>2. phase'[n] = phase[n]
            OBVIOUS
        <3> QED BY <1>8, <3>1, <3>2 DEF ToBeClosed
    <2> QED BY <1>1, <1>7, <2>1 DEF StepFits
<1>11. CacheFits(n)'
    <2>1. \A s \in OfKind(n, "connected") : s \in Pooled(n)
        BY DEF Pooled
    <2> QED BY <1>1, <1>6, <1>8, <2>1 DEF CacheFits
<1>12. OneAttempt(n)'
    <2>1. Active(n)' = {sid} /\ closing'[n] \cap OfKind(n, "connected")' = closing[n] \cap OfKind(n, "connected")
        BY <1>6 DEF Active
    <2> QED BY <1>1, <2>1 DEF OneAttempt
<1>13. ChannelFits(n)'
    <2>1. ASSUME NEW s \in Pooled(n), Carries(n, s) PROVE Carries(n, s)'
        BY <1>7, <1>8, <2>1 DEF Carries, RequesterCompletes
    <2> QED BY <1>1, <1>7, <2>1 DEF ChannelFits
<1> QED BY <1>7, <1>8, <1>9, <1>10, <1>11, <1>12, <1>13 DEF NodeFits, SocketsStay

\* connect, called by the application, keeps the invariant.
LEMMA ConnectPeerKeeps ==
    ASSUME Orderly, PeerInvariant, NEW n \in Nodes, ConnectPeer(n)
    PROVE  PeerInvariant'
<1>1. /\ Shapes /\ ConnsFit /\ NodeFits(n)
      /\ SocksFit(n) /\ StepFits(n) /\ CacheFits(n) /\ OneAttempt(n) /\ ChannelFits(n)
    BY DEF PeerInvariant, NodeFits
<1>2. PICK outcome \in FirstOutcomes :
          /\ hosts' = [hosts EXCEPT ![n] = outcome = "connecting"]
          /\ IF outcome = "connecting"
             THEN AddSocket(n, FreeSid(n), 0, "connecting")
             ELSE UNCHANGED socks
          /\ IF outcome = "unreachable" THEN ScheduleHost(n) ELSE UNCHANGED <<retry, failed>>
    BY DEF ConnectPeer
<1>3. retry' = retry /\ failed' = failed
    BY <1>2 DEF Orderly
<1>4. /\ n \in Connectors /\ ~hosts[n]
      /\ conns' = conns /\ polled' = polled /\ served' = served /\ cache' = cache
      /\ channels' = channels /\ told' = told /\ rejected' = rejected
      /\ closing' = closing /\ phase' = phase
    BY DEF ConnectPeer, handshakes
<1>5. CASE outcome = "connecting"
    <2>1. AddSocket(n, FreeSid(n), 0, "connecting") /\ hosts' = [hosts EXCEPT ![n] = TRUE]
        BY <1>2, <1>5
    <2>2. DOMAIN socks' = Nodes /\ \A m \in Nodes : m # n => socks'[m] = socks[m]
        BY <1>1, <2>1, SocketAdded
    <2>3. /\ hosts' \in [Nodes -> BOOLEAN] /\ hosts'[n]
          /\ \A m \in Nodes : m # n => hosts'[m] = hosts[m]
        BY <1>1, <2>1 DEF Shapes
    <2>4. Shapes'
        BY <1>1, <1>3, <1>4, <2>2, <2>3 DEF Shapes
    <2>5. \A m \in Nodes : m # n => NodeSame(m)
        BY <1>3, <1>4, <2>2, <2>3 DEF NodeSame
    <2>6. Active(n) = {} /\ closing[n] \cap OfKind(n, "connected") = {} /\ retry'[n].deferred = 0
        BY <1>1, <1>3, <1>4 DEF OneAttempt, Active
    <2>7. NodeFits(n)' /\ SocketsStay(n)
        BY <1>1, <1>3, <1>4, <2>1, <2>3, <2>6, AttemptFits
    <2> QED BY <1>4, <2>4, <2>5, <2>7, OneNodeOnly
<1>6. CASE outcome # "connecting"
    <2>1. socks' = socks /\ hosts' = [hosts EXCEPT ![n] = FALSE]
        BY <1>2, <1>6
    <2>2. hosts' \in [Nodes -> BOOLEAN] /\ \A m \in Nodes : hosts'[m] = hosts[m]
        BY <1>1, <1>4, <2>1 DEF Shapes
    <2>3. Shapes'
        BY <1>1, <1>3, <1>4, <2>1, <2>2 DEF Shapes
    <2>4. \A m \in Nodes : NodeSame(m)
        BY <1>3, <1>4, <2>1, <2>2 DEF NodeSame
    <2>5. ConnsGoOn
        BY <1>4 DEF ConnsGoOn
    <2>6. NodeFits(n)' /\ SocketsStay(n)
        BY <1>1, <2>4, <2>5, SameFits
    <2> QED BY <1>4, <2>3, <2>4, <2>6, OneNodeOnly
<1> QED BY <1>5, <1>6

\* n is as far as the phase p of its step.
LEMMA AtPhase ==
    ASSUME Shapes, NEW n \in Nodes, NEW p \in Listening .. Timers, At(n, p)
    PROVE  /\ phase' \in [Nodes -> Listening .. Timers]
           /\ phase[n] <= p /\ phase'[n] = p
           /\ \A m \in Nodes : m # n => phase'[m] = phase[m]
BY DEF At, Shapes

\* In the first two phases of a step nothing waits to be closed.
LEMMA NothingCloses ==
    ASSUME Shapes, NEW n \in Nodes, StepFits(n), phase[n] <= Connecting
    PROVE  closing[n] = {}
BY DEF StepFits, Shapes, Connecting, Writing, Listening, Timers

\* A deferred connection that comes due keeps the invariant.
LEMMA ReconnectKeeps ==
    ASSUME PeerInvariant, NEW n \in Nodes, Reconnect(n)
    PROVE  PeerInvariant'
<1>1. /\ Shapes /\ ConnsFit /\ NodeFits(n)
      /\ SocksFit(n) /\ StepFits(n) /\ CacheFits(n) /\ OneAttempt(n) /\ ChannelFits(n)
    BY DEF PeerInvariant, NodeFits
<1>2. PICK r : r = [retry[n] EXCEPT !.deferred = @ - 1]
    OBVIOUS
<1>3. PICK outcome \in LaterOutcomes :
          /\ retry' = [retry EXCEPT ![n] = IF outcome = "unreachable" THEN Scheduled(n, r) ELSE r]
          /\ IF outcome = "connecting"
             THEN AddSocket(n, FreeSid(n), 0, "connecting")
             ELSE UNCHANGED socks
    BY <1>2 DEF Reconnect
<1>4. /\ At(n, Connecting) /\ retry[n].deferred > 0
      /\ conns' = conns /\ polled' = polled /\ served' = served /\ cache' = cache
      /\ channels' = channels /\ told' = told /\ rejected' = rejected /\ hosts' = hosts
      /\ closing' = closing /\ failed' = failed
    BY DEF Reconnect, handshakes
<1>5. /\ phase' \in [Nodes -> Listening .. Timers] /\ phase[n] <= Connecting
      /\ \A m \in Nodes : m # n => phase'[m] = phase[m]
    BY <1>1, <1>4, AtPhase DEF Listening, Connecting, Timers
<1>6. closing[n] = {}
    BY <1>1, <1>5, NothingCloses
<1>7. retry[n].deferred = 1 /\ retry[n] \in Attempts /\ Active(n) = {} /\ hosts[n] /\ n \in Connectors
    BY <1>1, <1>4 DEF OneAttempt, Shapes, Attempts
<1>8. r \in Attempts /\ r.deferred = 0
    BY <1>2, <1>7 DEF Attempts
<1>9. PICK next \in Attempts : /\ retry' = [retry EXCEPT ![n] = next]
                               /\ next.deferred \in {0, 1}
                               /\ outcome = "connecting" => next.deferred = 0
    <2>1. CASE outcome = "unreachable"
        <3>1. PICK x \in Attempts : x = Scheduled(n, r) /\ x.deferred \in {0, 1}
            BY <1>8, ScheduledOne
        <3>2. retry' = [retry EXCEPT ![n] = x]
            BY <1>3, <2>1, <3>1
        <3> QED BY <2>1, <3>1, <3>2
    <2>2. CASE outcome # "unreachable"
        BY <1>3, <1>8, <2>2
    <2> QED BY <2>1, <2>2
<1>10. /\ retry' \in [Nodes -> Attempts] /\ retry'[n] = next
       /\ \A m \in Nodes : m # n => retry'[m] = retry[m]
    BY <1>1, <1>9 DEF Shapes, Attempts
<1>11. CASE outcome = "connecting"
    <2>1. AddSocket(n, FreeSid(n), 0, "connecting")
        BY <1>3, <1>11
    <2>2. DOMAIN socks' = Nodes /\ \A m \in Nodes : m # n => socks'[m] = socks[m]
        BY <1>1, <2>1, SocketAdded
    <2>3. Shapes'
        BY <1>1, <1>4, <1>5, <1>10, <2>2 DEF Shapes, Attempts
    <2>4. \A m \in Nodes : m # n => NodeSame(m)
        BY <1>4, <1>5, <1>10, <2>2 DEF NodeSame
    <2>5. hosts'[n] /\ retry'[n].deferred = 0
        BY <1>4, <1>7, <1>9, <1>10, <1>11
    <2>6. NodeFits(n)' /\ SocketsStay(n)
        BY <1>1, <1>4, <1>6, <1>7, <2>1, <2>5, AttemptFits
    <2> QED BY <1>4, <2>3, <2>4, <2>6, OneNodeOnly
<1>12. CASE outcome # "connecting"
    <2>1. socks' = socks
        BY <1>3, <1>12
    <2>2. Shapes'
        BY <1>1, <1>4, <1>5, <1>10, <2>1 DEF Shapes, Attempts
    <2>3. \A m \in Nodes : m # n => NodeSame(m)
        BY <1>4, <1>5, <1>10, <2>1 DEF NodeSame
    <2>4. /\ Pooled(n)' = Pooled(n) /\ OfKind(n, "connecting")' = OfKind(n, "connecting")
          /\ OfKind(n, "connected")' = OfKind(n, "connected")
        BY <2>1, SocksSame
    <2>5. SocksFit(n)'
        BY <1>1, <1>4, <2>1, <2>4 DEF SocksFit, SocketFits, ConnOf
    <2>6. StepFits(n)'
        BY <1>1, <1>4, <1>6, <2>4 DEF StepFits
    <2>7. CacheFits(n)'
        BY <1>1, <1>4, <2>1, <2>4 DEF CacheFits, ConnOf
    <2>8. OneAttempt(n)'
        <3>1. Active(n)' = {}
            BY <1>4, <1>7, <2>4 DEF Active
        <3> QED BY <1>1, <1>4, <1>6, <1>7, <1>9, <1>10, <3>1 DEF OneAttempt
    <2>9. ChannelFits(n)'
        BY <1>1, <1>4, <2>1, <2>4 DEF ChannelFits, Carries, ConnOf, RequesterCompletes
    <2>10. NodeFits(n)' /\ SocketsStay(n)
        BY <2>1, <2>4, <2>5, <2>6, <2>7, <2>8, <2>9 DEF NodeFits, SocketsStay
    <2> QED BY <1>4, <2>2, <2>3, <2>10, OneNodeOnly
<1> QED BY <1>11, <1>12

\* A socket that was connecting is removed: there is no attempt any more.
LEMMA RemovedFits ==
    ASSUME Shapes, ConnsFit, NEW n \in Nodes, NodeFits(n), closing[n] = {},
           NEW sid \in OfKind(n, "connecting"), RemoveSockets(n, {sid}), conns' = conns,
           polled'[n] = polled[n], served'[n] = served[n], cache'[n] = cache[n],
           closing'[n] = closing[n], channels'[n] = channels[n], told'[n] = told[n],
           rejected'[n] = rejected[n], failed'[n] = failed[n],
           hosts'[n] = hosts[n], retry'[n].deferred \in {0, 1}
    PROVE  hosts[n] /\ NodeFits(n)' /\ SocketsStay(n)
<1>1. SocksFit(n) /\ StepFits(n) /\ CacheFits(n) /\ OneAttempt(n) /\ ChannelFits(n)
    BY DEF NodeFits
<1>2. /\ DOMAIN socks'[n] = DOMAIN socks[n] \ {sid}
      /\ \A s \in DOMAIN socks[n] \ {sid} : socks'[n][s] = socks[n][s]
    BY SocketsRemoved
<1>3. /\ OfKind(n, "connecting")' = OfKind(n, "connecting") \ {sid}
      /\ OfKind(n, "connected")' = OfKind(n, "connected") \ {sid}
      /\ OfKind(n, "accepted")' = OfKind(n, "accepted") \ {sid}
    BY KindsRemoved
<1>4. sid \notin OfKind(n, "connected") /\ sid \notin OfKind(n, "accepted")
    BY DEF OfKind
<1>5. Pooled(n)' = Pooled(n) /\ ConnsGoOn /\ OfKind(n, "connected")' = OfKind(n, "connected")
    BY <1>3, <1>4 DEF Pooled, ConnsGoOn
<1>6. \A s \in Pooled(n) : socks'[n][s] = socks[n][s] /\ ConnOf(n, s)' = ConnOf(n, s)
    BY <1>2, <1>4 DEF Pooled, OfKind, ConnOf
<1>7. hosts[n] /\ n \in Connectors
    BY <1>1 DEF OneAttempt
<1>8. SocksFit(n)'
    BY <1>1, <1>2, <1>5, SocksFitStays
<1>9. StepFits(n)'
    BY <1>1, <1>5 DEF StepFits
<1>10. CacheFits(n)'
    <2>1. \A s \in OfKind(n, "connected") : s \in Pooled(n)
        BY DEF Pooled
    <2> QED BY <1>1, <1>5, <1>6, <2>1 DEF CacheFits
<1>11. OneAttempt(n)'
    <2>1. Active(n) = {sid}
        BY <1>1 DEF OneAttempt, Active
    <2>2. Active(n)' = {}
        BY <1>3, <2>1 DEF Active
    <2> QED BY <1>1, <1>7, <2>2 DEF OneAttempt
<1>12. ChannelFits(n)'
    <2>1. ASSUME NEW s \in Pooled(n), Carries(n, s) PROVE Carries(n, s)'
        BY <1>5, <1>6, <2>1 DEF Carries, RequesterCompletes
    <2> QED BY <1>1, <1>5, <2>1 DEF ChannelFits
<1> QED BY <1>5, <1>6, <1>7, <1>8, <1>9, <1>10, <1>11, <1>12 DEF NodeFits, SocketsStay

\* A connection that is refused, and scheduled again, keeps the invariant.
LEMMA RefusedKeeps ==
    ASSUME PeerInvariant, NEW n \in Nodes, NEW sid, Refused(n, sid)
    PROVE  PeerInvariant'
<1>1. /\ Shapes /\ ConnsFit /\ NodeFits(n)
      /\ SocksFit(n) /\ StepFits(n) /\ CacheFits(n) /\ OneAttempt(n) /\ ChannelFits(n)
    BY DEF PeerInvariant, NodeFits
<1>2. /\ At(n, Connecting) /\ sid \in OfKind(n, "connecting") /\ RemoveSockets(n, {sid})
      /\ conns' = conns /\ polled' = polled /\ served' = served /\ cache' = cache
      /\ channels' = channels /\ told' = told /\ rejected' = rejected /\ hosts' = hosts
      /\ closing' = closing
    BY DEF Refused, handshakes
<1>3. /\ phase' \in [Nodes -> Listening .. Timers] /\ phase[n] <= Connecting
      /\ \A m \in Nodes : m # n => phase'[m] = phase[m]
    BY <1>1, <1>2, AtPhase DEF Listening, Connecting, Timers
<1>4. closing[n] = {}
    BY <1>1, <1>3, NothingCloses
<1>5. hosts[n] /\ retry[n].deferred = 0 /\ retry[n] \in Attempts
    <2>1. sid \in Active(n)
        BY <1>2 DEF Active
    <2> QED BY <1>1, <1>2, <2>1 DEF OneAttempt, Shapes, Attempts
<1>6. /\ retry' = [retry EXCEPT ![n] = Scheduled(n, retry[n])]
      /\ failed' = [failed EXCEPT ![n] = FALSE]
    BY <1>5 DEF Refused, ScheduleHost
<1>7. PICK next \in Attempts : next = Scheduled(n, retry[n]) /\ next.deferred \in {0, 1}
    BY <1>5, ScheduledOne
<1>8. /\ retry' \in [Nodes -> Attempts] /\ retry'[n].deferred \in {0, 1}
      /\ \A m \in Nodes : m # n => retry'[m] = retry[m]
    BY <1>1, <1>6, <1>7 DEF Shapes, Attempts
<1>9. failed' = failed
    BY <1>1, <1>6 DEF Shapes, ChannelFits
<1>10. DOMAIN socks' = Nodes /\ \A m \in Nodes : m # n => socks'[m] = socks[m]
    BY <1>1, <1>2, SocketsRemoved
<1>11. Shapes'
    BY <1>1, <1>2, <1>3, <1>8, <1>9, <1>10 DEF Shapes, Attempts
<1>12. \A m \in Nodes : m # n => NodeSame(m)
    BY <1>2, <1>3, <1>8, <1>9, <1>10 DEF NodeSame
<1>13. NodeFits(n)' /\ SocketsStay(n)
    BY <1>1, <1>2, <1>4, <1>8, <1>9, RemovedFits
<1> QED BY <1>2, <1>11, <1>12, <1>13, OneNodeOnly

\* A connection that fails otherwise, and is dropped, keeps the invariant.
LEMMA ConnectFailsKeeps ==
    ASSUME PeerInvariant, NEW n \in Nodes, NEW sid, ConnectFails(n, sid)
    PROVE  PeerInvariant'
<1>1. /\ Shapes /\ ConnsFit /\ NodeFits(n)
      /\ SocksFit(n) /\ StepFits(n) /\ CacheFits(n) /\ OneAttempt(n) /\ ChannelFits(n)
    BY DEF PeerInvariant, NodeFits
<1>2. /\ At(n, Connecting) /\ sid \in OfKind(n, "connecting") /\ RemoveSockets(n, {sid})
      /\ conns' = conns /\ polled' = polled /\ served' = served /\ cache' = cache
      /\ channels' = channels /\ told' = told /\ rejected' = rejected /\ hosts' = hosts
      /\ closing' = closing /\ retry' = retry /\ failed' = failed
    BY DEF ConnectFails, handshakes
<1>3. /\ phase' \in [Nodes -> Listening .. Timers] /\ phase[n] <= Connecting
      /\ \A m \in Nodes : m # n => phase'[m] = phase[m]
    BY <1>1, <1>2, AtPhase DEF Listening, Connecting, Timers
<1>4. closing[n] = {}
    BY <1>1, <1>3, NothingCloses
<1>5. retry'[n].deferred \in {0, 1}
    BY <1>1, <1>2 DEF OneAttempt
<1>6. DOMAIN socks' = Nodes /\ \A m \in Nodes : m # n => socks'[m] = socks[m]
    BY <1>1, <1>2, SocketsRemoved
<1>7. Shapes'
    BY <1>1, <1>2, <1>3, <1>6 DEF Shapes
<1>8. \A m \in Nodes : m # n => NodeSame(m)
    BY <1>2, <1>3, <1>6 DEF NodeSame
<1>9. NodeFits(n)' /\ SocketsStay(n)
    BY <1>1, <1>2, <1>4, <1>5, RemovedFits
<1> QED BY <1>2, <1>7, <1>8, <1>9, OneNodeOnly

-----------------------------------------------------------------------------
(***************************************************************************)
(* Connections that come and go.                                           *)
(***************************************************************************)

\* The new connection is the last, and has asked for a handshake.
LEMMA ConnectionAdded ==
    ASSUME ConnsFit, NEW n \in Connectors, Len(conns) < MaxConnections,
           conns' = Append(conns, [client |-> n, live |-> TRUE, accepted |-> FALSE,
                                   packet |-> "request"])
    PROVE  /\ ConnsFit' /\ ConnsGoOn
           /\ Len(conns) + 1 \notin DOMAIN conns /\ Len(conns) + 1 \in Nat \ {0}
           /\ DOMAIN conns \subseteq Nat
           /\ DOMAIN conns' = DOMAIN conns \cup {Len(conns) + 1}
           /\ \A d \in DOMAIN conns : conns'[d] = conns[d] /\ d < Len(conns) + 1
           /\ conns'[Len(conns) + 1] = [client |-> n, live |-> TRUE, accepted |-> FALSE,
                                        packet |-> "request"]
<1>1. PICK new \in Connection :
          new = [client |-> n, live |-> TRUE, accepted |-> FALSE, packet |-> "request"]
    BY DEF Connection
<1>2. conns \in Seq(Connection) /\ conns' = Append(conns, new)
    BY <1>1 DEF ConnsFit
<1>3. Len(conns) \in Nat /\ DOMAIN conns = 1 .. Len(conns)
    BY <1>2, LenProperties
<1>4. /\ conns' \in Seq(Connection) /\ Len(conns') = Len(conns) + 1
      /\ \A i \in 1 .. Len(conns) : conns'[i] = conns[i]
      /\ conns'[Len(conns) + 1] = new
    BY <1>2, AppendProperties
<1>5. DOMAIN conns' = 1 .. Len(conns) + 1
    BY <1>3, <1>4, LenProperties
<1>6. /\ Len(conns) + 1 \notin DOMAIN conns /\ Len(conns) + 1 \in Nat \ {0}
      /\ DOMAIN conns \subseteq Nat
      /\ DOMAIN conns' = DOMAIN conns \cup {Len(conns) + 1}
      /\ \A d \in DOMAIN conns : conns'[d] = conns[d] /\ d < Len(conns) + 1
    BY <1>3, <1>4, <1>5
<1>7. MaxConnections \in Nat
    BY PeerAssumption DEF PeerAssumption
<1>8. ConnsFit'
    <2>1. ASSUME NEW c \in DOMAIN conns'
          PROVE  /\ conns'[c].packet # "none" => conns'[c].live
                 /\ conns'[c].packet = "response" => conns'[c].accepted
        <3>1. CASE c = Len(conns) + 1
            BY <1>1, <1>4, <3>1
        <3>2. CASE c # Len(conns) + 1
            <4>1. c \in DOMAIN conns /\ conns'[c] = conns[c]
                BY <1>6, <3>2
            <4> QED BY <4>1 DEF ConnsFit
        <3> QED BY <3>1, <3>2
    <2>2. Len(conns') <= MaxConnections
        BY <1>3, <1>4, <1>7
    <2> QED BY <1>4, <2>1, <2>2 DEF ConnsFit
<1>9. ConnsGoOn
    BY <1>6 DEF ConnsGoOn
<1> QED BY <1>1, <1>4, <1>6, <1>8, <1>9

\* A connection that is up keeps the invariant: its client had no other.
LEMMA ConnectedKeeps ==
    ASSUME PeerInvariant, NEW n \in Nodes, NEW sid, Connected(n, sid)
    PROVE  PeerInvariant'
<1>1. /\ Shapes /\ ConnsFit /\ NodeFits(n) /\ OneConnection /\ AnsweredHas
      /\ SocksFit(n) /\ StepFits(n) /\ CacheFits(n) /\ OneAttempt(n) /\ ChannelFits(n)
    BY DEF PeerInvariant, NodeFits
<1>2. PICK c : c = Len(conns) + 1
    OBVIOUS
<1>3. /\ At(n, Connecting) /\ sid \in OfKind(n, "connecting") /\ Len(conns) < MaxConnections
      /\ conns' = Append(conns, [client |-> n, live |-> TRUE, accepted |-> FALSE,
                                 packet |-> "request"])
      /\ AddSocket(n, sid, c, "connected")
      /\ retry' = [retry EXCEPT ![n].attempts = 0]
      /\ cache' = [cache EXCEPT ![n] = @ \cup {sid}]
      /\ polled' = [polled EXCEPT ![n] = @ \cup {<<"read", sid>>, <<"write", sid>>}]
      /\ served' = served /\ channels' = channels /\ told' = told /\ rejected' = rejected
      /\ hosts' = hosts /\ closing' = closing /\ failed' = failed
    BY <1>2 DEF Connected, Poll
<1>4. /\ phase' \in [Nodes -> Listening .. Timers] /\ phase[n] <= Connecting
      /\ \A m \in Nodes : m # n => phase'[m] = phase[m]
    BY <1>1, <1>3, AtPhase DEF Listening, Connecting, Timers
<1>5. closing[n] = {}
    BY <1>1, <1>4, NothingCloses
<1>6. /\ hosts[n] /\ n \in Connectors /\ retry[n].deferred = 0 /\ retry[n] \in Attempts
      /\ Active(n) = {sid}
    <2>1. sid \in Active(n)
        BY <1>3 DEF Active
    <2> QED BY <1>1, <1>3, <2>1 DEF OneAttempt, Shapes, Attempts
<1>7. OfKind(n, "connecting") = {sid} /\ OfKind(n, "connected") = {} /\ sid \notin Pooled(n)
    <2>1. sid \notin OfKind(n, "connected") /\ sid \notin OfKind(n, "accepted")
        BY <1>3 DEF OfKind
    <2> QED BY <1>3, <1>5, <1>6, <2>1 DEF Active, Pooled
<1>8. /\ ConnsFit' /\ ConnsGoOn
      /\ c \notin DOMAIN conns /\ c \in Nat \ {0} /\ DOMAIN conns \subseteq Nat
      /\ DOMAIN conns' = DOMAIN conns \cup {c}
      /\ \A d \in DOMAIN conns : conns'[d] = conns[d] /\ d < c
      /\ conns'[c] = [client |-> n, live |-> TRUE, accepted |-> FALSE, packet |-> "request"]
    BY <1>1, <1>2, <1>3, <1>6, ConnectionAdded
<1>9. sid \in DOMAIN socks[n] /\ sid \in Sids
    BY <1>1, <1>3 DEF OfKind, SocksFit
<1>10. /\ DOMAIN socks' = Nodes /\ \A m \in Nodes : m # n => socks'[m] = socks[m]
       /\ DOMAIN socks'[n] = DOMAIN socks[n] \cup {sid}
       /\ socks'[n][sid] = [conn |-> c, kind |-> "connected"]
       /\ \A s \in DOMAIN socks[n] : s # sid => socks'[n][s] = socks[n][s]
    BY <1>1, <1>3, SocketAdded
<1>11. /\ OfKind(n, "connecting")' = {} /\ OfKind(n, "connected")' = {sid}
       /\ OfKind(n, "accepted")' = OfKind(n, "accepted")
    <2>1. OfKind(n, "connecting")' = OfKind(n, "connecting") \ {sid}
        BY <1>1, <1>3, KindsAdded
    <2>2. OfKind(n, "connected")' = OfKind(n, "connected") \cup {sid}
        BY <1>1, <1>3, KindsAdded
    <2>3. OfKind(n, "accepted")' = OfKind(n, "accepted") \ {sid}
        BY <1>1, <1>3, KindsAdded
    <2> QED BY <1>7, <2>1, <2>2, <2>3 DEF Pooled
<1>12. Pooled(n)' = Pooled(n) \cup {sid}
    BY <1>7, <1>11 DEF Pooled
<1>13. ASSUME NEW s \in Pooled(n)
       PROVE  /\ s # sid /\ s \in DOMAIN socks[n] /\ socks[n][s].conn \in DOMAIN conns
              /\ socks'[n][s] = socks[n][s] /\ ConnOf(n, s)' = ConnOf(n, s)
    <2>1. s # sid /\ s \in DOMAIN socks[n]
        BY <1>7 DEF Pooled, OfKind
    <2>2. socks[n][s].conn \in DOMAIN conns
        BY <1>1, <2>1, PooledHas
    <2> QED BY <1>8, <1>10, <2>1, <2>2 DEF ConnOf
<1>14. Shapes'
    <2>1. retry' \in [Nodes -> Attempts]
        BY <1>1, <1>3, <1>6 DEF Shapes, Attempts
    <2> QED BY <1>1, <1>3, <1>4, <1>10, <2>1 DEF Shapes, Attempts
<1>15. \A m \in Nodes : m # n => NodeSame(m)
    BY <1>1, <1>3, <1>4, <1>10 DEF NodeSame, Shapes
<1>16. SocksFit(n)'
    <2>1. SocketFits(n, sid)'
        BY <1>8, <1>10 DEF SocketFits, Kinds, ConnOf
    <2>2. ASSUME NEW s \in DOMAIN socks[n], socks[n][s].conn = c PROVE FALSE
        <3>1. socks[n][s].conn \in DOMAIN conns
            BY <1>1, <1>8, <2>2, PooledHas
        <3> QED BY <1>8, <2>2, <3>1
    <2> QED BY <1>1, <1>8, <1>9, <1>10, <2>1, <2>2, SocksFitStays
<1>17. StepFits(n)'
    <2>1. polled'[n] = polled[n] \cup {<<"read", sid>>, <<"write", sid>>}
        BY <1>1, <1>3 DEF Shapes
    <2>2. polled'[n] \subseteq {"read", "write"} \X Pooled(n)'
        BY <1>1, <1>12, <2>1 DEF StepFits
    <2>3. \A s \in Pooled(n)' : <<"read", s>> \in polled'[n] /\ <<"write", s>> \in polled'[n]
        BY <1>1, <1>5, <1>12, <2>1 DEF StepFits
    <2> QED BY <1>1, <1>3, <1>5, <2>2, <2>3 DEF StepFits
<1>18. CacheFits(n)'
    <2>1. cache'[n] = cache[n] \cup {sid}
        BY <1>1, <1>3 DEF Shapes
    <2> QED BY <1>1, <1>7, <1>11, <2>1 DEF CacheFits
<1>19. OneAttempt(n)'
    <2>1. Active(n)' = {sid}
        BY <1>3, <1>5, <1>11 DEF Active
    <2>2. retry'[n].deferred = 0
        BY <1>1, <1>3, <1>6 DEF Shapes
    <2> QED BY <1>3, <1>5, <1>6, <2>1, <2>2 DEF OneAttempt
<1>20. ChannelFits(n)'
    <2>1. ASSUME NEW s \in Pooled(n), Carries(n, s) PROVE Carries(n, s)'
        <3>1. s \notin cache'[n]
            BY <1>1, <1>3, <1>13, <2>1 DEF Carries, Shapes
        <3> QED BY <1>3, <1>12, <1>13, <2>1, <3>1 DEF Carries, RequesterCompletes
    <2> QED BY <1>1, <1>3, <1>12, <2>1 DEF ChannelFits
<1>21. NodeFits(n)' /\ SocketsStay(n)
    BY <1>12, <1>13, <1>16, <1>17, <1>18, <1>19, <1>20 DEF NodeFits, SocketsStay
<1>22. ASSUME NEW m \in Nodes PROVE NodeFits(m)' /\ SocketsStay(m)
    <2>1. CASE m = n
        BY <1>21, <2>1
    <2>2. CASE m # n
        BY <1>8, <1>15, <2>2, SameFits DEF PeerInvariant
    <2> QED BY <2>1, <2>2
<1>23. OneConnection'
    <2>1. ASSUME NEW d \in DOMAIN conns, conns[d].live PROVE conns[d].client # n
        BY <1>1, <1>7, <2>1 DEF OneConnection, OfKind
    <2>2. ASSUME NEW d \in DOMAIN conns', NEW e \in DOMAIN conns',
                 conns'[d].client = conns'[e].client, d < e
          PROVE  ~conns'[d].live
        <3>1. d \in DOMAIN conns /\ conns'[d] = conns[d]
            <4>1. d # c
                <5>1. e = c \/ e \in DOMAIN conns
                    BY ONLY <1>8, <2>2
                <5>2. ASSUME e \in DOMAIN conns PROVE e < c
                    BY ONLY <1>8, <5>2
                <5>3. e \in Nat /\ c \in Nat
                    BY ONLY <1>8, <5>1
                <5>4. ASSUME d = c PROVE FALSE
                    BY ONLY <2>2, <5>1, <5>2, <5>3, <5>4
                <5> QED BY ONLY <5>4
            <4> QED BY <1>8, <4>1
        <3>2. CASE e = c
            BY <1>8, <2>1, <2>2, <3>1, <3>2
        <3>3. CASE e # c
            BY <1>1, <1>8, <2>2, <3>1, <3>3 DEF OneConnection
        <3> QED BY <3>2, <3>3
    <2>3. ASSUME NEW d \in DOMAIN conns', conns'[d].live
          PROVE  \E s \in DOMAIN socks'[conns'[d].client] :
                     /\ socks'[conns'[d].client][s].kind = "connected"
                     /\ socks'[conns'[d].client][s].conn = d
        <3>1. CASE d = c
            BY <1>8, <1>10, <3>1
        <3>2. CASE d # c
            <4>1. d \in DOMAIN conns /\ conns'[d] = conns[d]
                BY <1>8, <3>2
            <4>2. PICK m : m = conns[d].client
                OBVIOUS
            <4>3. m # n
                BY <2>1, <2>3, <4>1, <4>2
            <4>4. conns[d] \in Connection
                BY <1>1, <4>1 DEF ConnsFit
            <4>5. m \in Nodes
                BY <4>2, <4>4, PeerAssumption DEF Connection, PeerAssumption
            <4> QED BY <1>1, <1>10, <2>3, <4>1, <4>2, <4>3, <4>5 DEF OneConnection
        <3> QED BY <3>1, <3>2
    <2> QED BY <2>2, <2>3 DEF OneConnection
<1>24. AnsweredHas'
    <2>1. ASSUME NEW d \in DOMAIN conns', NEW m \in Nodes, Answered(d, m)'
          PROVE  d \in DOMAIN conns /\ Answered(d, m) /\ channels'[m] = channels[m]
        <3>1. d # c
            BY <1>8, <2>1 DEF Answered
        <3>2. d \in DOMAIN conns /\ conns'[d] = conns[d]
            BY <1>8, <3>1
        <3> QED BY <1>3, <2>1, <3>2 DEF Answered, RequesterCompletes
    <2> QED BY <1>1, <1>22, <2>1, AnsweredStays
<1> QED BY <1>8, <1>14, <1>22, <1>23, <1>24 DEF PeerInvariant

\* Who accepts a connection has no socket of it yet, nothing to be closed and a number
\* that is free.
LEMMA AcceptedNumber ==
    ASSUME PeerInvariant, NEW n \in Nodes, NEW c \in DOMAIN conns, Accept(n, c)
    PROVE  /\ closing[n] = {}
           /\ \A s \in Pooled(n) : socks[n][s].conn # c
           /\ FreeSid(n) \in Sids /\ FreeSid(n) \notin DOMAIN socks[n]
<1>1. Shapes /\ ConnsFit /\ SocksFit(n) /\ StepFits(n) /\ OneAttempt(n)
    BY DEF PeerInvariant, NodeFits
<1>2. At(n, Listening) /\ conns[c].client # n /\ ~conns[c].accepted
    BY DEF Accept
<1>3. phase[n] <= Connecting
    <2>1. phase[n] <= Listening
        BY <1>1, <1>2, AtPhase DEF Listening, Timers
    <2>2. phase[n] \in Listening .. Timers
        BY <1>1 DEF Shapes
    <2> QED BY <2>1, <2>2 DEF Listening, Connecting, Timers
<1>4. closing[n] = {}
    BY <1>1, <1>3, NothingCloses
<1>5. \A s \in Pooled(n) : socks[n][s].conn # c
    <2>1. ASSUME NEW s \in Pooled(n), socks[n][s].conn = c PROVE FALSE
        <3>1. s \in DOMAIN socks[n]
            BY DEF Pooled, OfKind
        <3> QED BY <1>1, <1>2, <2>1, <3>1, PooledHas DEF ConnOf
    <2> QED BY <2>1
<1>6. \A s, t \in OfKind(n, "connecting") : s = t
    BY <1>1 DEF OneAttempt, Active
<1> QED BY <1>1, <1>4, <1>5, <1>6, FreeWithin

\* The connection that is accepted is what it was, but for that.
LEMMA ConnectionAccepted ==
    ASSUME ConnsFit, NEW c \in DOMAIN conns, conns' = [conns EXCEPT ![c].accepted = TRUE]
    PROVE  /\ ConnsFit' /\ ConnsGoOn /\ DOMAIN conns' = DOMAIN conns
           /\ conns'[c].accepted /\ conns'[c].client = conns[c].client
           /\ \A d \in DOMAIN conns : /\ conns'[d].live = conns[d].live
                                      /\ conns'[d].client = conns[d].client
                                      /\ conns'[d].packet = conns[d].packet
<1>1. conns \in Seq(Connection) /\ DOMAIN conns = 1 .. Len(conns) /\ c \in 1 .. Len(conns)
    BY LenProperties DEF ConnsFit
<1>2. conns[c] \in Connection
    BY <1>1
<1>3. PICK new : new = [conns[c] EXCEPT !.accepted = TRUE]
    OBVIOUS
<1>4. /\ new \in Connection /\ new.client = conns[c].client /\ new.live = conns[c].live
      /\ new.packet = conns[c].packet /\ new.accepted
    BY <1>2, <1>3 DEF Connection
<1>5. conns' = [conns EXCEPT ![c] = new]
    BY <1>1, <1>3
<1>6. conns' \in Seq(Connection) /\ Len(conns') = Len(conns)
    BY ONLY <1>1, <1>4, <1>5, ExceptSeq
<1>7. /\ DOMAIN conns' = DOMAIN conns /\ conns'[c] = new
      /\ \A d \in DOMAIN conns : d # c => conns'[d] = conns[d]
    BY <1>5
<1>8. ConnsFit'
    BY <1>4, <1>6, <1>7 DEF ConnsFit
<1>9. ConnsGoOn
    BY <1>4, <1>7 DEF ConnsGoOn
<1> QED BY <1>4, <1>7, <1>8, <1>9

\* A connection that is accepted keeps the invariant.
LEMMA AcceptKeeps ==
    ASSUME PeerInvariant, NEW n \in Nodes, NEW c \in DOMAIN conns, Accept(n, c)
    PROVE  PeerInvariant'
<1>1. /\ Shapes /\ ConnsFit /\ NodeFits(n)
      /\ SocksFit(n) /\ StepFits(n) /\ CacheFits(n) /\ OneAttempt(n) /\ ChannelFits(n)
    BY DEF PeerInvariant, NodeFits
<1>2. PICK sid : sid = FreeSid(n)
    OBVIOUS
<1>3. /\ At(n, Listening) /\ conns[c].client # n /\ ~conns[c].accepted
      /\ conns' = [conns EXCEPT ![c].accepted = TRUE]
      /\ AddSocket(n, sid, c, "accepted")
      /\ polled' = [polled EXCEPT ![n] = @ \cup {<<"read", sid>>, <<"write", sid>>}]
      /\ served' = served /\ cache' = cache /\ channels' = channels /\ told' = told
      /\ rejected' = rejected /\ hosts' = hosts /\ retry' = retry /\ closing' = closing
      /\ failed' = failed
    BY <1>2 DEF Accept, Poll, handshakes
<1>4. /\ phase' \in [Nodes -> Listening .. Timers]
      /\ \A m \in Nodes : m # n => phase'[m] = phase[m]
    BY <1>1, <1>3, AtPhase DEF Listening, Timers
<1>5. closing[n] = {}
    BY AcceptedNumber
<1>6. \A s \in Pooled(n) : socks[n][s].conn # c
    BY AcceptedNumber
<1>7. sid \in Sids /\ sid \notin DOMAIN socks[n]
    BY <1>2, AcceptedNumber
<1>8. /\ ConnsFit' /\ ConnsGoOn /\ DOMAIN conns' = DOMAIN conns
      /\ conns'[c].accepted /\ conns'[c].client = conns[c].client
      /\ \A d \in DOMAIN conns : /\ conns'[d].live = conns[d].live
                                 /\ conns'[d].client = conns[d].client
                                 /\ conns'[d].packet = conns[d].packet
    BY <1>1, <1>3, ConnectionAccepted
<1>9. /\ DOMAIN socks' = Nodes /\ \A m \in Nodes : m # n => socks'[m] = socks[m]
      /\ DOMAIN socks'[n] = DOMAIN socks[n] \cup {sid}
      /\ socks'[n][sid] = [conn |-> c, kind |-> "accepted"]
      /\ \A s \in DOMAIN socks[n] : s # sid => socks'[n][s] = socks[n][s]
    BY <1>1, <1>3, SocketAdded
<1>10. /\ OfKind(n, "connecting")' = OfKind(n, "connecting")
       /\ OfKind(n, "connected")' = OfKind(n, "connected")
       /\ OfKind(n, "accepted")' = OfKind(n, "accepted") \cup {sid}
    <2>1. OfKind(n, "connecting")' = OfKind(n, "connecting") \ {sid}
        BY <1>1, <1>3, KindsAdded
    <2>2. OfKind(n, "connected")' = OfKind(n, "connected") \ {sid}
        BY <1>1, <1>3, KindsAdded
    <2>3. OfKind(n, "accepted")' = OfKind(n, "accepted") \cup {sid}
        BY <1>1, <1>3, KindsAdded
    <2>4. sid \notin OfKind(n, "connecting") /\ sid \notin OfKind(n, "connected")
        BY <1>7 DEF OfKind
    <2> QED BY <2>1, <2>2, <2>3, <2>4
<1>11. Pooled(n)' = Pooled(n) \cup {sid}
    BY <1>10 DEF Pooled
<1>12. ASSUME NEW s \in Pooled(n)
       PROVE  /\ s # sid /\ s \in DOMAIN socks[n] /\ socks'[n][s] = socks[n][s]
              /\ ConnOf(n, s)'.client = ConnOf(n, s).client
              /\ ConnOf(n, s)'.packet = ConnOf(n, s).packet
    <2>1. s # sid /\ s \in DOMAIN socks[n]
        BY <1>7 DEF Pooled, OfKind
    <2>2. socks[n][s].conn \in DOMAIN conns
        BY <1>1, <2>1, PooledHas
    <2> QED BY <1>8, <1>9, <2>1, <2>2 DEF ConnOf
<1>13. Shapes'
    BY <1>1, <1>3, <1>4, <1>9 DEF Shapes
<1>14. \A m \in Nodes : m # n => NodeSame(m)
    BY <1>1, <1>3, <1>4, <1>9 DEF NodeSame, Shapes
<1>15. SocksFit(n)'
    <2>1. c # 0
        BY <1>1, LenProperties DEF ConnsFit
    <2>2. SocketFits(n, sid)'
        BY <1>3, <1>8, <1>9, <2>1 DEF SocketFits, Kinds, ConnOf
    <2>3. ASSUME NEW s \in DOMAIN socks[n], socks[n][s].conn = c PROVE FALSE
        <3>1. s \in Pooled(n)
            BY <1>1, <2>1, <2>3, PooledHas
        <3> QED BY <1>6, <2>3, <3>1
    <2> QED BY <1>1, <1>7, <1>8, <1>9, <2>2, <2>3, SocksFitStays
<1>16. StepFits(n)'
    <2>1. polled'[n] = polled[n] \cup {<<"read", sid>>, <<"write", sid>>}
        BY <1>1, <1>3 DEF Shapes
    <2>2. polled'[n] \subseteq {"read", "write"} \X Pooled(n)'
        BY <1>1, <1>11, <2>1 DEF StepFits
    <2>3. \A s \in Pooled(n)' : <<"read", s>> \in polled'[n] /\ <<"write", s>> \in polled'[n]
        BY <1>1, <1>5, <1>11, <2>1 DEF StepFits
    <2> QED BY <1>1, <1>3, <1>5, <2>2, <2>3 DEF StepFits
<1>17. CacheFits(n)'
    <2>1. \A s \in OfKind(n, "connected") : s \in Pooled(n)
        BY DEF Pooled
    <2> QED BY <1>1, <1>3, <1>10, <1>12, <2>1 DEF CacheFits
<1>18. OneAttempt(n)'
    BY <1>1, <1>3, <1>10 DEF OneAttempt, Active
<1>19. ChannelFits(n)'
    <2>1. ASSUME NEW s \in Pooled(n), Carries(n, s) PROVE Carries(n, s)'
        BY <1>3, <1>11, <1>12, <2>1 DEF Carries, RequesterCompletes
    <2> QED BY <1>1, <1>3, <1>11, <2>1 DEF ChannelFits
<1>20. NodeFits(n)' /\ SocketsStay(n)
    BY <1>11, <1>12, <1>15, <1>16, <1>17, <1>18, <1>19 DEF NodeFits, SocketsStay
<1>21. ASSUME NEW d \in DOMAIN conns, NEW m \in Nodes, Answered(d, m)'
       PROVE  Answered(d, m) /\ channels'[m] = channels[m]
    BY <1>3, <1>8, <1>21 DEF Answered, RequesterCompletes
<1> QED BY <1>8, <1>13, <1>14, <1>20, <1>21, OneNodeActs

\* A connection that breaks is dead, and what was on its way is lost.
LEMMA ConnectionBroken ==
    ASSUME ConnsFit, NEW c \in DOMAIN conns,
           conns' = [conns EXCEPT ![c].live = FALSE, ![c].packet = "none"]
    PROVE  /\ ConnsFit' /\ ConnsGoOn /\ DOMAIN conns' = DOMAIN conns
           /\ \A d \in DOMAIN conns : conns'[d] = conns[d] \/ ~conns'[d].live
<1>1. conns \in Seq(Connection) /\ DOMAIN conns = 1 .. Len(conns) /\ c \in 1 .. Len(conns)
    BY LenProperties DEF ConnsFit
<1>2. conns[c] \in Connection
    BY <1>1
<1>3. PICK new : new = [conns[c] EXCEPT !.live = FALSE, !.packet = "none"]
    OBVIOUS
<1>4. /\ new \in Connection /\ new.client = conns[c].client
      /\ new.accepted = conns[c].accepted /\ new.packet = "none" /\ ~new.live
    BY <1>2, <1>3 DEF Connection
<1>5. conns' = [conns EXCEPT ![c] = new]
    BY <1>1, <1>3
<1>6. conns' \in Seq(Connection) /\ Len(conns') = Len(conns)
    BY ONLY <1>1, <1>4, <1>5, ExceptSeq
<1>7. /\ DOMAIN conns' = DOMAIN conns /\ conns'[c] = new
      /\ \A d \in DOMAIN conns : d # c => conns'[d] = conns[d]
    BY <1>5
<1>8. ConnsFit'
    BY <1>4, <1>6, <1>7 DEF ConnsFit
<1>9. ConnsGoOn
    BY <1>4, <1>7 DEF ConnsGoOn
<1> QED BY <1>4, <1>7, <1>8, <1>9

\* A connection that dies unnoticed keeps the invariant.
LEMMA BreakKeeps ==
    ASSUME PeerInvariant, NEW c \in DOMAIN conns, Break(c)
    PROVE  PeerInvariant'
<1>1. Shapes /\ ConnsFit /\ (\A m \in Nodes : NodeFits(m)) /\ OneConnection /\ AnsweredHas
    BY DEF PeerInvariant
<1>2. /\ conns' = [conns EXCEPT ![c].live = FALSE, ![c].packet = "none"]
      /\ socks' = socks /\ polled' = polled /\ served' = served /\ cache' = cache
      /\ channels' = channels /\ told' = told /\ rejected' = rejected /\ hosts' = hosts
      /\ retry' = retry /\ closing' = closing /\ phase' = phase /\ failed' = failed
    BY DEF Break, pools, handshakes
<1>3. /\ ConnsFit' /\ ConnsGoOn /\ DOMAIN conns' = DOMAIN conns
      /\ \A d \in DOMAIN conns : conns'[d] = conns[d] \/ ~conns'[d].live
    BY <1>1, <1>2, ConnectionBroken
<1>4. Shapes'
    BY <1>1, <1>2 DEF Shapes
<1>5. \A m \in Nodes : NodeSame(m)
    BY <1>2 DEF NodeSame
<1>6. PICK n : n \in Nodes
    <2>1. Nodes # {}
        BY FS_EmptySet, PeerAssumption DEF PeerAssumption
    <2> QED BY <2>1
<1>7. NodeFits(n)' /\ SocketsStay(n)
    BY <1>1, <1>3, <1>5, <1>6, SameFits
<1>8. ASSUME NEW d \in DOMAIN conns, NEW m \in Nodes, Answered(d, m)'
      PROVE  Answered(d, m) /\ channels'[m] = channels[m]
    <2>1. conns'[d] = conns[d]
        BY <1>3, <1>8 DEF Answered
    <2> QED BY <1>2, <1>8, <2>1 DEF Answered, RequesterCompletes
<1> QED BY <1>3, <1>4, <1>5, <1>6, <1>7, <1>8, OneNodeActs

-----------------------------------------------------------------------------
(***************************************************************************)
(* Sockets that are to be closed.                                          *)
(***************************************************************************)

\* Only the loss of a connected socket defers a connection, and it was the only attempt.
LEMMA ScheduledSocket ==
    ASSUME Shapes, NEW n \in Nodes, OneAttempt(n), NEW sid \in Pooled(n), sid \notin closing[n],
           ScheduleSocket(n, sid)
    PROVE  /\ DestroyChannel(n, sid)
           /\ retry' \in [Nodes -> Attempts]
           /\ \A m \in Nodes : m # n => retry'[m] = retry[m]
           /\ retry'[n].deferred \in {0, 1}
           /\ sid \notin OfKind(n, "connected") => retry'[n] = retry[n]
<1>1. /\ retry \in [Nodes -> Attempts] /\ retry[n].deferred \in {0, 1}
      /\ DestroyChannel(n, sid)
    BY DEF Shapes, Attempts, OneAttempt, ScheduleSocket
<1>2. CASE sid \in OfKind(n, "connected")
    <2>1. sid \in Active(n)
        BY <1>2 DEF Active
    <2>2. retry[n].deferred = 0
        BY <2>1 DEF OneAttempt
    <2>3. PICK next \in Attempts : next = Scheduled(n, retry[n]) /\ next.deferred \in {0, 1}
        BY <1>1, <2>2, ScheduledOne
    <2>4. retry' = [retry EXCEPT ![n] = next]
        BY <1>2, <2>3 DEF ScheduleSocket
    <2> QED BY <1>1, <1>2, <2>3, <2>4
<1>3. CASE sid \notin OfKind(n, "connected")
    <2>1. retry' = retry
        BY <1>3 DEF ScheduleSocket
    <2> QED BY <1>1, <2>1
<1> QED BY <1>2, <1>3

\* What holds of the node whose socket is to be closed.
LEMMA ClosedFits ==
    ASSUME Orderly, Shapes, NEW n \in Nodes, NodeFits(n), ConnsGoOn,
           NEW sid \in Pooled(n), sid \notin closing[n], DestroyChannel(n, sid),
           socks' = socks, rejected' = rejected, hosts' = hosts,
           phase[n] <= phase'[n], phase'[n] \in Writing .. Timers,
           polled'[n] \subseteq polled[n],
           \A s \in Pooled(n) : s # sid /\ <<"read", s>> \in polled[n] => <<"read", s>> \in polled'[n],
           \A s \in Pooled(n) : s # sid /\ <<"write", s>> \in polled[n] => <<"write", s>> \in polled'[n],
           served'[n] \subseteq {"read", "write"} \X Sids,
           cache'[n] = cache[n] \/ cache'[n] = cache[n] \ {sid},
           ToBeClosed(n, sid)',
           retry'[n].deferred \in {0, 1},
           sid \notin OfKind(n, "connected") => retry'[n] = retry[n]
    PROVE  NodeFits(n)'
<1>1. SocksFit(n) /\ StepFits(n) /\ CacheFits(n) /\ OneAttempt(n) /\ ChannelFits(n)
    BY DEF NodeFits
<1>2. /\ closing' = [closing EXCEPT ![n] = @ \cup {sid}]
      /\ channels'[n] = IF channels[n] = ChannelOf(sid) THEN EmptyMap ELSE channels[n]
      /\ told' = [told EXCEPT ![n] = IF channels[n] = ChannelOf(sid) THEN FALSE ELSE @]
      /\ failed' = failed
    BY <1>1, Destroyed
<1>3. /\ closing'[n] = closing[n] \cup {sid}
      /\ told'[n] = IF channels[n] = ChannelOf(sid) THEN FALSE ELSE told[n]
    BY <1>2 DEF Shapes
<1>4. /\ Pooled(n)' = Pooled(n) /\ OfKind(n, "connecting")' = OfKind(n, "connecting")
      /\ OfKind(n, "connected")' = OfKind(n, "connected")
    BY SocksSame
<1>5. ASSUME NEW s \in Pooled(n)
      PROVE  s \in DOMAIN socks[n] /\ socks[n][s].conn \in DOMAIN conns
    <2>1. s \in DOMAIN socks[n]
        BY DEF Pooled, OfKind
    <2> QED BY <1>1, <2>1, PooledHas
<1>6. SocksFit(n)'
    <2>1. ASSUME NEW s \in DOMAIN socks[n] PROVE SocketFits(n, s)'
        <3>1. SocketFits(n, s)
            BY <1>1 DEF SocksFit
        <3> QED BY <3>1 DEF SocketFits, ConnOf, ConnsGoOn
    <2> QED BY <1>1, <1>4, <2>1 DEF SocksFit
<1>7. StepFits(n)'
    <2>1. ASSUME NEW s \in closing'[n] PROVE ToBeClosed(n, s)'
        <3>1. CASE s = sid
            BY <3>1
        <3>2. CASE s # sid
            <4>1. s \in closing[n]
                BY <1>3, <3>2
            <4>2. ToBeClosed(n, s) /\ s \in Pooled(n)
                BY <1>1, <4>1 DEF StepFits
            <4>3. phase[n] = Timers => phase'[n] = Timers
                BY DEF Writing, Timers
            <4> QED BY <1>5, <4>2, <4>3 DEF ToBeClosed, ConnOf, ConnsGoOn
        <3> QED BY <3>1, <3>2
    <2>2. phase'[n] >= Writing
        BY DEF Writing, Timers
    <2>3. polled'[n] \subseteq {"read", "write"} \X Pooled(n)'
        BY <1>1, <1>4 DEF StepFits
    <2>4. closing'[n] \subseteq Pooled(n)'
        BY <1>1, <1>3, <1>4 DEF StepFits
    <2>5. \A s \in Pooled(n)' \ closing'[n] : <<"read", s>> \in polled'[n] /\ <<"write", s>> \in polled'[n]
        BY <1>1, <1>3, <1>4 DEF StepFits
    <2> QED BY <2>1, <2>2, <2>3, <2>4, <2>5 DEF StepFits
<1>8. CacheFits(n)'
    <2>1. ASSUME NEW s \in OfKind(n, "connected"), s \notin cache'[n], s \notin closing'[n]
          PROVE  ConnOf(n, s)'.packet = "none"
        <3>1. s \in Pooled(n) /\ s # sid /\ s \notin closing[n] /\ s \notin cache[n]
            BY <1>3, <2>1 DEF Pooled
        <3>2. ConnOf(n, s).packet = "none"
            BY <1>1, <2>1, <3>1 DEF CacheFits
        <3> QED BY <1>5, <3>1, <3>2 DEF ConnOf, ConnsGoOn
    <2>2. cache'[n] \subseteq OfKind(n, "connected")'
        BY <1>1, <1>4 DEF CacheFits
    <2> QED BY <1>4, <2>1, <2>2 DEF CacheFits
<1>9. OneAttempt(n)'
    <2>1. CASE sid \in OfKind(n, "connected")
        <3>1. sid \in Active(n)
            BY <2>1 DEF Active
        <3>2. Active(n) = {sid} /\ sid \notin OfKind(n, "connecting")
            BY <1>1, <2>1, <3>1 DEF OneAttempt, OfKind
        <3>3. Active(n)' = {}
            BY <1>3, <1>4, <3>2 DEF Active
        <3>4. hosts[n]
            BY <1>1, <2>1 DEF OneAttempt
        <3> QED BY <1>1, <3>3, <3>4 DEF OneAttempt
    <2>2. CASE sid \notin OfKind(n, "connected")
        <3>1. /\ Active(n)' = Active(n)
              /\ closing'[n] \cap OfKind(n, "connected")' = closing[n] \cap OfKind(n, "connected")
            BY <1>3, <1>4, <2>2 DEF Active
        <3> QED BY <1>1, <1>4, <2>2, <3>1 DEF OneAttempt
    <2> QED BY <2>1, <2>2
<1>10. ChannelFits(n)'
    <2>1. ~rejected'[n] /\ ~failed'[n]
        BY <1>1, <1>2 DEF ChannelFits
    <2>2. CASE channels[n] = ChannelOf(sid)
        BY <1>2, <1>3, <2>1, <2>2 DEF ChannelFits
    <2>3. CASE channels[n] # ChannelOf(sid)
        <3>1. channels'[n] = channels[n] /\ told'[n] = told[n]
            BY <1>2, <1>3, <2>3
        <3>2. ASSUME NEW s \in Pooled(n), channels[n] = ChannelOf(s), Carries(n, s)
              PROVE  Carries(n, s)'
            <4>1. s # sid
                BY <2>3, <3>2
            <4>2. s \notin closing'[n] /\ s \notin cache'[n]
                BY <1>3, <3>2, <4>1 DEF Carries
            <4> QED BY <1>4, <1>5, <3>2, <4>2 DEF Carries, ConnOf, ConnsGoOn, RequesterCompletes
        <3> QED BY <1>1, <1>4, <2>1, <3>1, <3>2 DEF ChannelFits
    <2> QED BY <2>2, <2>3
<1> QED BY <1>6, <1>7, <1>8, <1>9, <1>10 DEF NodeFits

\* A socket that is to be closed keeps the invariant: its channel may go, as its
\* connection is dead then.
LEMMA ClosedKeeps ==
    ASSUME Orderly, PeerInvariant, NEW n \in Nodes, ConnsFit', ConnsGoOn,
           DOMAIN conns' = DOMAIN conns,
           NEW sid \in Pooled(n), sid \notin closing[n], DestroyChannel(n, sid),
           socks' = socks, rejected' = rejected, hosts' = hosts,
           NEW p \in Writing .. Timers, At(n, p),
           DOMAIN polled' = Nodes, DOMAIN served' = Nodes, DOMAIN cache' = Nodes,
           retry' \in [Nodes -> Attempts],
           \A m \in Nodes : m # n => /\ polled'[m] = polled[m] /\ served'[m] = served[m]
                                     /\ cache'[m] = cache[m] /\ retry'[m] = retry[m],
           polled'[n] \subseteq polled[n],
           \A s \in Pooled(n) : s # sid /\ <<"read", s>> \in polled[n] => <<"read", s>> \in polled'[n],
           \A s \in Pooled(n) : s # sid /\ <<"write", s>> \in polled[n] => <<"write", s>> \in polled'[n],
           served'[n] \subseteq {"read", "write"} \X Sids,
           cache'[n] = cache[n] \/ cache'[n] = cache[n] \ {sid},
           ToBeClosed(n, sid)',
           retry'[n].deferred \in {0, 1},
           sid \notin OfKind(n, "connected") => retry'[n] = retry[n],
           channels[n] = ChannelOf(sid) => ~ConnOf(n, sid)'.live,
           \A c \in DOMAIN conns : \A m \in Nodes : Answered(c, m)' => Answered(c, m)
    PROVE  PeerInvariant'
<1>1. Shapes /\ NodeFits(n) /\ SocksFit(n) /\ ChannelFits(n)
    BY DEF PeerInvariant, NodeFits
<1>2. /\ closing' = [closing EXCEPT ![n] = @ \cup {sid}]
      /\ DOMAIN channels' = Nodes
      /\ channels'[n] = IF channels[n] = ChannelOf(sid) THEN EmptyMap ELSE channels[n]
      /\ \A m \in Nodes : m # n => channels'[m] = channels[m]
      /\ told' = [told EXCEPT ![n] = IF channels[n] = ChannelOf(sid) THEN FALSE ELSE @]
      /\ failed' = failed
    BY <1>1, Destroyed
<1>3. /\ DOMAIN closing' = Nodes /\ told' \in [Nodes -> BOOLEAN]
      /\ \A m \in Nodes : m # n => closing'[m] = closing[m] /\ told'[m] = told[m]
    BY <1>1, <1>2 DEF Shapes
<1>4. p \in Listening .. Timers
    BY DEF Listening, Writing, Timers
<1>5. /\ phase' \in [Nodes -> Listening .. Timers] /\ phase[n] <= p /\ phase'[n] = p
      /\ \A m \in Nodes : m # n => phase'[m] = phase[m]
    BY <1>1, <1>4, AtPhase
<1>6. Shapes'
    BY <1>1, <1>2, <1>3, <1>5 DEF Shapes, Attempts
<1>7. \A m \in Nodes : m # n => NodeSame(m)
    BY <1>2, <1>3, <1>5 DEF NodeSame
<1>8. NodeFits(n)'
    BY <1>1, <1>5, ClosedFits
<1>9. SocketsStay(n)
    BY SocksSame DEF SocketsStay
<1>10. ASSUME NEW c \in DOMAIN conns, NEW m \in Nodes, Answered(c, m)', HasChannelOf(m, c)
       PROVE  channels'[m] = channels[m]
    <2>1. CASE m # n
        BY <1>2, <2>1
    <2>2. CASE m = n /\ channels[n] # ChannelOf(sid)
        BY <1>2, <2>2
    <2>3. CASE m = n /\ channels[n] = ChannelOf(sid)
        <3>1. PICK s \in Pooled(n) : socks[n][s].conn = c /\ channels[n] = ChannelOf(s)
            BY <1>10, <2>3 DEF HasChannelOf
        <3>2. s # NoSid
            <4>1. s \in Sids
                BY <1>1 DEF Pooled, OfKind, SocksFit
            <4> QED BY <4>1 DEF Sids, NoSid
        <3>3. s = sid
            <4>1. ChannelOf(s) = ChannelOf(sid)
                BY <2>3, <3>1
            <4>2. \A t : ChannelOf(s) = ChannelOf(t) => s = t
                BY <3>2, ChannelOfSocket
            <4> QED BY ONLY <4>1, <4>2
        <3>4. ~conns'[c].live
            BY <2>3, <3>1, <3>3 DEF ConnOf
        <3> QED BY <1>10, <3>4 DEF Answered
    <2> QED BY <2>1, <2>2, <2>3
<1> QED BY <1>6, <1>7, <1>8, <1>9, <1>10, OneNodeActs

\* A dead connection that is met keeps the invariant.
LEMMA DisconnectedKeeps ==
    ASSUME Orderly, PeerInvariant, NEW n \in Nodes, NEW sid, NEW pool \in {"read", "write"},
           NEW p \in Writing .. Timers, At(n, p), Disconnected(n, pool, sid)
    PROVE  PeerInvariant'
<1>1. /\ Shapes /\ ConnsFit /\ NodeFits(n)
      /\ SocksFit(n) /\ StepFits(n) /\ CacheFits(n) /\ OneAttempt(n) /\ ChannelFits(n)
    BY DEF PeerInvariant, NodeFits
<1>2. /\ <<pool, sid>> \in polled[n]
      /\ served' = [served EXCEPT ![n] = @ \cup {<<pool, sid>>}]
      /\ ~ConnOf(n, sid).live /\ sid \notin closing[n]
      /\ polled' = [polled EXCEPT ![n] = @ \ {<<pool, sid>>}]
      /\ ScheduleSocket(n, sid)
      /\ conns' = conns /\ socks' = socks /\ cache' = cache /\ rejected' = rejected /\ hosts' = hosts
    BY DEF Disconnected, Meet, Orderly
<1>3. sid \in Pooled(n) /\ sid \in Sids
    BY <1>1, <1>2 DEF StepFits, SocksFit, Pooled, OfKind
<1>4. /\ DestroyChannel(n, sid)
      /\ retry' \in [Nodes -> Attempts]
      /\ \A m \in Nodes : m # n => retry'[m] = retry[m]
      /\ retry'[n].deferred \in {0, 1}
      /\ sid \notin OfKind(n, "connected") => retry'[n] = retry[n]
    BY <1>1, <1>2, <1>3, ScheduledSocket
<1>5. ConnsFit' /\ ConnsGoOn /\ DOMAIN conns' = DOMAIN conns
    BY <1>1, <1>2 DEF ConnsFit, ConnsGoOn
<1>6. /\ DOMAIN polled' = Nodes /\ DOMAIN served' = Nodes /\ DOMAIN cache' = Nodes
      /\ polled'[n] = polled[n] \ {<<pool, sid>>}
      /\ served'[n] = served[n] \cup {<<pool, sid>>}
      /\ \A m \in Nodes : m # n => /\ polled'[m] = polled[m] /\ served'[m] = served[m]
                                   /\ cache'[m] = cache[m]
    BY <1>1, <1>2 DEF Shapes
<1>7. served'[n] \subseteq {"read", "write"} \X Sids
    BY <1>1, <1>3, <1>6 DEF StepFits
<1>8. ToBeClosed(n, sid)' /\ ~ConnOf(n, sid)'.live
    BY <1>2 DEF ToBeClosed, ConnOf
<1>9. \A c \in DOMAIN conns : \A m \in Nodes : Answered(c, m)' => Answered(c, m)
    BY <1>2 DEF Answered, RequesterCompletes
<1>10. /\ polled'[n] \subseteq polled[n]
       /\ \A s \in Pooled(n) : s # sid /\ <<"read", s>> \in polled[n] => <<"read", s>> \in polled'[n]
       /\ \A s \in Pooled(n) : s # sid /\ <<"write", s>> \in polled[n] => <<"write", s>> \in polled'[n]
    BY <1>6
<1>11. cache'[n] = cache[n]
    BY <1>2
<1>12. \A m \in Nodes : m # n => /\ polled'[m] = polled[m] /\ served'[m] = served[m]
                                 /\ cache'[m] = cache[m] /\ retry'[m] = retry[m]
    BY <1>4, <1>6
<1> QED BY <1>2, <1>3, <1>4, <1>5, <1>6, <1>7, <1>8, <1>9, <1>10, <1>11, <1>12, ClosedKeeps

\* A handshake that takes too long keeps the invariant.
LEMMA HandshakeExpiresKeeps ==
    ASSUME Orderly, PeerInvariant, NEW n \in Nodes, NEW sid, HandshakeExpires(n, sid)
    PROVE  PeerInvariant'
<1>1. /\ Shapes /\ ConnsFit /\ NodeFits(n)
      /\ SocksFit(n) /\ StepFits(n) /\ CacheFits(n) /\ OneAttempt(n) /\ ChannelFits(n)
    BY DEF PeerInvariant, NodeFits
<1>2. /\ At(n, Timers) /\ sid \in cache[n] /\ sid \notin closing[n]
      /\ cache' = [cache EXCEPT ![n] = @ \ {sid}]
      /\ ScheduleSocket(n, sid)
      /\ conns' = conns /\ socks' = socks /\ polled' = polled /\ served' = served
      /\ rejected' = rejected /\ hosts' = hosts
    BY DEF HandshakeExpires, Orderly, pools
<1>3. sid \in Pooled(n) /\ sid \in OfKind(n, "connected") /\ Timers \in Writing .. Timers
    BY <1>1, <1>2 DEF CacheFits, Pooled, Writing, Timers
<1>4. /\ DestroyChannel(n, sid)
      /\ retry' \in [Nodes -> Attempts]
      /\ \A m \in Nodes : m # n => retry'[m] = retry[m]
      /\ retry'[n].deferred \in {0, 1}
    BY <1>1, <1>2, <1>3, ScheduledSocket
<1>5. ConnsFit' /\ ConnsGoOn /\ DOMAIN conns' = DOMAIN conns
    BY <1>1, <1>2 DEF ConnsFit, ConnsGoOn
<1>6. /\ DOMAIN polled' = Nodes /\ DOMAIN served' = Nodes /\ DOMAIN cache' = Nodes
      /\ cache'[n] = cache[n] \ {sid}
      /\ \A m \in Nodes : m # n => cache'[m] = cache[m]
    BY <1>1, <1>2 DEF Shapes
<1>7. ToBeClosed(n, sid)'
    <2>1. phase'[n] = Timers
        BY <1>1, <1>2, AtPhase DEF Listening, Timers
    <2>2. socks'[n][sid].kind = "connected"
        BY <1>2, <1>3 DEF OfKind
    <2> QED BY <2>1, <2>2 DEF ToBeClosed
<1>8. channels[n] # ChannelOf(sid)
    <2>1. ASSUME channels[n] = ChannelOf(sid) PROVE FALSE
        <3>1. sid # NoSid
            BY <1>1, <1>3 DEF Pooled, OfKind, SocksFit, Sids, NoSid
        <3>2. ChannelOf(sid) # EmptyMap /\ \A t : ChannelOf(sid) = ChannelOf(t) => sid = t
            BY <3>1, ChannelOfSocket
        <3>3. PICK s \in Pooled(n) : channels[n] = ChannelOf(s) /\ Carries(n, s)
            BY <1>1, <2>1, <3>2 DEF ChannelFits
        <3>4. s = sid
            BY <2>1, <3>2, <3>3
        <3> QED BY <1>2, <3>3, <3>4 DEF Carries
    <2> QED BY <2>1
<1>9. \A c \in DOMAIN conns : \A m \in Nodes : Answered(c, m)' => Answered(c, m)
    BY <1>2 DEF Answered, RequesterCompletes
<1>10. served'[n] \subseteq {"read", "write"} \X Sids
    BY <1>1, <1>2 DEF StepFits
<1>11. \A m \in Nodes : m # n => /\ polled'[m] = polled[m] /\ served'[m] = served[m]
                                 /\ cache'[m] = cache[m] /\ retry'[m] = retry[m]
    BY <1>2, <1>4, <1>6
<1> QED BY <1>2, <1>3, <1>4, <1>5, <1>6, <1>7, <1>8, <1>9, <1>10, <1>11, ClosedKeeps

-----------------------------------------------------------------------------
(***************************************************************************)
(* Handshakes.                                                             *)
(***************************************************************************)

\* Connections after a packet was read from one of them.
LEMMA PacketRead ==
    ASSUME ConnsFit, NEW c \in DOMAIN conns, conns[c].live, conns[c].packet # "none",
           NEW reply \in {"none", "response"}, conns' = [conns EXCEPT ![c].packet = reply],
           reply = "response" => conns[c].accepted
    PROVE  /\ ConnsFit' /\ ConnsGoOn /\ DOMAIN conns' = DOMAIN conns
           /\ conns'[c].packet = reply /\ conns'[c].live /\ conns'[c].client = conns[c].client
           /\ \A d \in DOMAIN conns : d # c => conns'[d] = conns[d]
<1>1. conns \in Seq(Connection) /\ DOMAIN conns = 1 .. Len(conns) /\ c \in 1 .. Len(conns)
    BY LenProperties DEF ConnsFit
<1>2. conns[c] \in Connection
    BY <1>1
<1>3. PICK new : new = [conns[c] EXCEPT !.packet = reply]
    OBVIOUS
<1>4. /\ new \in Connection /\ new.client = conns[c].client /\ new.live = conns[c].live
      /\ new.accepted = conns[c].accepted /\ new.packet = reply
    BY <1>2, <1>3 DEF Connection
<1>5. conns' = [conns EXCEPT ![c] = new]
    BY <1>1, <1>3
<1>6. conns' \in Seq(Connection) /\ Len(conns') = Len(conns)
    BY ONLY <1>1, <1>4, <1>5, ExceptSeq
<1>7. /\ DOMAIN conns' = DOMAIN conns /\ conns'[c] = new
      /\ \A d \in DOMAIN conns : d # c => conns'[d] = conns[d]
    BY <1>5
<1>8. ConnsFit'
    BY <1>4, <1>6, <1>7 DEF ConnsFit
<1>9. ConnsGoOn
    BY <1>4, <1>7 DEF ConnsGoOn
<1> QED BY <1>4, <1>7, <1>8, <1>9

\* What holds of a node that has read a packet: it may have a channel now.
LEMMA ReadFits ==
    ASSUME Shapes, NEW n \in Nodes, NodeFits(n), ConnsGoOn, NEW sid \in Pooled(n),
           socks' = socks, polled' = polled, closing' = closing, hosts' = hosts, retry' = retry,
           failed' = failed, phase[n] <= Reading, phase'[n] = Reading,
           served'[n] \subseteq {"read", "write"} \X Sids,
           \/ cache'[n] = cache[n]
           \/ cache'[n] = cache[n] \ {sid} /\ ConnOf(n, sid)'.packet = "none",
           ~rejected'[n],
           \/ channels'[n] = channels[n] /\ told'[n] = told[n]
           \/ channels'[n] = ChannelOf(sid) /\ told'[n] /\ Carries(n, sid)'
    PROVE  NodeFits(n)' /\ SocketsStay(n)
<1>1. SocksFit(n) /\ StepFits(n) /\ CacheFits(n) /\ OneAttempt(n) /\ ChannelFits(n)
    BY DEF NodeFits
<1>2. /\ Pooled(n)' = Pooled(n) /\ OfKind(n, "connecting")' = OfKind(n, "connecting")
      /\ OfKind(n, "connected")' = OfKind(n, "connected")
    BY SocksSame
<1>3. ASSUME NEW s \in Pooled(n)
      PROVE  s \in DOMAIN socks[n] /\ socks[n][s].conn \in DOMAIN conns
    <2>1. s \in DOMAIN socks[n]
        BY DEF Pooled, OfKind
    <2> QED BY <1>1, <2>1, PooledHas
<1>4. SocksFit(n)'
    <2>1. ASSUME NEW s \in DOMAIN socks[n] PROVE SocketFits(n, s)'
        <3>1. SocketFits(n, s)
            BY <1>1 DEF SocksFit
        <3> QED BY <3>1 DEF SocketFits, ConnOf, ConnsGoOn
    <2> QED BY <1>1, <1>2, <2>1 DEF SocksFit
<1>5. StepFits(n)'
    <2>1. ASSUME NEW s \in closing[n] PROVE ToBeClosed(n, s)'
        <3>1. ToBeClosed(n, s) /\ s \in Pooled(n)
            BY <1>1 DEF StepFits
        <3>2. phase[n] # Timers
            BY DEF Reading, Timers
        <3> QED BY <1>3, <3>1, <3>2 DEF ToBeClosed, ConnOf, ConnsGoOn
    <2>2. phase'[n] >= Writing
        BY DEF Reading, Writing
    <2> QED BY <1>1, <1>2, <2>1, <2>2 DEF StepFits
<1>6. CacheFits(n)'
    <2>1. ASSUME NEW s \in OfKind(n, "connected"), s \notin cache'[n], s \notin closing[n]
          PROVE  ConnOf(n, s)'.packet = "none"
        <3>1. CASE s \in cache[n]
            BY <2>1, <3>1
        <3>2. CASE s \notin cache[n]
            <4>1. ConnOf(n, s).packet = "none" /\ s \in Pooled(n)
                BY <1>1, <2>1, <3>2 DEF CacheFits, Pooled
            <4> QED BY <1>3, <4>1 DEF ConnOf, ConnsGoOn
        <3> QED BY <3>1, <3>2
    <2>2. cache'[n] \subseteq OfKind(n, "connected")'
        BY <1>1, <1>2 DEF CacheFits
    <2> QED BY <1>2, <2>1, <2>2 DEF CacheFits
<1>7. OneAttempt(n)'
    BY <1>1, <1>2 DEF OneAttempt, Active
<1>8. ChannelFits(n)'
    <2>1. ~rejected'[n] /\ ~failed'[n]
        BY <1>1 DEF ChannelFits
    <2>2. CASE channels'[n] = channels[n] /\ told'[n] = told[n]
        <3>1. ASSUME NEW s \in Pooled(n), Carries(n, s) PROVE Carries(n, s)'
            <4>1. s \notin closing'[n] /\ s \notin cache'[n]
                BY <3>1 DEF Carries
            <4> QED BY <1>2, <1>3, <3>1, <4>1 DEF Carries, ConnOf, ConnsGoOn, RequesterCompletes
        <3> QED BY <1>1, <1>2, <2>1, <2>2, <3>1 DEF ChannelFits
    <2>3. CASE channels'[n] = ChannelOf(sid) /\ told'[n] /\ Carries(n, sid)'
        BY <1>2, <2>1, <2>3 DEF ChannelFits
    <2> QED BY <2>2, <2>3
<1>9. SocketsStay(n)
    BY <1>2 DEF SocketsStay
<1> QED BY <1>4, <1>5, <1>6, <1>7, <1>8, <1>9 DEF NodeFits

\* The first channel is inserted.
LEMMA CompletedFirst ==
    ASSUME Shapes, NEW n \in Nodes, ChannelFits(n), channels[n] = EmptyMap, NEW sid,
           Completed(n, sid)
    PROVE  /\ DOMAIN channels' = Nodes /\ channels'[n] = ChannelOf(sid)
           /\ \A m \in Nodes : m # n => channels'[m] = channels[m]
           /\ told' \in [Nodes -> BOOLEAN] /\ told'[n]
           /\ \A m \in Nodes : m # n => told'[m] = told[m]
           /\ rejected' = rejected
<1>1. CanInsertChannel(channels[n], sid) /\ InsertChannel(channels[n], sid) = {ChannelOf(sid)}
    BY EmptyMapFacts
<1>2. /\ \E ch \in {ChannelOf(sid)} : channels' = [channels EXCEPT ![n] = ch]
      /\ told' = [told EXCEPT ![n] = @ \/ CanInsertChannel(channels[n], sid)]
      /\ rejected' = [rejected EXCEPT ![n] = @ \/ ~CanInsertChannel(channels[n], sid)]
    BY <1>1 DEF Completed
<1>3. told' = [told EXCEPT ![n] = TRUE]
    BY <1>1, <1>2
<1>4. rejected[n] = FALSE /\ rejected \in [Nodes -> BOOLEAN]
    BY DEF ChannelFits, Shapes
<1>5. rejected' = [rejected EXCEPT ![n] = FALSE]
    BY <1>1, <1>2, <1>4
<1>6. rejected' = rejected
    BY <1>4, <1>5
<1>7. channels' = [channels EXCEPT ![n] = ChannelOf(sid)]
    BY <1>2
<1> QED BY <1>3, <1>6, <1>7 DEF Shapes

\* Who reads a request that becomes a channel has none: the one before was of an
\* earlier connection of the same client, and its end has been noticed.
LEMMA RequestFindsNone ==
    ASSUME Orderly, PeerInvariant, NEW n \in Nodes, NEW sid \in OfKind(n, "accepted"),
           ConnOf(n, sid).live, ConnOf(n, sid).packet = "request",
           RequesterCompletes(ConnOf(n, sid).client), ~EndsUnnoticed(n, sid)
    PROVE  channels[n] = EmptyMap
<1>1. /\ Shapes /\ ConnsFit /\ OneConnection
      /\ SocksFit(n) /\ StepFits(n) /\ ChannelFits(n)
    BY DEF PeerInvariant, NodeFits
<1>2. ASSUME channels[n] # EmptyMap PROVE FALSE
    <2>1. PICK s \in Pooled(n) : Carries(n, s)
        BY <1>1, <1>2 DEF ChannelFits
    <2>2. PICK c : c = socks[n][sid].conn
        OBVIOUS
    <2>3. PICK d : d = socks[n][s].conn
        OBVIOUS
    <2>4. c \in DOMAIN conns /\ d \in DOMAIN conns /\ DOMAIN conns = 1 .. Len(conns) /\ Len(conns) \in Nat
        <3>1. sid \in Pooled(n) /\ sid \in DOMAIN socks[n] /\ s \in DOMAIN socks[n]
            BY <2>1 DEF Pooled, OfKind
        <3> QED BY <1>1, <2>1, <2>2, <2>3, <3>1, PooledHas, LenProperties DEF ConnsFit
    <2>5. conns[c] \in Connection /\ conns[d] \in Connection
        BY <1>1, <2>4 DEF ConnsFit
    <2>6. RequesterCompletes(conns[c].client) /\ RequesterCompletes(conns[d].client)
        BY <2>1, <2>2, <2>3 DEF Carries, ConnOf
    <2>7. conns[c].client = conns[d].client
        BY <2>5, <2>6 DEF Orderly, OneKeeps, Connection
    <2>8. conns[c].live /\ c # d
        BY <2>1, <2>2, <2>3 DEF Carries, ConnOf
    <2>9. d < c
        <3>1. ~(c < d)
            BY <1>1, <2>4, <2>7, <2>8 DEF OneConnection
        <3> QED BY <2>4, <2>8, <3>1
    <2>10. ~conns[d].live
        BY <1>1, <2>4, <2>7, <2>9 DEF OneConnection
    <2>11. <<"read", s>> \in polled[n]
        BY <1>1, <2>1 DEF StepFits, Carries
    <2> QED BY <2>1, <2>2, <2>3, <2>9, <2>10, <2>11 DEF EndsUnnoticed, ConnOf
<1> QED BY <1>2

\* A request that is read and answered keeps the invariant.
LEMMA ProcessRequestKeeps ==
    ASSUME Orderly, PeerInvariant, NEW n \in Nodes, NEW sid, ProcessRequest(n, sid)
    PROVE  PeerInvariant'
<1>1. /\ Shapes /\ ConnsFit /\ NodeFits(n)
      /\ SocksFit(n) /\ StepFits(n) /\ CacheFits(n) /\ OneAttempt(n) /\ ChannelFits(n)
    BY DEF PeerInvariant, NodeFits
<1>2. PICK c : c = socks[n][sid].conn
    OBVIOUS
<1>3. /\ At(n, Reading) /\ sid \in OfKind(n, "accepted")
      /\ served' = [served EXCEPT ![n] = @ \cup {<<"read", sid>>}]
      /\ conns[c].live /\ conns[c].packet = "request" /\ ConnOf(n, sid) = conns[c]
      /\ conns' = [conns EXCEPT ![c].packet = "response"]
      /\ ~EndsUnnoticed(n, sid)
      /\ IF AcceptorCompletes(n, ConnOf(n, sid).client)
         THEN Completed(n, sid)
         ELSE UNCHANGED <<channels, told, rejected>>
      /\ socks' = socks /\ polled' = polled /\ cache' = cache /\ hosts' = hosts
      /\ retry' = retry /\ closing' = closing /\ failed' = failed
    BY <1>2 DEF ProcessRequest, ReadPacket, Meet, Orderly, ConnOf
<1>4. /\ sid \in Pooled(n) /\ sid \in DOMAIN socks[n] /\ sid \in Sids /\ c \in DOMAIN conns
      /\ conns[c].client # n /\ conns[c].accepted
    <2>1. sid \in Pooled(n) /\ sid \in DOMAIN socks[n] /\ sid \in Sids
        BY <1>1, <1>3 DEF Pooled, OfKind, SocksFit
    <2> QED BY <1>1, <1>2, <1>3, <2>1, PooledHas
<1>5. /\ ConnsFit' /\ ConnsGoOn /\ DOMAIN conns' = DOMAIN conns
      /\ conns'[c].packet = "response" /\ conns'[c].client = conns[c].client
      /\ \A d \in DOMAIN conns : d # c => conns'[d] = conns[d]
    BY <1>1, <1>3, <1>4, PacketRead
<1>6. /\ phase' \in [Nodes -> Listening .. Timers] /\ phase[n] <= Reading /\ phase'[n] = Reading
      /\ \A m \in Nodes : m # n => phase'[m] = phase[m]
    BY <1>1, <1>3, AtPhase DEF Listening, Reading, Timers
<1>7. /\ DOMAIN served' = Nodes /\ served'[n] \subseteq {"read", "write"} \X Sids
      /\ \A m \in Nodes : m # n => served'[m] = served[m]
    BY <1>1, <1>3, <1>4 DEF Shapes, StepFits
<1>8. conns[c].client \in Nodes
    <2>1. conns[c] \in Connection
        BY <1>1, <1>4 DEF ConnsFit
    <2> QED BY <2>1, PeerAssumption DEF Connection, PeerAssumption
<1>9. AcceptorCompletes(n, conns[c].client) <=> RequesterCompletes(conns[c].client)
    BY <1>4, <1>8, BothDecideAlike
<1>10. CASE RequesterCompletes(conns[c].client)
    <2>1. channels[n] = EmptyMap /\ Completed(n, sid)
        BY <1>3, <1>9, <1>10, RequestFindsNone
    <2>2. /\ DOMAIN channels' = Nodes /\ channels'[n] = ChannelOf(sid)
          /\ \A m \in Nodes : m # n => channels'[m] = channels[m]
          /\ told' \in [Nodes -> BOOLEAN] /\ told'[n]
          /\ \A m \in Nodes : m # n => told'[m] = told[m]
          /\ rejected' = rejected
        BY <1>1, <2>1, CompletedFirst
    <2>3. Shapes'
        BY <1>1, <1>3, <1>6, <1>7, <2>2 DEF Shapes
    <2>4. \A m \in Nodes : m # n => NodeSame(m)
        BY <1>3, <1>6, <1>7, <2>2 DEF NodeSame
    <2>5. Carries(n, sid)'
        <3>1. sid \in Pooled(n)'
            BY <1>3, <1>4, SocksSame
        <3>2. sid \notin closing'[n]
            <4>1. socks[n][sid].kind = "accepted"
                BY <1>3 DEF OfKind
            <4> QED BY <1>1, <1>3, <4>1 DEF StepFits, ToBeClosed
        <3>3. sid \notin cache'[n]
            BY <1>1, <1>3 DEF CacheFits, OfKind
        <3>4. ConnOf(n, sid)' = conns'[c]
            BY <1>2, <1>3 DEF ConnOf
        <3> QED BY <1>5, <1>10, <3>1, <3>2, <3>3, <3>4 DEF Carries, RequesterCompletes
    <2>6. ~rejected'[n]
        BY <1>1, <2>2 DEF ChannelFits
    <2>7. NodeFits(n)' /\ SocketsStay(n)
        BY <1>1, <1>3, <1>4, <1>5, <1>6, <1>7, <2>2, <2>5, <2>6, ReadFits
    <2>8. ASSUME NEW d \in DOMAIN conns, NEW m \in Nodes, Answered(d, m)'
          PROVE  \/ HasChannelOf(m, d)'
                 \/ Answered(d, m) /\ (HasChannelOf(m, d) => channels'[m] = channels[m])
        <3>1. CASE d = c
            <4>1. m = n
                <5>1. m # conns[c].client
                    BY <1>5, <2>8, <3>1 DEF Answered
                <5> QED BY <1>4, <1>8, <5>1, TwoNodes
            <4>2. socks'[n][sid].conn = c /\ sid \in Pooled(n)'
                BY <1>2, <1>3, <1>4, SocksSame
            <4> QED BY <2>2, <3>1, <4>1, <4>2 DEF HasChannelOf
        <3>2. CASE d # c
            <4>1. Answered(d, m)
                BY <1>5, <2>8, <3>2 DEF Answered, RequesterCompletes
            <4>2. HasChannelOf(m, d) => channels'[m] = channels[m]
                <5>1. ASSUME m = n, HasChannelOf(m, d) PROVE FALSE
                    <6>1. PICK s \in Pooled(n) : channels[n] = ChannelOf(s)
                        BY <5>1 DEF HasChannelOf
                    <6>2. s # NoSid
                        BY <1>1 DEF Pooled, OfKind, SocksFit, Sids, NoSid
                    <6> QED BY <2>1, <6>1, <6>2, ChannelOfSocket
                <5> QED BY <2>2, <5>1
            <4> QED BY <4>1, <4>2
        <3> QED BY <3>1, <3>2
    <2> QED BY <1>5, <2>3, <2>4, <2>7, <2>8, OneNodeActs
<1>11. CASE ~RequesterCompletes(conns[c].client)
    <2>1. channels' = channels /\ told' = told /\ rejected' = rejected
        BY <1>3, <1>9, <1>11
    <2>2. Shapes'
        BY <1>1, <1>3, <1>6, <1>7, <2>1 DEF Shapes
    <2>3. \A m \in Nodes : m # n => NodeSame(m)
        BY <1>3, <1>6, <1>7, <2>1 DEF NodeSame
    <2>4. NodeFits(n)' /\ SocketsStay(n)
        <3>1. ~rejected'[n] /\ cache'[n] = cache[n] /\ channels'[n] = channels[n] /\ told'[n] = told[n]
            BY <1>1, <1>3, <2>1 DEF ChannelFits
        <3> QED BY <1>1, <1>3, <1>4, <1>5, <1>6, <1>7, <3>1, ReadFits
    <2>5. ASSUME NEW d \in DOMAIN conns, NEW m \in Nodes, Answered(d, m)'
          PROVE  Answered(d, m) /\ channels'[m] = channels[m]
        <3>1. d # c
            BY <1>5, <1>11, <2>5 DEF Answered, RequesterCompletes
        <3> QED BY <1>5, <2>1, <2>5, <3>1 DEF Answered, RequesterCompletes
    <2> QED BY <1>5, <2>2, <2>3, <2>4, <2>5, OneNodeActs
<1> QED BY <1>10, <1>11

\* Who reads a response that becomes a channel has none: it has no other connection.
LEMMA ResponseFindsNone ==
    ASSUME Orderly, PeerInvariant, NEW n \in Nodes, NEW sid \in OfKind(n, "connected"),
           sid \in cache[n], sid \notin closing[n], RequesterCompletes(n)
    PROVE  channels[n] = EmptyMap
<1>1. /\ Shapes /\ ConnsFit
      /\ SocksFit(n) /\ CacheFits(n) /\ OneAttempt(n) /\ ChannelFits(n)
    BY DEF PeerInvariant, NodeFits
<1>2. ASSUME channels[n] # EmptyMap PROVE FALSE
    <2>1. PICK s \in Pooled(n) : Carries(n, s)
        BY <1>1, <1>2 DEF ChannelFits
    <2>2. s \in DOMAIN socks[n] /\ sid \in DOMAIN socks[n]
        BY <2>1 DEF Pooled, OfKind
    <2>3. socks[n][s].conn \in DOMAIN conns
        BY <1>1, <2>1, <2>2, PooledHas
    <2>4. ConnOf(n, s) \in Connection
        BY <1>1, <2>3 DEF ConnsFit, ConnOf
    <2>5. ConnOf(n, sid).client = n /\ sid \in Pooled(n)
        BY <1>1, <2>2, PooledHas
    <2>6. socks[n][sid].conn \in DOMAIN conns
        BY <1>1, <2>2, <2>5, PooledHas
    <2>7. ConnOf(n, sid) \in Connection
        BY <1>1, <2>6 DEF ConnsFit, ConnOf
    <2>8. n \in Connectors /\ ConnOf(n, s).client \in Connectors
        BY <2>4, <2>5, <2>7 DEF Connection
    <2>9. ConnOf(n, s).client = n
        BY <2>1, <2>8 DEF Carries, Orderly, OneKeeps
    <2>10. s \in OfKind(n, "connected")
        BY <1>1, <2>1, <2>2, <2>9, PooledHas
    <2>11. s \in Active(n) /\ sid \in Active(n)
        BY <2>1, <2>10 DEF Active, Carries
    <2>12. s = sid
        BY <1>1, <2>11 DEF OneAttempt
    <2> QED BY <2>1, <2>12 DEF Carries
<1> QED BY <1>2

\* A response that is read, and the connection closed that is not needed, keeps the
\* invariant.
LEMMA ProcessResponseKeeps ==
    ASSUME Orderly, PeerInvariant, NEW n \in Nodes, NEW sid, ProcessResponse(n, sid)
    PROVE  PeerInvariant'
<1>1. /\ Shapes /\ ConnsFit /\ NodeFits(n)
      /\ SocksFit(n) /\ StepFits(n) /\ CacheFits(n) /\ OneAttempt(n) /\ ChannelFits(n)
    BY DEF PeerInvariant, NodeFits
<1>2. PICK c : c = socks[n][sid].conn
    OBVIOUS
<1>3. /\ At(n, Reading) /\ sid \in OfKind(n, "connected")
      /\ served' = [served EXCEPT ![n] = @ \cup {<<"read", sid>>}]
      /\ conns[c].live /\ conns[c].packet = "response" /\ ConnOf(n, sid) = conns[c]
      /\ conns' = [conns EXCEPT ![c].packet = "none"]
      /\ cache' = [cache EXCEPT ![n] = @ \ {sid}]
      /\ socks' = socks /\ polled' = polled /\ hosts' = hosts /\ retry' = retry
    BY <1>2 DEF ProcessResponse, ReadPacket, Meet, ConnOf
<1>4. /\ sid \in Pooled(n) /\ sid \in DOMAIN socks[n] /\ sid \in Sids /\ c \in DOMAIN conns
      /\ conns[c].client = n
    <2>1. sid \in Pooled(n) /\ sid \in DOMAIN socks[n] /\ sid \in Sids
        BY <1>1, <1>3 DEF Pooled, OfKind, SocksFit
    <2> QED BY <1>1, <1>2, <1>3, <2>1, PooledHas
<1>5. /\ ConnsFit' /\ ConnsGoOn /\ DOMAIN conns' = DOMAIN conns
      /\ conns'[c].packet = "none" /\ conns'[c].client = n /\ ConnOf(n, sid)' = conns'[c]
      /\ \A d \in DOMAIN conns : d # c => conns'[d] = conns[d]
    <2>1. /\ ConnsFit' /\ ConnsGoOn /\ DOMAIN conns' = DOMAIN conns
          /\ conns'[c].packet = "none" /\ conns'[c].client = conns[c].client
          /\ \A d \in DOMAIN conns : d # c => conns'[d] = conns[d]
        BY <1>1, <1>3, <1>4, PacketRead
    <2> QED BY <1>2, <1>3, <1>4, <2>1 DEF ConnOf
<1>6. /\ phase' \in [Nodes -> Listening .. Timers] /\ phase[n] <= Reading /\ phase'[n] = Reading
      /\ \A m \in Nodes : m # n => phase'[m] = phase[m]
    BY <1>1, <1>3, AtPhase DEF Listening, Reading, Timers
<1>7. /\ DOMAIN served' = Nodes /\ served'[n] \subseteq {"read", "write"} \X Sids
      /\ \A m \in Nodes : m # n => served'[m] = served[m]
      /\ DOMAIN cache' = Nodes /\ cache'[n] = cache[n] \ {sid}
      /\ \A m \in Nodes : m # n => cache'[m] = cache[m]
    BY <1>1, <1>3, <1>4 DEF Shapes, StepFits
<1>8. sid \notin closing[n]
    <2>1. ASSUME sid \in closing[n] PROVE FALSE
        <3>1. ToBeClosed(n, sid)
            BY <1>1, <2>1 DEF StepFits
        <3>2. phase[n] # Timers
            BY <1>6 DEF Reading, Timers
        <3> QED BY <1>3, <3>1, <3>2 DEF ToBeClosed
    <2> QED BY <2>1
<1>9. sid \in cache[n]
    BY <1>1, <1>3, <1>8 DEF CacheFits
<1>10. \A d \in DOMAIN conns : \A m \in Nodes : Answered(d, m)' => Answered(d, m)
    <2>1. ASSUME NEW d \in DOMAIN conns, NEW m \in Nodes, Answered(d, m)' PROVE Answered(d, m)
        <3>1. conns[d].packet = "request" => conns'[d].packet = "request"
            BY <1>3, <1>5
        <3> QED BY <1>5, <2>1, <3>1, AnswersGoOn
    <2> QED BY <2>1
<1>11. CASE RequesterCompletes(n)
    <2>1. channels[n] = EmptyMap
        BY <1>3, <1>8, <1>9, <1>11, ResponseFindsNone
    <2>2. Completed(n, sid) /\ closing' = closing /\ failed' = failed
        BY <1>9, <1>11 DEF ProcessResponse
    <2>3. /\ DOMAIN channels' = Nodes /\ channels'[n] = ChannelOf(sid)
          /\ \A m \in Nodes : m # n => channels'[m] = channels[m]
          /\ told' \in [Nodes -> BOOLEAN] /\ told'[n]
          /\ \A m \in Nodes : m # n => told'[m] = told[m]
          /\ rejected' = rejected
        BY <1>1, <2>1, <2>2, CompletedFirst
    <2>4. Shapes'
        BY <1>1, <1>3, <1>6, <1>7, <2>2, <2>3 DEF Shapes
    <2>5. \A m \in Nodes : m # n => NodeSame(m)
        BY <1>3, <1>6, <1>7, <2>2, <2>3 DEF NodeSame
    <2>6. Carries(n, sid)'
        <3>1. sid \in Pooled(n)' /\ sid \notin closing'[n] /\ sid \notin cache'[n]
            BY <1>3, <1>4, <1>7, <1>8, <2>2, SocksSame
        <3> QED BY <1>5, <1>11, <3>1 DEF Carries, RequesterCompletes
    <2>7. ~rejected'[n]
        BY <1>1, <2>3 DEF ChannelFits
    <2>8. NodeFits(n)' /\ SocketsStay(n)
        BY <1>1, <1>3, <1>4, <1>5, <1>6, <1>7, <2>2, <2>3, <2>6, <2>7, ReadFits
    <2>9. ASSUME NEW d \in DOMAIN conns, NEW m \in Nodes, HasChannelOf(m, d)
          PROVE  channels'[m] = channels[m]
        <3>1. ASSUME m = n PROVE FALSE
            <4>1. PICK s \in Pooled(n) : channels[n] = ChannelOf(s)
                BY <2>9, <3>1 DEF HasChannelOf
            <4>2. s # NoSid
                BY <1>1 DEF Pooled, OfKind, SocksFit, Sids, NoSid
            <4> QED BY <2>1, <4>1, <4>2, ChannelOfSocket
        <3> QED BY <2>3, <3>1
    <2> QED BY <1>5, <1>10, <2>4, <2>5, <2>8, <2>9, OneNodeActs
<1>12. CASE ~RequesterCompletes(n)
    <2>1. DestroyChannel(n, sid) /\ rejected' = rejected
        BY <1>9, <1>12 DEF ProcessResponse
    <2>2. channels[n] # ChannelOf(sid)
        <3>1. ASSUME channels[n] = ChannelOf(sid) PROVE FALSE
            <4>1. sid # NoSid
                BY <1>4 DEF Sids, NoSid
            <4>2. ChannelOf(sid) # EmptyMap /\ \A t : ChannelOf(sid) = ChannelOf(t) => sid = t
                BY <4>1, ChannelOfSocket
            <4>3. PICK s \in Pooled(n) : channels[n] = ChannelOf(s) /\ Carries(n, s)
                BY <1>1, <3>1, <4>2 DEF ChannelFits
            <4>4. s = sid
                BY <3>1, <4>2, <4>3
            <4> QED BY <1>9, <4>3, <4>4 DEF Carries
        <3> QED BY <3>1
    <2>3. ToBeClosed(n, sid)'
        <3>1. socks'[n][sid].kind = "connected"
            BY <1>3 DEF OfKind
        <3> QED BY <1>5, <3>1 DEF ToBeClosed
    <2>4. Reading \in Writing .. Timers /\ retry' \in [Nodes -> Attempts] /\ retry'[n].deferred \in {0, 1}
        BY <1>1, <1>3 DEF Reading, Writing, Timers, Shapes, Attempts, OneAttempt
    <2>5. DOMAIN polled' = Nodes
        BY <1>1, <1>3 DEF Shapes
    <2>6. \A m \in Nodes : m # n => /\ polled'[m] = polled[m] /\ served'[m] = served[m]
                                    /\ cache'[m] = cache[m] /\ retry'[m] = retry[m]
        BY <1>3, <1>7
    <2>7. polled'[n] = polled[n] /\ retry'[n] = retry[n]
        BY <1>3
    <2> QED BY <1>3, <1>4, <1>5, <1>7, <1>8, <1>10, <2>1, <2>2, <2>3, <2>4, <2>5, <2>6, <2>7,
               ClosedKeeps
<1> QED BY <1>11, <1>12

-----------------------------------------------------------------------------
(***************************************************************************)
(* The end of a step, and every step.                                      *)
(***************************************************************************)

\* Intervals from 1 that are the same end with the same number.
LEMMA SameInterval ==
    ASSUME NEW a \in Nat, NEW b \in Nat, 1 .. a = 1 .. b
    PROVE  a = b
<1>1. Cardinality(1 .. a) = a /\ Cardinality(1 .. b) = b
    BY IntervalSize
<1> QED BY <1>1

\* A connection that is ended is dead and carries nothing.
Ended(conn) == [conn EXCEPT !.live = FALSE, !.packet = "none"]

LEMMA EndedConnection ==
    ASSUME NEW conn \in Connection
    PROVE  /\ Ended(conn) \in Connection /\ ~Ended(conn).live /\ Ended(conn).packet = "none"
           /\ Ended(conn).client = conn.client /\ Ended(conn).accepted = conn.accepted
<1>1. PICK new : new = [conn EXCEPT !.live = FALSE, !.packet = "none"]
    OBVIOUS
<1>2. Ended(conn) = new
    BY <1>1 DEF Ended
<1> QED BY <1>1, <1>2 DEF Connection

\* The connections of the closed sockets are ended.
LEMMA ConnectionsEnded ==
    ASSUME ConnsFit, NEW ended,
           conns' = [c \in DOMAIN conns |-> IF c \in ended THEN Ended(conns[c]) ELSE conns[c]]
    PROVE  /\ ConnsFit' /\ ConnsGoOn /\ DOMAIN conns' = DOMAIN conns
           /\ \A c \in DOMAIN conns : c \in ended => ~conns'[c].live /\ conns'[c].packet = "none"
           /\ \A c \in DOMAIN conns : c \notin ended => conns'[c] = conns[c]
<1>1. /\ conns \in Seq(Connection) /\ DOMAIN conns = 1 .. Len(conns) /\ Len(conns) \in Nat
      /\ conns \in [1 .. Len(conns) -> Connection]
    BY LenProperties DEF ConnsFit
<1>2. ASSUME NEW c \in DOMAIN conns PROVE conns[c] \in Connection
    BY ONLY <1>1
<1>3. /\ DOMAIN conns' = DOMAIN conns
      /\ \A c \in DOMAIN conns : conns'[c] = IF c \in ended THEN Ended(conns[c]) ELSE conns[c]
    OBVIOUS
<1>4. ASSUME NEW c \in DOMAIN conns
      PROVE  /\ conns'[c] \in Connection
             /\ conns'[c].client = conns[c].client /\ conns'[c].accepted = conns[c].accepted
             /\ c \in ended => ~conns'[c].live /\ conns'[c].packet = "none"
             /\ c \notin ended => conns'[c] = conns[c]
    <2>1. CASE c \in ended
        <3>1. conns'[c] = Ended(conns[c])
            BY <1>3, <2>1
        <3> QED BY <1>2, <2>1, <3>1, EndedConnection
    <2>2. CASE c \notin ended
        <3>1. conns'[c] = conns[c]
            BY <1>3, <2>2
        <3> QED BY <1>2, <2>2, <3>1
    <2> QED BY <2>1, <2>2
<1>5. conns' \in [1 .. Len(conns) -> Connection]
    <2>1. conns' = [c \in DOMAIN conns' |-> conns'[c]]
        BY <1>3
    <2> QED BY ONLY <1>1, <1>3, <1>4, <2>1
<1>6. conns' \in Seq(Connection) /\ Len(conns') = Len(conns)
    <2>1. conns' \in Seq(Connection)
        BY ONLY <1>1, <1>5, SeqDef
    <2>2. DOMAIN conns' = 1 .. Len(conns') /\ Len(conns') \in Nat
        BY ONLY <2>1, LenProperties
    <2>3. 1 .. Len(conns') = 1 .. Len(conns)
        BY ONLY <1>1, <1>3, <2>2
    <2>4. Len(conns') = Len(conns)
        BY ONLY <1>1, <2>2, <2>3, SameInterval
    <2> QED BY <2>1, <2>4
<1>7. ConnsFit'
    <2>1. ASSUME NEW c \in DOMAIN conns
          PROVE  /\ conns'[c].packet # "none" => conns'[c].live
                 /\ conns'[c].packet = "response" => conns'[c].accepted
        BY ONLY <1>4, <2>1, ConnsFit DEF ConnsFit
    <2> QED BY <1>3, <1>6, <2>1 DEF ConnsFit
<1>8. ConnsGoOn
    <2>1. ASSUME NEW c \in DOMAIN conns
          PROVE  /\ conns'[c].live => conns[c].live
                 /\ conns[c].packet = "none" => conns'[c].packet = "none"
                 /\ conns[c].packet # "request" => conns'[c].packet # "request"
        BY ONLY <1>4, <2>1
    <2> QED BY ONLY <1>3, <1>4, <2>1 DEF ConnsGoOn
<1> QED BY <1>3, <1>4, <1>7, <1>8

\* The end of a step keeps the invariant: what is closed carries no channel.
LEMMA EndStepKeeps ==
    ASSUME PeerInvariant, NEW n \in Nodes, EndStep(n)
    PROVE  PeerInvariant'
<1>1. /\ Shapes /\ ConnsFit /\ NodeFits(n)
      /\ SocksFit(n) /\ StepFits(n) /\ CacheFits(n) /\ OneAttempt(n) /\ ChannelFits(n)
    BY DEF PeerInvariant, NodeFits
<1>2. PICK gone : gone = closing[n]
    OBVIOUS
<1>3. PICK ended : ended = {socks[n][s].conn : s \in gone}
    OBVIOUS
<1>4. /\ phase' = [phase EXCEPT ![n] = Listening]
      /\ served' = [served EXCEPT ![n] = {}]
      /\ closing' = [closing EXCEPT ![n] = {}]
      /\ RemoveSockets(n, gone)
      /\ cache' = [cache EXCEPT ![n] = @ \ gone]
      /\ polled' = [polled EXCEPT ![n] = {e \in @ : e[2] \notin gone}]
      /\ conns' = [c \in DOMAIN conns |->
                      IF c \in ended
                      THEN [conns[c] EXCEPT !.live = FALSE, !.packet = "none"]
                      ELSE conns[c]]
      /\ channels' = channels /\ told' = told /\ rejected' = rejected /\ hosts' = hosts
      /\ retry' = retry /\ failed' = failed
    BY <1>2, <1>3 DEF EndStep
<1>5. /\ ConnsFit' /\ ConnsGoOn /\ DOMAIN conns' = DOMAIN conns
      /\ \A c \in DOMAIN conns : c \in ended => ~conns'[c].live /\ conns'[c].packet = "none"
      /\ \A c \in DOMAIN conns : c \notin ended => conns'[c] = conns[c]
    <2>1. conns' = [c \in DOMAIN conns |-> IF c \in ended THEN Ended(conns[c]) ELSE conns[c]]
        BY <1>4 DEF Ended
    <2> QED BY <1>1, <2>1, ConnectionsEnded
<1>6. /\ DOMAIN socks' = Nodes /\ \A m \in Nodes : m # n => socks'[m] = socks[m]
      /\ DOMAIN socks'[n] = DOMAIN socks[n] \ gone
      /\ \A s \in DOMAIN socks[n] \ gone : socks'[n][s] = socks[n][s]
    BY <1>1, <1>4, SocketsRemoved
<1>7. /\ OfKind(n, "connecting")' = OfKind(n, "connecting") \ gone
      /\ OfKind(n, "connected")' = OfKind(n, "connected") \ gone
      /\ OfKind(n, "accepted")' = OfKind(n, "accepted") \ gone
    BY <1>1, <1>4, KindsRemoved
<1>8. Pooled(n)' = Pooled(n) \ gone
    BY <1>7 DEF Pooled
<1>9. /\ phase' \in [Nodes -> Listening .. Timers]
      /\ DOMAIN served' = Nodes /\ DOMAIN closing' = Nodes /\ DOMAIN cache' = Nodes
      /\ DOMAIN polled' = Nodes
      /\ served'[n] = {} /\ closing'[n] = {} /\ cache'[n] = cache[n] \ gone
      /\ polled'[n] = {e \in polled[n] : e[2] \notin gone}
      /\ \A m \in Nodes : m # n => /\ phase'[m] = phase[m] /\ served'[m] = served[m]
                                   /\ closing'[m] = closing[m] /\ cache'[m] = cache[m]
                                   /\ polled'[m] = polled[m]
    <2>1. PICK kept : kept = {e \in polled[n] : e[2] \notin gone}
        OBVIOUS
    <2>2. polled' = [polled EXCEPT ![n] = kept]
        BY <1>4, <2>1
    <2>3. phase' \in [Nodes -> Listening .. Timers] /\ \A m \in Nodes : m # n => phase'[m] = phase[m]
        <3>1. PICK phases : phases = Listening .. Timers
            OBVIOUS
        <3>2. Listening \in phases
            BY <3>1 DEF Listening, Timers
        <3>3. phase \in [Nodes -> phases]
            BY <1>1, <3>1 DEF Shapes
        <3> QED BY ONLY <1>4, <3>1, <3>2, <3>3
    <2>4. /\ DOMAIN served' = Nodes /\ DOMAIN closing' = Nodes /\ DOMAIN cache' = Nodes
          /\ DOMAIN polled' = Nodes
          /\ served'[n] = {} /\ closing'[n] = {} /\ cache'[n] = cache[n] \ gone
          /\ polled'[n] = kept
          /\ \A m \in Nodes : m # n => /\ served'[m] = served[m] /\ closing'[m] = closing[m]
                                       /\ cache'[m] = cache[m] /\ polled'[m] = polled[m]
        BY <1>1, <1>4, <2>2 DEF Shapes
    <2> QED BY <2>1, <2>3, <2>4
<1>10. Shapes'
    BY <1>1, <1>4, <1>6, <1>9 DEF Shapes
<1>11. \A m \in Nodes : m # n => NodeSame(m)
    BY <1>4, <1>6, <1>9 DEF NodeSame
<1>12. ASSUME NEW s \in Pooled(n), s \notin gone
       PROVE  /\ s \in DOMAIN socks[n] /\ socks[n][s].conn \in DOMAIN conns
              /\ socks'[n][s] = socks[n][s] /\ socks[n][s].conn \notin ended
              /\ ConnOf(n, s)' = ConnOf(n, s)
    <2>1. s \in DOMAIN socks[n]
        BY DEF Pooled, OfKind
    <2>2. socks[n][s].conn \in DOMAIN conns /\ socks'[n][s] = socks[n][s]
        BY <1>1, <1>6, <1>12, <2>1, PooledHas
    <2>3. socks[n][s].conn \notin ended
        <3>1. ASSUME NEW t \in gone, socks[n][t].conn = socks[n][s].conn PROVE FALSE
            <4>1. t \in Pooled(n)
                BY <1>1, <1>2 DEF StepFits
            <4> QED BY <1>1, <1>12, <3>1, <4>1 DEF SocksFit
        <3> QED BY <1>3, <3>1
    <2> QED BY <1>5, <2>1, <2>2, <2>3 DEF ConnOf
<1>13. SocketsStay(n)
    <2>1. ASSUME NEW s \in Pooled(n), conns'[socks[n][s].conn].live, s \in gone PROVE FALSE
        <3>1. s \in DOMAIN socks[n]
            BY DEF Pooled, OfKind
        <3>2. socks[n][s].conn \in DOMAIN conns /\ socks[n][s].conn \in ended
            BY <1>1, <1>3, <2>1, <3>1, PooledHas
        <3> QED BY <1>5, <2>1, <3>2
    <2> QED BY <1>8, <1>12, <2>1 DEF SocketsStay
<1>14. SocksFit(n)'
    BY <1>1, <1>5, <1>6, <1>8, <1>12 DEF SocksFit, SocketFits, ConnOf, ConnsGoOn
<1>15. StepFits(n)'
    BY <1>1, <1>2, <1>8, <1>9 DEF StepFits
<1>16. CacheFits(n)'
    <2>1. ASSUME NEW s \in OfKind(n, "connected")', s \notin cache'[n]
          PROVE  ConnOf(n, s)'.packet = "none"
        <3>1. s \in OfKind(n, "connected") /\ s \notin gone /\ s \notin cache[n] /\ s \in Pooled(n)
            BY <1>7, <1>9, <2>1 DEF Pooled
        <3>2. ConnOf(n, s).packet = "none"
            BY <1>1, <1>2, <3>1 DEF CacheFits
        <3> QED BY <1>12, <3>1, <3>2
    <2>2. cache'[n] \subseteq OfKind(n, "connected")'
        BY <1>1, <1>7, <1>9 DEF CacheFits
    <2> QED BY <2>1, <2>2 DEF CacheFits
<1>17. OneAttempt(n)'
    <2>1. OfKind(n, "connecting") \cap gone = {}
        BY <1>1, <1>2 DEF StepFits, Pooled, OfKind
    <2>2. OfKind(n, "connecting")' = OfKind(n, "connecting")
        BY <1>7, <2>1
    <2>3. Active(n)' = Active(n)
        BY <1>2, <1>7, <1>9, <2>2 DEF Active
    <2>4. OfKind(n, "connected")' \subseteq OfKind(n, "connected")
        BY <1>7
    <2>5. closing'[n] = {} /\ hosts'[n] = hosts[n] /\ retry'[n] = retry[n]
        BY <1>4, <1>9
    <2>6. ~hosts[n] => OfKind(n, "connecting")' \cup OfKind(n, "connected")' = {}
        BY <1>1, <2>2, <2>4 DEF OneAttempt
    <2> QED BY ONLY <1>1, <2>3, <2>5, <2>6 DEF OneAttempt
<1>18. ChannelFits(n)'
    <2>1. ASSUME NEW s \in Pooled(n), Carries(n, s) PROVE s \in Pooled(n)' /\ Carries(n, s)'
        <3>1. s \notin gone
            BY <1>2, <2>1 DEF Carries
        <3>2. s \in Pooled(n)' /\ s \notin closing'[n] /\ s \notin cache'[n]
            BY <1>8, <1>9, <2>1, <3>1 DEF Carries
        <3> QED BY <1>12, <2>1, <3>1, <3>2 DEF Carries, RequesterCompletes
    <2> QED BY <1>1, <1>4, <2>1 DEF ChannelFits
<1>19. NodeFits(n)'
    BY <1>14, <1>15, <1>16, <1>17, <1>18 DEF NodeFits
<1>20. ASSUME NEW d \in DOMAIN conns, NEW m \in Nodes, Answered(d, m)'
       PROVE  Answered(d, m) /\ channels'[m] = channels[m]
    <2>1. conns'[d] = conns[d]
        BY <1>5, <1>20 DEF Answered
    <2> QED BY <1>4, <1>20, <2>1 DEF Answered, RequesterCompletes
<1> QED BY <1>5, <1>10, <1>11, <1>13, <1>19, <1>20, OneNodeActs

\* Every step keeps the invariant.
LEMMA NextKeeps ==
    ASSUME Orderly, PeerInvariant, [Next]_vars
    PROVE  PeerInvariant'
<1>1. ASSUME NEW n \in Nodes, ConnectPeer(n) PROVE PeerInvariant'
    BY <1>1, ConnectPeerKeeps
<1>2. ASSUME NEW n \in Nodes, Reconnect(n) PROVE PeerInvariant'
    BY <1>2, ReconnectKeeps
<1>3. ASSUME NEW n \in Nodes, EndStep(n) PROVE PeerInvariant'
    BY <1>3, EndStepKeeps
<1>4. ASSUME NEW n \in Nodes, NEW c \in DOMAIN conns, Accept(n, c) PROVE PeerInvariant'
    BY <1>4, AcceptKeeps
<1>5. ASSUME NEW n \in Nodes, NEW sid, Connected(n, sid) PROVE PeerInvariant'
    BY <1>5, ConnectedKeeps
<1>6. ASSUME NEW n \in Nodes, NEW sid, ProcessRequest(n, sid) PROVE PeerInvariant'
    BY <1>6, ProcessRequestKeeps
<1>7. ASSUME NEW n \in Nodes, NEW sid, ProcessResponse(n, sid) PROVE PeerInvariant'
    BY <1>7, ProcessResponseKeeps
<1>8. ASSUME NEW n \in Nodes, NEW sid, WriterFails(n, sid) PROVE PeerInvariant'
    <2>1. /\ Writing \in Writing .. Timers /\ At(n, Writing) /\ "write" \in {"read", "write"}
          /\ Disconnected(n, "write", sid)
        BY <1>8 DEF WriterFails, Writing, Timers
    <2> QED BY <2>1, DisconnectedKeeps
<1>9. ASSUME NEW n \in Nodes, NEW sid, ReaderDisconnected(n, sid) PROVE PeerInvariant'
    <2>1. /\ Reading \in Writing .. Timers /\ At(n, Reading) /\ "read" \in {"read", "write"}
          /\ Disconnected(n, "read", sid)
        BY <1>9 DEF ReaderDisconnected, Reading, Writing, Timers
    <2> QED BY <2>1, DisconnectedKeeps
<1>10. ASSUME NEW n \in Nodes, NEW sid, Refused(n, sid) PROVE PeerInvariant'
    BY <1>10, RefusedKeeps
<1>11. ASSUME NEW n \in Nodes, NEW sid, ConnectFails(n, sid) PROVE PeerInvariant'
    BY <1>11, ConnectFailsKeeps
<1>12. ASSUME NEW n \in Nodes, NEW sid, HandshakeExpires(n, sid) PROVE PeerInvariant'
    BY <1>12, HandshakeExpiresKeeps
<1>13. ASSUME NEW c \in DOMAIN conns, Break(c) PROVE PeerInvariant'
    BY <1>13, BreakKeeps
<1>14. CASE UNCHANGED vars
    <2>1. conns' = conns /\ \A m \in Nodes : NodeSame(m)
        BY <1>14 DEF vars, pools, handshakes, NodeSame
    <2>2. Shapes /\ ConnsFit /\ (\A m \in Nodes : NodeFits(m)) /\ OneConnection /\ AnsweredHas
        BY DEF PeerInvariant
    <2>3. Shapes' /\ ConnsFit' /\ ConnsGoOn
        BY <1>14, <2>2 DEF vars, pools, handshakes, Shapes, ConnsFit, ConnsGoOn
    <2>4. \A m \in Nodes : NodeFits(m)'
        BY <2>1, <2>2, <2>3, SameFits
    <2>5. OneConnection'
        BY <1>14, <2>2 DEF vars, pools, OneConnection
    <2>6. AnsweredHas'
        BY <1>14, <2>2
           DEF vars, pools, handshakes, AnsweredHas, Answered, HasChannelOf, Pooled, OfKind,
               RequesterCompletes
    <2> QED BY <2>3, <2>4, <2>5, <2>6 DEF PeerInvariant
<1>15. ASSUME NEW n \in Nodes, Works(n) PROVE PeerInvariant'
    BY <1>1, <1>2, <1>3, <1>4, <1>5, <1>6, <1>7, <1>8, <1>9, <1>15 DEF Works
<1>16. ASSUME NEW n \in Nodes, Suffers(n) PROVE PeerInvariant'
    BY <1>10, <1>11, <1>12, <1>16 DEF Suffers
<1> QED BY <1>13, <1>14, <1>15, <1>16 DEF Next

\* No connection, no socket and no channel.
LEMMA InitFits == Init => PeerInvariant
<1> SUFFICES ASSUME Init PROVE PeerInvariant
    OBVIOUS
<1>1. /\ conns = <<>>
      /\ socks = [n \in Nodes |-> <<>>]
      /\ polled = [n \in Nodes |-> {}] /\ served = [n \in Nodes |-> {}]
      /\ cache = [n \in Nodes |-> {}] /\ closing = [n \in Nodes |-> {}]
      /\ channels = [n \in Nodes |-> EmptyMap]
      /\ hosts = [n \in Nodes |-> FALSE] /\ told = [n \in Nodes |-> FALSE]
      /\ rejected = [n \in Nodes |-> FALSE] /\ failed = [n \in Nodes |-> FALSE]
      /\ retry = [n \in Nodes |-> [attempts |-> 0, deferred |-> 0]]
      /\ phase = [n \in Nodes |-> Listening]
    BY DEF Init
<1>2. Shapes
    <2>1. Listening \in Listening .. Timers
        BY DEF Listening, Timers
    <2>2. [attempts |-> 0, deferred |-> 0] \in [attempts : Nat, deferred : Nat]
        OBVIOUS
    <2>3. phase \in [Nodes -> Listening .. Timers]
        BY <1>1, <2>1
    <2>4. retry \in [Nodes -> [attempts : Nat, deferred : Nat]]
        BY <1>1, <2>2
    <2> QED BY <1>1, <2>3, <2>4 DEF Shapes
<1>3. DOMAIN conns = {} /\ \A n \in Nodes : DOMAIN socks[n] = {}
    BY <1>1
<1>4. ConnsFit
    <2>1. conns \in Seq(Connection) /\ Len(conns) = 0
        BY <1>1, EmptySeq
    <2>2. MaxConnections \in Nat
        BY PeerAssumption DEF PeerAssumption
    <2> QED BY <1>3, <2>1, <2>2 DEF ConnsFit
<1>5. ASSUME NEW n \in Nodes PROVE NodeFits(n)
    <2>1. OfKind(n, "connecting") = {} /\ OfKind(n, "connected") = {} /\ Pooled(n) = {}
        BY <1>3 DEF OfKind, Pooled
    <2>2. /\ polled[n] = {} /\ served[n] = {} /\ cache[n] = {} /\ closing[n] = {}
          /\ channels[n] = EmptyMap /\ ~hosts[n] /\ ~told[n] /\ ~rejected[n] /\ ~failed[n]
          /\ retry[n].deferred = 0
        BY <1>1
    <2>3. SocksFit(n)
        BY <1>3, <2>1 DEF SocksFit
    <2>4. StepFits(n)
        BY <2>1, <2>2 DEF StepFits
    <2>5. CacheFits(n)
        BY <2>1, <2>2 DEF CacheFits
    <2>6. OneAttempt(n)
        BY <2>1, <2>2 DEF OneAttempt, Active
    <2>7. ChannelFits(n)
        BY <2>2 DEF ChannelFits
    <2> QED BY <2>3, <2>4, <2>5, <2>6, <2>7 DEF NodeFits
<1>6. OneConnection /\ AnsweredHas
    BY <1>3 DEF OneConnection, AnsweredHas
<1> QED BY <1>2, <1>4, <1>5, <1>6 DEF PeerInvariant

\* The invariant holds in every state.
THEOREM PeerHolds ==
    ASSUME Orderly
    PROVE  Spec => []PeerInvariant
<1>1. PeerInvariant /\ [Next]_vars => PeerInvariant'
    BY NextKeeps
<1> QED BY <1>1, InitFits, PTL DEF Spec

-----------------------------------------------------------------------------
(***************************************************************************)
(* What follows from the invariant.                                        *)
(***************************************************************************)

\* Every variable keeps its type: sockets are known by their numbers, and what is
\* waited for or closed is a socket of the pools.
THEOREM TypesHold ==
    ASSUME Orderly
    PROVE  Spec => []TypeOK
<1>1. ASSUME PeerInvariant PROVE TypeOK
    <2>1. Shapes /\ ConnsFit /\ \A n \in Nodes : NodeFits(n)
        BY <1>1 DEF PeerInvariant
    <2>2. \A c \in DOMAIN conns :
              conns[c] \in [client : Connectors, live : BOOLEAN, accepted : BOOLEAN,
                            packet : {"none", "request", "response"}]
        <3>1. \A c \in DOMAIN conns : conns[c] \in Connection
            BY <2>1 DEF ConnsFit
        <3> QED BY ONLY <3>1 DEF Connection
    <2>3. ASSUME NEW n \in Nodes
          PROVE  /\ DOMAIN socks[n] \subseteq Sids
                 /\ \A s \in DOMAIN socks[n] :
                        socks[n][s] \in [conn : 0 .. Len(conns),
                                         kind : {"connecting", "connected", "accepted"}]
                 /\ served[n] \cup polled[n] \subseteq {"read", "write"} \X Sids
                 /\ cache[n] \cup closing[n] \subseteq Pooled(n)
                 /\ retry[n] \in [attempts : Nat, deferred : Nat]
                 /\ phase[n] \in Listening .. Timers
        <3>1. SocksFit(n) /\ StepFits(n) /\ CacheFits(n)
            BY <2>1 DEF NodeFits
        <3>2. DOMAIN conns = 1 .. Len(conns) /\ Len(conns) \in Nat
            BY <2>1, LenProperties DEF ConnsFit
        <3>3. ASSUME NEW s \in DOMAIN socks[n]
              PROVE  socks[n][s] \in [conn : 0 .. Len(conns),
                                      kind : {"connecting", "connected", "accepted"}]
            <4>1. SocketFits(n, s)
                BY <3>1 DEF SocksFit
            <4>2. socks[n][s].conn \in 0 .. Len(conns)
                BY <3>2, <4>1 DEF SocketFits
            <4> QED BY <4>1, <4>2 DEF SocketFits, Kinds
        <3>4. Pooled(n) \subseteq Sids /\ DOMAIN socks[n] \subseteq Sids
            BY <3>1 DEF SocksFit, Pooled, OfKind
        <3>5. served[n] \cup polled[n] \subseteq {"read", "write"} \X Sids
            BY <3>1, <3>4 DEF StepFits
        <3>6. cache[n] \cup closing[n] \subseteq Pooled(n)
            BY <3>1 DEF StepFits, CacheFits, Pooled
        <3>7. retry[n] \in [attempts : Nat, deferred : Nat] /\ phase[n] \in Listening .. Timers
            BY <2>1 DEF Shapes
        <3> QED BY <3>3, <3>4, <3>5, <3>6, <3>7
    <2>4. {hosts, told, rejected, failed} \subseteq [Nodes -> BOOLEAN]
        BY <2>1 DEF Shapes
    <2> QED BY <2>2, <2>3, <2>4 DEF TypeOK
<1> QED BY <1>1, PeerHolds, PTL

-----------------------------------------------------------------------------
(***************************************************************************)
(* One connection, and the link that is promised.                          *)
(***************************************************************************)

\* The channel of n is on the connection c.
On(n, c) == \E s \in Pooled(n) : channels[n] = ChannelOf(s) /\ Carries(n, s) /\ socks[n][s].conn = c

\* Who was told of a channel has it on one connection, wanted by its client.
LEMMA ToldIsOn ==
    ASSUME PeerInvariant, NEW n \in Nodes, told[n]
    PROVE  \E c \in DOMAIN conns : On(n, c)
<1>1. SocksFit(n) /\ ChannelFits(n)
    BY DEF PeerInvariant, NodeFits
<1>2. PICK s \in Pooled(n) : channels[n] = ChannelOf(s) /\ Carries(n, s)
    BY <1>1 DEF ChannelFits
<1>3. s \in DOMAIN socks[n]
    BY DEF Pooled, OfKind
<1>4. socks[n][s].conn \in DOMAIN conns
    BY <1>1, <1>3, PooledHas
<1> QED BY <1>2, <1>4 DEF On

\* What is known of the connection of a channel.
LEMMA OnFacts ==
    ASSUME Orderly, PeerInvariant, NEW n \in Nodes, NEW c, On(n, c)
    PROVE  /\ c \in DOMAIN conns /\ conns[c] \in Connection
           /\ RequesterCompletes(conns[c].client) /\ conns[c].packet # "request"
           /\ told[n]
           /\ Carriers(n) = IF conns[c].live THEN {c} ELSE {}
           /\ \A d : On(n, d) => d = c
           /\ \A d : HasChannelOf(n, d) => d = c
<1>1. ConnsFit /\ SocksFit(n) /\ ChannelFits(n)
    BY DEF PeerInvariant, NodeFits
<1>2. PICK s \in Pooled(n) : channels[n] = ChannelOf(s) /\ Carries(n, s) /\ socks[n][s].conn = c
    BY DEF On
<1>3. s \in DOMAIN socks[n] /\ s # NoSid
    BY <1>1 DEF Pooled, OfKind, SocksFit, Sids, NoSid
<1>4. /\ IsOpen(ChannelOf(s)) /\ ChannelOf(s).readers.first = s /\ ChannelOf(s) # EmptyMap
      /\ \A t : ChannelOf(s) = ChannelOf(t) => s = t
    BY <1>3, ChannelOfSocket
<1>5. c \in DOMAIN conns
    BY <1>1, <1>2, <1>3, PooledHas
<1>6. conns[c] \in Connection
    BY <1>1, <1>5 DEF ConnsFit
<1>7. told[n]
    BY <1>1, <1>2, <1>4 DEF ChannelFits
<1>8. Carriers(n) = IF conns[c].live THEN {c} ELSE {}
    <2>1. Pooled(n) \cap {channels[n].readers.first} = {s}
        BY <1>2, <1>4
    <2>2. {socks[n][t].conn : t \in Pooled(n) \cap {channels[n].readers.first}} = {c}
        BY <1>2, <2>1
    <2> QED BY <2>2 DEF Carriers
<1>9. ASSUME NEW d, HasChannelOf(n, d) PROVE d = c
    <2>1. PICK t \in Pooled(n) : socks[n][t].conn = d /\ channels[n] = ChannelOf(t)
        BY <1>9 DEF HasChannelOf
    <2>2. t = s
        BY <1>2, <1>4, <2>1
    <2> QED BY <1>2, <2>1, <2>2
<1>10. ASSUME NEW d, On(n, d) PROVE d = c
    BY <1>9, <1>10 DEF On, HasChannelOf
<1>11. RequesterCompletes(conns[c].client) /\ conns[c].packet # "request"
    BY <1>2 DEF Carries, ConnOf
<1> QED BY <1>5, <1>6, <1>7, <1>8, <1>9, <1>10, <1>11

\* All that become channels are of one client.
LEMMA OneClient ==
    ASSUME Orderly, PeerInvariant, NEW c \in DOMAIN conns, NEW d \in DOMAIN conns,
           RequesterCompletes(conns[c].client), RequesterCompletes(conns[d].client)
    PROVE  conns[c].client = conns[d].client /\ conns[c].client \in Nodes
<1>1. conns[c] \in Connection /\ conns[d] \in Connection
    BY DEF PeerInvariant, ConnsFit
<1>2. conns[c].client \in Connectors /\ conns[d].client \in Connectors
    BY <1>1 DEF Connection
<1> QED BY <1>2, PeerAssumption DEF Orderly, OneKeeps, PeerAssumption

\* The client of a live connection that becomes a channel has its channel on no other.
LEMMA ClientOnLive ==
    ASSUME Orderly, PeerInvariant, NEW c \in DOMAIN conns, conns[c].live,
           RequesterCompletes(conns[c].client), NEW d, On(conns[c].client, d)
    PROVE  d = c
<1>1. PICK n : n = conns[c].client
    OBVIOUS
<1>2. n \in Nodes /\ On(n, d)
    BY <1>1, OneClient
<1>3. SocksFit(n) /\ StepFits(n) /\ OneAttempt(n) /\ OneConnection
    BY <1>2 DEF PeerInvariant, NodeFits
<1>4. PICK s \in Pooled(n) : Carries(n, s) /\ socks[n][s].conn = d
    BY <1>2 DEF On
<1>5. s \in DOMAIN socks[n]
    BY DEF Pooled, OfKind
<1>6. RequesterCompletes(conns[d].client) /\ d \in DOMAIN conns
    BY <1>2, OnFacts
<1>7. PICK t \in DOMAIN socks[n] : socks[n][t].kind = "connected" /\ socks[n][t].conn = c
    BY <1>1, <1>3 DEF OneConnection
<1>8. t \in OfKind(n, "connected") /\ t \in Pooled(n)
    BY <1>7 DEF OfKind, Pooled
<1>9. CASE s \in OfKind(n, "connected")
    <2>1. s \in Active(n)
        BY <1>4, <1>9 DEF Active, Carries
    <2>2. t \notin closing[n]
        BY <1>3, <1>8, <2>1 DEF OneAttempt
    <2>3. t \in Active(n)
        BY <1>8, <2>2 DEF Active
    <2>4. s = t
        BY <1>3, <2>1, <2>3 DEF OneAttempt
    <2> QED BY <1>4, <1>7, <2>4
<1>10. CASE s \notin OfKind(n, "connected")
    <2>1. s \in OfKind(n, "accepted")
        BY <1>2, <1>3, <1>4, <1>5, <1>10, PooledHas
    <2>2. conns[d].client # n
        BY <1>2, <1>3, <1>4, <1>5, <2>1, PooledHas DEF ConnOf
    <2> QED BY <1>1, <1>6, <2>2, OneClient
<1> QED BY <1>9, <1>10

\* Two channels on live connections are on one.
LEMMA OneLive ==
    ASSUME Orderly, PeerInvariant, NEW n \in Nodes, NEW m \in Nodes, NEW c, NEW d,
           On(n, c), On(m, d), conns[c].live, conns[d].live
    PROVE  c = d
<1>1. c \in DOMAIN conns /\ RequesterCompletes(conns[c].client)
    BY OnFacts
<1>2. d \in DOMAIN conns /\ RequesterCompletes(conns[d].client)
    BY OnFacts
<1>3. conns[c].client = conns[d].client
    BY <1>1, <1>2, OneClient
<1>4. ~(c < d) /\ ~(d < c)
    BY <1>1, <1>2, <1>3 DEF PeerInvariant, OneConnection
<1>5. c \in Nat /\ d \in Nat
    BY <1>1, <1>2, LenProperties DEF PeerInvariant, ConnsFit
<1> QED BY <1>4, <1>5

\* The two ends never hold different connections for their channel
\* (single_link_handshake.hpp:77, :91).
THEOREM OnOne ==
    ASSUME Orderly
    PROVE  Spec => []OnOneConnection
<1>1. ASSUME PeerInvariant PROVE OnOneConnection
    <2>1. PICK all : all = UNION {Carriers(n) : n \in {m \in Nodes : told[m]}}
        OBVIOUS
    <2>2. ASSUME NEW c \in all
          PROVE  conns[c].live /\ \E n \in Nodes : On(n, c)
        <3>1. PICK n \in Nodes : told[n] /\ c \in Carriers(n)
            BY <2>1
        <3>2. PICK d \in DOMAIN conns : On(n, d)
            BY <1>1, <3>1, ToldIsOn
        <3>3. Carriers(n) = IF conns[d].live THEN {d} ELSE {}
            BY <1>1, <3>2, OnFacts
        <3> QED BY <3>1, <3>2, <3>3
    <2>3. \A c, d \in all : c = d
        BY <1>1, <2>2, OneLive
    <2>4. Cardinality(all) <= 1
        <3>1. CASE all = {}
            BY <3>1, FS_EmptySet
        <3>2. CASE all # {}
            <4>1. PICK c : all = {c}
                BY <2>3, <3>2
            <4>2. Cardinality({c}) = 1
                BY FS_Singleton
            <4> QED BY <4>1, <4>2
        <3> QED BY <3>1, <3>2
    <2> QED BY <2>1, <2>4 DEF OnOneConnection
<1> QED BY <1>1, PeerHolds, PTL

\* The connection that an end was told of is alive.
Wire == \E n \in Nodes : told[n] /\ Carriers(n) # {}

\* Then there is a channel on a live connection.
LEMMA WireIsLive ==
    ASSUME Orderly, PeerInvariant, Wire
    PROVE  \E m \in Nodes : \E d \in DOMAIN conns : On(m, d) /\ conns[d].live
<1>1. PICK m \in Nodes : told[m] /\ Carriers(m) # {}
    BY DEF Wire
<1>2. PICK d \in DOMAIN conns : On(m, d)
    BY <1>1, ToldIsOn
<1>3. conns[d].live
    BY <1>1, <1>2, OnFacts
<1> QED BY <1>2, <1>3

\* What the link promises of a step that tells nothing: the wire may break.
Quiet == told' = told /\ (Wire' => Wire)

\* The channels stay, and sockets do not become others: nothing but a break.
LEMMA QuietStep ==
    ASSUME Orderly, PeerInvariant, ConnsGoOn, told' = told,
           \A m \in Nodes : channels'[m] = channels[m],
           \A m \in Nodes : \A s \in Pooled(m) : s \in Pooled(m)' => socks'[m][s] = socks[m][s]
    PROVE  Quiet
<1>1. ASSUME Wire' PROVE Wire
    <2>1. PICK m \in Nodes : told'[m] /\ Carriers(m)' # {}
        BY <1>1 DEF Wire
    <2>2. PICK s \in Pooled(m)' : /\ s = channels'[m].readers.first
                                  /\ conns'[socks'[m][s].conn].live
        BY <2>1 DEF Carriers
    <2>3. SocksFit(m) /\ ChannelFits(m)
        BY DEF PeerInvariant, NodeFits
    <2>4. PICK t \in Pooled(m) : channels[m] = ChannelOf(t)
        BY <2>1, <2>3 DEF ChannelFits
    <2>5. t # NoSid /\ t \in DOMAIN socks[m]
        BY <2>3 DEF Pooled, OfKind, SocksFit, Sids, NoSid
    <2>6. s = t
        <3>1. ChannelOf(t).readers.first = t
            BY <2>5, ChannelOfSocket
        <3> QED BY <2>2, <2>4, <3>1
    <2>7. socks'[m][s] = socks[m][s] /\ socks[m][s].conn \in DOMAIN conns
        BY <2>2, <2>3, <2>5, <2>6, PooledHas
    <2>8. conns[socks[m][s].conn].live
        BY <2>2, <2>7 DEF ConnsGoOn
    <2>9. socks[m][s].conn \in Carriers(m)
        <3>1. channels[m].readers.first = s
            BY <2>2
        <3> QED BY <2>6, <2>8, <3>1 DEF Carriers
    <2> QED BY <2>1, <2>9 DEF Wire
<1> QED BY <1>1 DEF Quiet

\* A socket is added that was none of the pools.
LEMMA QuietAdded ==
    ASSUME Orderly, PeerInvariant, ConnsGoOn, told' = told, channels' = channels,
           NEW n \in Nodes, NEW sid, NEW conn, NEW kind, AddSocket(n, sid, conn, kind),
           sid \notin Pooled(n) \/ kind = "connecting"
    PROVE  Quiet
<1>1. Shapes
    BY DEF PeerInvariant
<1>2. /\ \A m \in Nodes : m # n => socks'[m] = socks[m]
      /\ socks'[n][sid] = [conn |-> conn, kind |-> kind]
      /\ \A s \in DOMAIN socks[n] : s # sid => socks'[n][s] = socks[n][s]
    BY <1>1, SocketAdded
<1>3. ASSUME NEW s \in Pooled(n), s \in Pooled(n)' PROVE socks'[n][s] = socks[n][s]
    <2>1. s \in DOMAIN socks[n]
        BY DEF Pooled, OfKind
    <2>2. s # sid
        <3>1. ASSUME s = sid, kind = "connecting" PROVE FALSE
            <4>1. socks'[n][sid].kind = "connecting"
                BY <1>2, <3>1
            <4> QED BY <1>3, <3>1, <4>1 DEF Pooled, OfKind
        <3> QED BY <3>1
    <2> QED BY <1>2, <2>1, <2>2
<1>4. \A m \in Nodes : \A s \in Pooled(m) : s \in Pooled(m)' => socks'[m][s] = socks[m][s]
    BY <1>2, <1>3
<1> QED BY <1>4, QuietStep

\* Sockets are removed.
LEMMA QuietRemoved ==
    ASSUME Orderly, PeerInvariant, ConnsGoOn, told' = told, channels' = channels,
           NEW n \in Nodes, NEW sids, RemoveSockets(n, sids)
    PROVE  Quiet
<1>1. Shapes
    BY DEF PeerInvariant
<1>2. /\ \A m \in Nodes : m # n => socks'[m] = socks[m]
      /\ DOMAIN socks'[n] = DOMAIN socks[n] \ sids
      /\ \A s \in DOMAIN socks[n] \ sids : socks'[n][s] = socks[n][s]
    BY <1>1, SocketsRemoved
<1>3. ASSUME NEW s \in Pooled(n), s \in Pooled(n)' PROVE socks'[n][s] = socks[n][s]
    <2>1. s \in DOMAIN socks[n] /\ s \in DOMAIN socks'[n]
        BY <1>3 DEF Pooled, OfKind
    <2> QED BY <1>2, <2>1
<1>4. \A m \in Nodes : \A s \in Pooled(m) : s \in Pooled(m)' => socks'[m][s] = socks[m][s]
    BY <1>2, <1>3
<1> QED BY <1>4, QuietStep

\* A socket is to be closed that carries no channel.
LEMMA QuietClosing ==
    ASSUME Orderly, PeerInvariant, ConnsGoOn, socks' = socks, NEW n \in Nodes,
           NEW sid \in Pooled(n), DestroyChannel(n, sid), channels[n] # ChannelOf(sid)
    PROVE  Quiet
<1>1. Shapes /\ SocksFit(n) /\ ChannelFits(n)
    BY DEF PeerInvariant, NodeFits
<1>2. /\ channels'[n] = IF channels[n] = ChannelOf(sid) THEN EmptyMap ELSE channels[n]
      /\ \A m \in Nodes : m # n => channels'[m] = channels[m]
      /\ told' = [told EXCEPT ![n] = IF channels[n] = ChannelOf(sid) THEN FALSE ELSE @]
    BY <1>1, Destroyed
<1>3. told' = told
    <2>1. told' = [told EXCEPT ![n] = told[n]]
        BY <1>2
    <2> QED BY <1>1, <2>1 DEF Shapes
<1>4. \A m \in Nodes : channels'[m] = channels[m]
    BY <1>2
<1> QED BY <1>3, <1>4, QuietStep

\* A new channel of n, on the connection of sid, which is alive.
LEMMA NewIsLive ==
    ASSUME Shapes, NEW n \in Nodes, NEW sid \in Pooled(n), socks' = socks,
           channels'[n] = ChannelOf(sid), told'[n], ConnOf(n, sid)'.live
    PROVE  Wire'
<1>1. sid \in Pooled(n)'
    BY SocksSame
<1>2. channels'[n].readers.first = sid
    BY DEF ChannelOf, OneWay
<1>3. socks'[n][sid].conn \in Carriers(n)'
    BY <1>1, <1>2 DEF Carriers, ConnOf
<1> QED BY <1>3 DEF Wire

\* A request that becomes a channel is the first that is told of its connection, and
\* nobody has been told of another.
LEMMA RequestLinks ==
    ASSUME Orderly, PeerInvariant, NEW n \in Nodes, NEW sid, ProcessRequest(n, sid)
    PROVE  Quiet \/ Link!EstablishFirst(n)
<1>1. Shapes /\ ConnsFit /\ SocksFit(n) /\ ChannelFits(n)
    BY DEF PeerInvariant, NodeFits
<1>2. PICK c : c = socks[n][sid].conn
    OBVIOUS
<1>3. /\ sid \in OfKind(n, "accepted")
      /\ conns[c].live /\ conns[c].packet = "request" /\ ConnOf(n, sid) = conns[c]
      /\ conns' = [conns EXCEPT ![c].packet = "response"]
      /\ ~EndsUnnoticed(n, sid)
      /\ IF AcceptorCompletes(n, conns[c].client)
         THEN Completed(n, sid)
         ELSE UNCHANGED <<channels, told, rejected>>
      /\ socks' = socks
    BY <1>2 DEF ProcessRequest, ReadPacket, Meet, Orderly, ConnOf
<1>4. sid \in Pooled(n) /\ c \in DOMAIN conns /\ conns[c].client # n /\ conns[c].accepted
    <2>1. sid \in Pooled(n) /\ sid \in DOMAIN socks[n]
        BY <1>3 DEF Pooled, OfKind
    <2> QED BY <1>1, <1>2, <1>3, <2>1, PooledHas
<1>5. ConnsGoOn /\ conns'[c].live
    BY <1>1, <1>3, <1>4, PacketRead
<1>6. conns[c].client \in Nodes
    <2>1. conns[c] \in Connection
        BY <1>1, <1>4 DEF ConnsFit
    <2> QED BY <2>1, PeerAssumption DEF Connection, PeerAssumption
<1>7. AcceptorCompletes(n, conns[c].client) <=> RequesterCompletes(conns[c].client)
    BY <1>4, <1>6, BothDecideAlike
<1>8. CASE ~RequesterCompletes(conns[c].client)
    <2>1. channels' = channels /\ told' = told
        BY <1>3, <1>7, <1>8
    <2> QED BY <1>3, <1>5, <2>1, QuietStep
<1>9. CASE RequesterCompletes(conns[c].client)
    <2>1. channels[n] = EmptyMap /\ Completed(n, sid)
        BY <1>3, <1>7, <1>9, RequestFindsNone
    <2>2. channels'[n] = ChannelOf(sid) /\ told'[n]
        BY <1>1, <2>1, CompletedFirst
    <2>3. told' = [told EXCEPT ![n] = TRUE]
        <3>1. told' = [told EXCEPT ![n] = told[n] \/ CanInsertChannel(channels[n], sid)]
            BY <2>1 DEF Completed
        <3>2. CanInsertChannel(channels[n], sid)
            BY <2>1, EmptyMapFacts
        <3> QED BY <3>1, <3>2
    <2>4. ~told[n]
        <3>1. ASSUME told[n] PROVE FALSE
            <4>1. PICK s \in Pooled(n) : channels[n] = ChannelOf(s)
                BY <1>1, <3>1 DEF ChannelFits
            <4>2. s # NoSid
                BY <1>1 DEF Pooled, OfKind, SocksFit, Sids, NoSid
            <4> QED BY <2>1, <4>1, <4>2, ChannelOfSocket
        <3> QED BY <3>1
    <2>5. ~told[conns[c].client]
        <3>1. ASSUME told[conns[c].client] PROVE FALSE
            <4>1. PICK d \in DOMAIN conns : On(conns[c].client, d)
                BY <1>6, <3>1, ToldIsOn
            <4>2. d = c
                BY <1>3, <1>4, <1>9, <4>1, ClientOnLive
            <4> QED BY <1>3, <1>6, <4>1, <4>2, OnFacts
        <3> QED BY <3>1
    <2>6. \A m \in Nodes : ~told[m]
        BY <1>4, <1>6, <2>4, <2>5, TwoNodes
    <2>7. ~Wire
        BY <2>6 DEF Wire
    <2>8. Wire'
        <3>1. ConnOf(n, sid)' = conns'[c]
            BY <1>2, <1>3 DEF ConnOf
        <3> QED BY <1>1, <1>3, <1>4, <1>5, <2>2, <3>1, NewIsLive
    <2> QED BY <2>3, <2>6, <2>7, <2>8 DEF Link!EstablishFirst, Wire
<1> QED BY <1>8, <1>9

\* A response that becomes a channel is the second that is told of its connection: who
\* has answered was the first.
LEMMA ResponseLinks ==
    ASSUME Orderly, PeerInvariant, NEW n \in Nodes, NEW sid, ProcessResponse(n, sid)
    PROVE  Quiet \/ Link!EstablishSecond(n)
<1>1. Shapes /\ ConnsFit /\ SocksFit(n) /\ StepFits(n) /\ CacheFits(n) /\ ChannelFits(n)
    BY DEF PeerInvariant, NodeFits
<1>2. PICK c : c = socks[n][sid].conn
    OBVIOUS
<1>3. /\ At(n, Reading) /\ sid \in OfKind(n, "connected")
      /\ conns[c].live /\ conns[c].packet = "response" /\ ConnOf(n, sid) = conns[c]
      /\ conns' = [conns EXCEPT ![c].packet = "none"]
      /\ socks' = socks
    BY <1>2 DEF ProcessResponse, ReadPacket, Meet, ConnOf
<1>4. sid \in Pooled(n) /\ sid \in Sids /\ c \in DOMAIN conns /\ conns[c].client = n
    <2>1. sid \in Pooled(n) /\ sid \in DOMAIN socks[n] /\ sid \in Sids
        BY <1>1, <1>3 DEF Pooled, OfKind, SocksFit
    <2> QED BY <1>1, <1>2, <1>3, <2>1, PooledHas
<1>5. ConnsGoOn /\ conns'[c].live
    BY <1>1, <1>3, <1>4, PacketRead
<1>6. sid \notin closing[n]
    <2>1. ASSUME sid \in closing[n] PROVE FALSE
        <3>1. ToBeClosed(n, sid)
            BY <1>1, <2>1 DEF StepFits
        <3>2. phase[n] # Timers
            <4>1. phase[n] <= Reading
                BY <1>3 DEF At
            <4> QED BY <4>1 DEF Reading, Timers
        <3> QED BY <1>3, <3>1, <3>2 DEF ToBeClosed
    <2> QED BY <2>1
<1>7. sid \in cache[n]
    BY <1>1, <1>3, <1>6 DEF CacheFits
<1>8. CASE ~RequesterCompletes(n)
    <2>1. DestroyChannel(n, sid)
        BY <1>7, <1>8 DEF ProcessResponse
    <2>2. channels[n] # ChannelOf(sid)
        <3>1. ASSUME channels[n] = ChannelOf(sid) PROVE FALSE
            <4>1. HasChannelOf(n, c)
                BY <1>2, <1>4, <3>1 DEF HasChannelOf
            <4>2. told[n]
                <5>1. sid # NoSid
                    BY <1>4 DEF Sids, NoSid
                <5>2. ChannelOf(sid) # EmptyMap
                    BY <5>1, ChannelOfSocket
                <5> QED BY <1>1, <3>1, <5>2 DEF ChannelFits
            <4>3. PICK d \in DOMAIN conns : On(n, d)
                BY <4>2, ToldIsOn
            <4>4. c = d
                BY <4>1, <4>3, OnFacts
            <4>5. RequesterCompletes(conns[c].client)
                BY <4>3, <4>4, OnFacts
            <4> QED BY <1>4, <1>8, <4>5
        <3> QED BY <3>1
    <2> QED BY <1>3, <1>4, <1>5, <2>1, <2>2, QuietClosing
<1>9. CASE RequesterCompletes(n)
    <2>1. channels[n] = EmptyMap
        BY <1>3, <1>6, <1>7, <1>9, ResponseFindsNone
    <2>2. Completed(n, sid)
        BY <1>7, <1>9 DEF ProcessResponse
    <2>3. channels'[n] = ChannelOf(sid) /\ told'[n]
        BY <1>1, <2>1, <2>2, CompletedFirst
    <2>4. told' = [told EXCEPT ![n] = TRUE]
        <3>1. told' = [told EXCEPT ![n] = told[n] \/ CanInsertChannel(channels[n], sid)]
            BY <2>2 DEF Completed
        <3>2. CanInsertChannel(channels[n], sid)
            BY <2>1, EmptyMapFacts
        <3> QED BY <3>1, <3>2
    <2>5. ~told[n]
        <3>1. ASSUME told[n] PROVE FALSE
            <4>1. PICK s \in Pooled(n) : channels[n] = ChannelOf(s)
                BY <1>1, <3>1 DEF ChannelFits
            <4>2. s # NoSid
                BY <1>1 DEF Pooled, OfKind, SocksFit, Sids, NoSid
            <4> QED BY <2>1, <4>1, <4>2, ChannelOfSocket
        <3> QED BY <3>1
    <2>6. Wire
        <3>1. PICK o : o = Other(n) /\ o \in Nodes /\ o # n
            BY TwoNodes
        <3>2. HasChannelOf(o, c)
            <4>1. Answered(c, o)
                BY <1>3, <1>4, <1>9, <3>1 DEF Answered
            <4> QED BY <1>4, <3>1, <4>1 DEF PeerInvariant, AnsweredHas
        <3>3. SocksFit(o) /\ ChannelFits(o)
            BY <3>1 DEF PeerInvariant, NodeFits
        <3>4. told[o]
            <4>1. PICK s \in Pooled(o) : channels[o] = ChannelOf(s)
                BY <3>2 DEF HasChannelOf
            <4>2. s # NoSid
                BY <3>3 DEF Pooled, OfKind, SocksFit, Sids, NoSid
            <4>3. ChannelOf(s) # EmptyMap
                BY <4>2, ChannelOfSocket
            <4> QED BY <3>3, <4>1, <4>3 DEF ChannelFits
        <3>5. PICK d \in DOMAIN conns : On(o, d)
            BY <3>1, <3>4, ToldIsOn
        <3>6. d = c
            BY <3>1, <3>2, <3>5, OnFacts
        <3>7. Carriers(o) = {c}
            BY <1>3, <3>1, <3>5, <3>6, OnFacts
        <3> QED BY <3>1, <3>4, <3>7 DEF Wire
    <2>7. Wire'
        <3>1. ConnOf(n, sid)' = conns'[c]
            BY <1>2, <1>3 DEF ConnOf
        <3> QED BY <1>1, <1>3, <1>4, <1>5, <2>3, <3>1, NewIsLive
    <2> QED BY <2>4, <2>5, <2>6, <2>7 DEF Link!EstablishSecond, Wire
<1> QED BY <1>8, <1>9

\* The loss of a channel is told of when the wire is broken, and nobody is told of
\* another before.
LEMMA DisconnectedLinks ==
    ASSUME Orderly, PeerInvariant, NEW n \in Nodes, NEW sid, NEW pool \in {"read", "write"},
           Disconnected(n, pool, sid)
    PROVE  Quiet \/ Link!Destroy(n)
<1>1. Shapes /\ ConnsFit /\ SocksFit(n) /\ StepFits(n) /\ OneAttempt(n) /\ ChannelFits(n)
    BY DEF PeerInvariant, NodeFits
<1>2. /\ <<pool, sid>> \in polled[n] /\ ~ConnOf(n, sid).live /\ sid \notin closing[n]
      /\ DestroyChannel(n, sid) /\ conns' = conns /\ socks' = socks
    BY DEF Disconnected, Meet, ScheduleSocket, Orderly
<1>3. sid \in Pooled(n) /\ sid \in Sids
    BY <1>1, <1>2 DEF StepFits, SocksFit, Pooled, OfKind
<1>4. ConnsGoOn
    BY <1>2 DEF ConnsGoOn
<1>5. CASE channels[n] # ChannelOf(sid)
    BY <1>2, <1>3, <1>4, <1>5, QuietClosing
<1>6. CASE channels[n] = ChannelOf(sid)
    <2>1. sid # NoSid
        BY <1>3 DEF Sids, NoSid
    <2>2. told[n]
        <3>1. ChannelOf(sid) # EmptyMap
            BY <2>1, ChannelOfSocket
        <3> QED BY <1>1, <1>6, <3>1 DEF ChannelFits
    <2>3. PICK c \in DOMAIN conns : On(n, c)
        BY <2>2, ToldIsOn
    <2>4. socks[n][sid].conn = c /\ ~conns[c].live
        <3>1. HasChannelOf(n, socks[n][sid].conn)
            BY <1>3, <1>6 DEF HasChannelOf
        <3>2. socks[n][sid].conn = c
            BY <2>3, <3>1, OnFacts
        <3> QED BY <1>2, <3>2 DEF ConnOf
    <2>5. told' = [told EXCEPT ![n] = FALSE] /\ \A m \in Nodes : m # n => channels'[m] = channels[m]
        BY <1>1, <1>2, <1>3, <1>6, Destroyed
    <2>6. ~Wire
        <3>1. ASSUME Wire PROVE FALSE
            <4>1. PICK m \in Nodes, d \in DOMAIN conns : On(m, d) /\ conns[d].live
                BY <3>1, WireIsLive
            <4>2. d # c /\ RequesterCompletes(conns[d].client)
                BY <2>4, <4>1, OnFacts
            <4>3. conns[d].packet # "request"
                BY <4>1, OnFacts
            <4>4. CASE conns[d].client = n
                BY <2>3, <4>1, <4>2, <4>4, ClientOnLive
            <4>5. CASE conns[d].client # n
                <5>1. Answered(d, n)
                    BY <4>1, <4>2, <4>3, <4>5 DEF Answered
                <5>2. HasChannelOf(n, d)
                    BY <5>1 DEF PeerInvariant, AnsweredHas
                <5> QED BY <2>3, <4>2, <5>2, OnFacts
            <4> QED BY <4>4, <4>5
        <3> QED BY <3>1
    <2>7. ~Wire'
        <3>1. ASSUME NEW m \in Nodes, told'[m], Carriers(m)' # {} PROVE FALSE
            <4>1. m # n
                BY <1>1, <2>5, <3>1 DEF Shapes
            <4>2. told[m] /\ channels'[m] = channels[m]
                BY <1>1, <2>5, <3>1, <4>1 DEF Shapes
            <4>3. Carriers(m)' = Carriers(m)
                BY <1>2, <4>2 DEF Carriers, Pooled, OfKind
            <4> QED BY <2>6, <3>1, <4>2, <4>3 DEF Wire
        <3> QED BY <3>1 DEF Wire
    <2> QED BY <2>2, <2>5, <2>6, <2>7 DEF Link!Destroy, Wire
<1> QED BY <1>5, <1>6

\* What a node does to connect tells nothing.
LEMMA ConnectPeerQuiet ==
    ASSUME Orderly, PeerInvariant, NEW n \in Nodes, ConnectPeer(n)
    PROVE  Quiet
<1>1. PICK outcome \in FirstOutcomes :
          IF outcome = "connecting"
          THEN AddSocket(n, FreeSid(n), 0, "connecting")
          ELSE UNCHANGED socks
    BY DEF ConnectPeer
<1>2. conns' = conns /\ channels' = channels /\ told' = told
    BY DEF ConnectPeer, handshakes
<1>3. ConnsGoOn
    BY <1>2 DEF ConnsGoOn
<1>4. CASE outcome = "connecting"
    BY <1>1, <1>2, <1>3, <1>4, QuietAdded
<1>5. CASE outcome # "connecting"
    BY <1>1, <1>2, <1>3, <1>5, QuietStep
<1> QED BY <1>4, <1>5

\* Nor does what it does to connect again.
LEMMA ReconnectQuiet ==
    ASSUME Orderly, PeerInvariant, NEW n \in Nodes, Reconnect(n)
    PROVE  Quiet
<1>1. PICK outcome \in LaterOutcomes :
          IF outcome = "connecting"
          THEN AddSocket(n, FreeSid(n), 0, "connecting")
          ELSE UNCHANGED socks
    BY DEF Reconnect
<1>2. conns' = conns /\ channels' = channels /\ told' = told
    BY DEF Reconnect, handshakes
<1>3. ConnsGoOn
    BY <1>2 DEF ConnsGoOn
<1>4. CASE outcome = "connecting"
    BY <1>1, <1>2, <1>3, <1>4, QuietAdded
<1>5. CASE outcome # "connecting"
    BY <1>1, <1>2, <1>3, <1>5, QuietStep
<1> QED BY <1>4, <1>5

\* A connection that comes up carries no channel yet: its socket was connecting.
LEMMA ConnectedQuiet ==
    ASSUME Orderly, PeerInvariant, NEW n \in Nodes, NEW sid, Connected(n, sid)
    PROVE  Quiet
<1>1. ConnsFit /\ OneAttempt(n)
    BY DEF PeerInvariant, NodeFits
<1>2. /\ sid \in OfKind(n, "connecting") /\ Len(conns) < MaxConnections
      /\ conns' = Append(conns, [client |-> n, live |-> TRUE, accepted |-> FALSE,
                                 packet |-> "request"])
      /\ AddSocket(n, sid, Len(conns) + 1, "connected")
      /\ channels' = channels /\ told' = told
    BY DEF Connected
<1>3. sid \notin Pooled(n)
    BY <1>2 DEF Pooled, OfKind
<1>4. n \in Connectors
    BY <1>1, <1>2 DEF OneAttempt
<1>5. ConnsGoOn
    BY <1>1, <1>2, <1>4, ConnectionAdded
<1> QED BY <1>2, <1>3, <1>5, QuietAdded

\* Nor does a connection that is accepted: its socket is a new one.
LEMMA AcceptQuiet ==
    ASSUME Orderly, PeerInvariant, NEW n \in Nodes, NEW c \in DOMAIN conns, Accept(n, c)
    PROVE  Quiet
<1>1. ConnsFit
    BY DEF PeerInvariant
<1>2. /\ conns' = [conns EXCEPT ![c].accepted = TRUE]
      /\ AddSocket(n, FreeSid(n), c, "accepted")
      /\ channels' = channels /\ told' = told
    BY DEF Accept, handshakes
<1>3. FreeSid(n) \notin Pooled(n)
    <2>1. FreeSid(n) \notin DOMAIN socks[n]
        BY AcceptedNumber
    <2> QED BY <2>1 DEF Pooled, OfKind
<1>4. ConnsGoOn
    BY <1>1, <1>2, ConnectionAccepted
<1> QED BY <1>2, <1>3, <1>4, QuietAdded

\* Sockets that fail to connect carry no channel.
LEMMA FailureQuiet ==
    ASSUME Orderly, PeerInvariant, NEW n \in Nodes, NEW sid,
           Refused(n, sid) \/ ConnectFails(n, sid)
    PROVE  Quiet
<1>1. /\ conns' = conns /\ channels' = channels /\ told' = told
      /\ RemoveSockets(n, {sid})
    BY DEF Refused, ConnectFails, handshakes
<1>2. ConnsGoOn
    BY <1>1 DEF ConnsGoOn
<1> QED BY <1>1, <1>2, QuietRemoved

\* At the end of the step the sockets are closed whose channels were told of before.
LEMMA EndStepQuiet ==
    ASSUME Orderly, PeerInvariant, NEW n \in Nodes, EndStep(n)
    PROVE  Quiet
<1>1. PICK ended : ended = {socks[n][s].conn : s \in closing[n]}
    OBVIOUS
<1>2. /\ RemoveSockets(n, closing[n]) /\ channels' = channels /\ told' = told
      /\ conns' = [c \in DOMAIN conns |->
                      IF c \in ended
                      THEN [conns[c] EXCEPT !.live = FALSE, !.packet = "none"]
                      ELSE conns[c]]
    BY <1>1 DEF EndStep
<1>3. ConnsGoOn
    <2>1. conns' = [c \in DOMAIN conns |-> IF c \in ended THEN Ended(conns[c]) ELSE conns[c]]
        BY <1>2 DEF Ended
    <2> QED BY <2>1, ConnectionsEnded DEF PeerInvariant
<1> QED BY <1>2, <1>3, QuietRemoved

\* A handshake that expires has no channel yet.
LEMMA ExpiryQuiet ==
    ASSUME Orderly, PeerInvariant, NEW n \in Nodes, NEW sid, HandshakeExpires(n, sid)
    PROVE  Quiet
<1>1. SocksFit(n) /\ CacheFits(n) /\ ChannelFits(n)
    BY DEF PeerInvariant, NodeFits
<1>2. sid \in cache[n] /\ DestroyChannel(n, sid) /\ conns' = conns /\ socks' = socks
    BY DEF HandshakeExpires, ScheduleSocket, pools
<1>3. ConnsGoOn
    BY <1>2 DEF ConnsGoOn
<1>4. sid \in Pooled(n) /\ sid # NoSid
    BY <1>1, <1>2 DEF CacheFits, Pooled, OfKind, SocksFit, Sids, NoSid
<1>5. channels[n] # ChannelOf(sid)
    <2>1. ASSUME channels[n] = ChannelOf(sid) PROVE FALSE
        <3>1. channels[n] # EmptyMap
            BY <1>4, <2>1, ChannelOfSocket
        <3>2. PICK s \in Pooled(n) : channels[n] = ChannelOf(s) /\ Carries(n, s)
            BY <1>1, <3>1 DEF ChannelFits
        <3>3. s = sid
            BY <1>4, <2>1, <3>2, ChannelOfSocket
        <3> QED BY <1>2, <3>2, <3>3 DEF Carries
    <2> QED BY <2>1
<1> QED BY <1>2, <1>3, <1>4, <1>5, QuietClosing

\* A connection that breaks is not told of at once.
LEMMA BreakQuiet ==
    ASSUME Orderly, PeerInvariant, NEW c \in DOMAIN conns, Break(c)
    PROVE  Quiet
<1>1. /\ conns' = [conns EXCEPT ![c].live = FALSE, ![c].packet = "none"]
      /\ socks' = socks /\ channels' = channels /\ told' = told
    BY DEF Break, pools, handshakes
<1>2. ConnsGoOn
    BY <1>1, ConnectionBroken DEF PeerInvariant
<1> QED BY <1>1, <1>2, QuietStep

\* A quiet step leaves the link as it is, or breaks it.
LEMMA QuietIsLinked ==
    ASSUME Quiet
    PROVE  Link!Next \/ (Wire' = Wire /\ told' = told)
<1>1. CASE Wire /\ ~Wire'
    <2>1. Link!Break
        BY <1>1 DEF Quiet, Link!Break, Wire
    <2> QED BY <2>1 DEF Link!Next
<1>2. CASE ~(Wire /\ ~Wire')
    <2>1. Wire' <=> Wire
        BY <1>2 DEF Quiet
    <2>2. Wire' = Wire
        BY <2>1 DEF Wire
    <2> QED BY <2>2 DEF Quiet
<1> QED BY <1>1, <1>2

\* What the applications are told is what ChannelLink promises: of a channel and of its
\* loss in turn, both ends of the same connection, and of no new one before the other
\* end was told of the loss of the old (peer.hpp:325, :921).
THEOREM LinkIsKept ==
    ASSUME Orderly
    PROVE  Spec => ImplementsLink
<1>1. Init => Link!Init
    <2> SUFFICES ASSUME Init PROVE Link!Init
        OBVIOUS
    <2>1. told = [n \in Nodes |-> FALSE]
        BY DEF Init
    <2>2. ~Wire
        BY <2>1 DEF Wire
    <2> QED BY <2>1, <2>2 DEF Link!Init, Wire
<1>2. PeerInvariant /\ [Next]_vars => [Link!Next]_(Link!vars)
    <2> SUFFICES ASSUME PeerInvariant, [Next]_vars
                 PROVE  Link!Next \/ (Wire' = Wire /\ told' = told)
        BY DEF Link!vars, Wire
    <2>1. ASSUME NEW n \in Nodes, ConnectPeer(n) \/ Reconnect(n) \/ EndStep(n) PROVE Quiet
        BY <2>1, ConnectPeerQuiet, ReconnectQuiet, EndStepQuiet
    <2>2. ASSUME NEW n \in Nodes, NEW c \in DOMAIN conns, Accept(n, c) PROVE Quiet
        BY <2>2, AcceptQuiet
    <2>3. ASSUME NEW n \in Nodes, NEW sid, Connected(n, sid) \/ HandshakeExpires(n, sid)
          PROVE  Quiet
        BY <2>3, ConnectedQuiet, ExpiryQuiet
    <2>4. ASSUME NEW n \in Nodes, NEW sid, Refused(n, sid) \/ ConnectFails(n, sid) PROVE Quiet
        BY <2>4, FailureQuiet
    <2>5. ASSUME NEW c \in DOMAIN conns, Break(c) PROVE Quiet
        BY <2>5, BreakQuiet
    <2>6. ASSUME NEW n \in Nodes, NEW sid, ProcessRequest(n, sid) PROVE Quiet \/ Link!Next
        BY <2>6, RequestLinks DEF Link!Next
    <2>7. ASSUME NEW n \in Nodes, NEW sid, ProcessResponse(n, sid) PROVE Quiet \/ Link!Next
        BY <2>7, ResponseLinks DEF Link!Next
    <2>8. ASSUME NEW n \in Nodes, NEW sid, WriterFails(n, sid) \/ ReaderDisconnected(n, sid)
          PROVE  Quiet \/ Link!Next
        <3>1. PICK pool \in {"read", "write"} : Disconnected(n, pool, sid)
            BY <2>8 DEF WriterFails, ReaderDisconnected
        <3> QED BY <3>1, DisconnectedLinks DEF Link!Next
    <2>9. CASE UNCHANGED vars
        <3>1. told' = told /\ socks' = socks /\ conns' = conns /\ channels' = channels
            BY <2>9 DEF vars, pools, handshakes
        <3>2. ConnsGoOn
            BY <3>1 DEF ConnsGoOn
        <3>3. Quiet
            BY <3>1, <3>2, QuietStep
        <3> QED BY <3>3, QuietIsLinked
    <2>10. CASE Next
        <3>1. Quiet \/ Link!Next
            BY <2>1, <2>2, <2>3, <2>4, <2>5, <2>6, <2>7, <2>8, <2>10 DEF Next, Works, Suffers
        <3> QED BY <3>1, QuietIsLinked
    <2> QED BY <2>9, <2>10
<1> QED BY <1>1, <1>2, PeerHolds, PTL DEF Spec, ImplementsLink, Link!Spec

-----------------------------------------------------------------------------
(***************************************************************************)
(* What holds of any two peers, with nothing assumed of the order in which *)
(* a node hears of its connections, of what is read from freed entries, of *)
(* what the system answers and of who connects.                            *)
(***************************************************************************)

\* The packet on its way is one that the socket is to process.
Pending(n, s) ==
    \/ s \in OfKind(n, "connected") /\ ConnOf(n, s).packet # "none"
    \/ s \in OfKind(n, "accepted") /\ ConnOf(n, s).packet = "request"

\* An open socket whose handshake is over.
Settled(n, s) == s \in Pooled(n) /\ s \notin closing[n] /\ ~Pending(n, s)

\* The sockets have numbers and are ends of connections.
SocketsKnown(n) ==
    /\ IsFiniteSet(DOMAIN socks[n]) /\ DOMAIN socks[n] \subseteq Nat \ {NoSid}
    /\ \A s \in DOMAIN socks[n] : SocketFits(n, s)

\* The two bimaps have the same socket of the peer, as a key both ways.
MapsAgree(ch) ==
    /\ ch.writers.first = ch.readers.first
    /\ ch.readers.first # NoSid => ch.readers.first \in ch.readers.second \cap ch.writers.second

FirstKey(n) == channels[n].readers.first

\* The socket of the channel is settled and the application was told of it; it was told
\* of no other before a channel was refused.  All keys are of such sockets as long as
\* what is read from a freed entry is what was there.
KeysSettled(n) ==
    /\ MapsAgree(channels[n])
    /\ FirstKey(n) # NoSid => told[n] /\ Settled(n, FirstKey(n))
    /\ told[n] /\ ~rejected[n] => FirstKey(n) # NoSid
    /\ "other" \notin FreedReads => \A k : HasChannel(channels[n], k) => Settled(n, k)

\* A socket is to be closed after its handshake, or because that took too long.
ClosingAnswered(n) ==
    /\ closing[n] \subseteq Pooled(n)
    /\ \A s \in closing[n] : Pending(n, s) => s \in OfKind(n, "connected") /\ phase[n] = Timers

\* A key of the map that is not the socket of the channel.
Stale(n, s) == HasChannel(channels[n], s) /\ s # FirstKey(n)

\* Who waits for a response is in the cache of handshakes, or is to be closed, unless its
\* number was a key of an earlier channel.
ResponseAwaited(n) ==
    /\ cache[n] \subseteq OfKind(n, "connected")
    /\ \A s \in OfKind(n, "connected") :
           Pending(n, s) => s \in cache[n] \/ s \in closing[n] \/ Stale(n, s)

\* Who connects has the host in its cache.
HostKnown(n) ==
    /\ hosts[n] => n \in Connectors
    /\ OfKind(n, "connecting") \cup OfKind(n, "connected") # {} => hosts[n]
    /\ retry[n].deferred > 0 => hosts[n]

CauseKnown(n) ==
    failed[n] =>
        \/ ~hosts[n] /\ "unreachable" \in FirstOutcomes
        \/ StaleKeys(n) # {} /\ "other" \in FreedReads

NodeStands(n) ==
    /\ SocketsKnown(n) /\ KeysSettled(n) /\ ClosingAnswered(n) /\ ResponseAwaited(n)
    /\ HostKnown(n) /\ CauseKnown(n)

Standing == Shapes /\ ConnsFit /\ \A n \in Nodes : NodeStands(n)

\* What is known of a socket by its kind.
LEMMA KnownSocket ==
    ASSUME NEW n, SocketsKnown(n), NEW s \in DOMAIN socks[n]
    PROVE  /\ s \in Nat \ {NoSid}
           /\ s \in Pooled(n) <=> s \in OfKind(n, "connected") \/ s \in OfKind(n, "accepted")
           /\ s \in OfKind(n, "connecting") <=> s \notin Pooled(n)
           /\ ~(s \in OfKind(n, "connected") /\ s \in OfKind(n, "accepted"))
           /\ s \in Pooled(n) => socks[n][s].conn \in DOMAIN conns
           /\ s \in OfKind(n, "accepted") => ConnOf(n, s).accepted
<1>1. SocketFits(n, s) /\ s \in Nat \ {NoSid}
    BY DEF SocketsKnown
<1> QED BY <1>1 DEF SocketFits, OfKind, Pooled, Kinds

\* A packet that a socket is to process was there before.
LEMMA PendingBefore ==
    ASSUME NEW n, SocketsKnown(n), ConnsGoOn, NEW s \in Pooled(n),
           s \in DOMAIN socks'[n], socks'[n][s] = socks[n][s]
    PROVE  /\ s \in Pooled(n)' /\ (s \in OfKind(n, "connected")' <=> s \in OfKind(n, "connected"))
           /\ Pending(n, s)' => Pending(n, s)
<1>1. s \in DOMAIN socks[n]
    BY DEF Pooled, OfKind
<1>2. socks[n][s].conn \in DOMAIN conns
    BY <1>1, KnownSocket
<1>3. /\ s \in OfKind(n, "connected")' <=> s \in OfKind(n, "connected")
      /\ s \in OfKind(n, "accepted")' <=> s \in OfKind(n, "accepted")
    BY <1>1 DEF OfKind
<1>4. s \in Pooled(n)'
    BY <1>3 DEF Pooled
<1>5. /\ ConnOf(n, s).packet = "none" => ConnOf(n, s)'.packet = "none"
      /\ ConnOf(n, s).packet # "request" => ConnOf(n, s)'.packet # "request"
    BY <1>2 DEF ConnOf, ConnsGoOn
<1> QED BY <1>3, <1>4, <1>5 DEF Pending

\* One socket that changes, or none.
LEMMA SocketsStayKnown ==
    ASSUME NEW n, SocketsKnown(n), ConnsGoOn, NEW sid \in Nat \ {NoSid},
           DOMAIN socks'[n] \subseteq DOMAIN socks[n] \cup {sid},
           \A s \in DOMAIN socks'[n] : s # sid => socks'[n][s] = socks[n][s],
           sid \in DOMAIN socks'[n] => SocketFits(n, sid)'
    PROVE  SocketsKnown(n)'
<1>1. IsFiniteSet(DOMAIN socks'[n])
    <2>1. IsFiniteSet(DOMAIN socks[n] \cup {sid})
        BY FS_AddElement DEF SocketsKnown
    <2> QED BY <2>1, FS_Subset
<1>2. ASSUME NEW s \in DOMAIN socks'[n] PROVE SocketFits(n, s)'
    <2>1. CASE s = sid
        BY <2>1
    <2>2. CASE s # sid
        <3>1. SocketFits(n, s) /\ socks'[n][s] = socks[n][s]
            BY <2>2 DEF SocketsKnown
        <3> QED BY <3>1 DEF SocketFits, ConnOf, ConnsGoOn
    <2> QED BY <2>1, <2>2
<1> QED BY <1>1, <1>2 DEF SocketsKnown

\* As long as the channel is left alone and open sockets stay, its keys are settled.
LEMMA KeysStaySettled ==
    ASSUME NEW n, SocketsKnown(n), KeysSettled(n), ConnsGoOn,
           channels'[n] = channels[n], told'[n] = told[n], rejected'[n] = rejected[n],
           closing'[n] \subseteq closing[n],
           \A s \in Pooled(n) : s \notin closing[n] =>
               s \in DOMAIN socks'[n] /\ socks'[n][s] = socks[n][s]
    PROVE  KeysSettled(n)'
<1>1. ASSUME NEW s, Settled(n, s) PROVE Settled(n, s)'
    <2>1. s \in Pooled(n) /\ s \notin closing[n] /\ ~Pending(n, s)
        BY <1>1 DEF Settled
    <2>2. s \in DOMAIN socks'[n] /\ socks'[n][s] = socks[n][s]
        BY <2>1
    <2>3. s \in Pooled(n)' /\ ~Pending(n, s)'
        BY <2>1, <2>2, PendingBefore
    <2> QED BY <2>1, <2>3 DEF Settled
<1>2. FirstKey(n)' = FirstKey(n)
    BY DEF FirstKey
<1> QED BY <1>1, <1>2 DEF KeysSettled

\* Sockets come, or such as have no connection go.
LEMMA SocketsMove ==
    ASSUME NEW n, SocketsKnown(n), KeysSettled(n), ClosingAnswered(n), ResponseAwaited(n),
           ConnsGoOn,
           channels'[n] = channels[n], told'[n] = told[n], rejected'[n] = rejected[n],
           closing'[n] = closing[n], cache[n] \subseteq cache'[n],
           phase[n] = Timers => phase'[n] = Timers,
           \A s \in Pooled(n) : s \in DOMAIN socks'[n] /\ socks'[n][s] = socks[n][s],
           \A s \in OfKind(n, "connected")' : s \in Pooled(n) \/ s \in cache'[n],
           cache'[n] \subseteq OfKind(n, "connected")'
    PROVE  KeysSettled(n)' /\ ClosingAnswered(n)' /\ ResponseAwaited(n)'
<1>1. KeysSettled(n)'
    BY KeysStaySettled
<1>2. \A s \in Pooled(n) : /\ s \in Pooled(n)'
                           /\ s \in OfKind(n, "connected")' <=> s \in OfKind(n, "connected")
                           /\ Pending(n, s)' => Pending(n, s)
    BY PendingBefore
<1>3. ClosingAnswered(n)'
    BY <1>2 DEF ClosingAnswered
<1>4. ResponseAwaited(n)'
    <2>1. ASSUME NEW s \in OfKind(n, "connected")', Pending(n, s)'
          PROVE  s \in cache'[n] \/ s \in closing'[n] \/ Stale(n, s)'
        <3>1. CASE s \in Pooled(n)
            <4>1. s \in cache[n] \/ s \in closing[n] \/ Stale(n, s)
                BY <1>2, <2>1, <3>1 DEF ResponseAwaited
            <4> QED BY <4>1 DEF Stale, FirstKey
        <3>2. CASE s \notin Pooled(n)
            BY <3>2
        <3> QED BY <3>1, <3>2
    <2> QED BY <2>1 DEF ResponseAwaited
<1> QED BY <1>1, <1>3, <1>4

\* The cause of a failure stays as long as sockets, channel and host do.
LEMMA CauseStays ==
    ASSUME NEW n, CauseKnown(n), failed'[n] => failed[n] /\ socks'[n] = socks[n] /\
               channels'[n] = channels[n] /\ hosts'[n] = hosts[n]
    PROVE  CauseKnown(n)'
<1>1. CASE ~failed'[n]
    BY <1>1 DEF CauseKnown
<1>2. CASE failed'[n]
    <2>1. StaleKeys(n)' = StaleKeys(n)
        BY <1>2 DEF StaleKeys, OfKind
    <2> QED BY <1>2, <2>1 DEF CauseKnown
<1> QED BY <1>1, <1>2

\* A node of which nothing changes stands as long as the connections go on.
LEMMA SameStands ==
    ASSUME NEW m, NodeStands(m), NodeSame(m), ConnsGoOn
    PROVE  NodeStands(m)'
<1>1. /\ SocketsKnown(m) /\ KeysSettled(m) /\ ClosingAnswered(m) /\ ResponseAwaited(m)
      /\ HostKnown(m) /\ CauseKnown(m)
    BY DEF NodeStands
<1>2. /\ socks'[m] = socks[m] /\ cache'[m] = cache[m] /\ closing'[m] = closing[m]
      /\ channels'[m] = channels[m] /\ retry'[m] = retry[m] /\ phase'[m] = phase[m]
      /\ hosts'[m] = hosts[m] /\ told'[m] = told[m] /\ rejected'[m] = rejected[m]
      /\ failed'[m] = failed[m]
    BY DEF NodeSame
<1>3. /\ Pooled(m) \subseteq DOMAIN socks[m]
      /\ OfKind(m, "connected") \subseteq Pooled(m)
      /\ OfKind(m, "connected")' = OfKind(m, "connected")
      /\ OfKind(m, "connecting")' = OfKind(m, "connecting")
    BY <1>2 DEF Pooled, OfKind
<1>4. KeysSettled(m)' /\ ClosingAnswered(m)' /\ ResponseAwaited(m)'
    <2>1. cache'[m] \subseteq OfKind(m, "connected")'
        BY <1>1, <1>2, <1>3 DEF ResponseAwaited
    <2> QED BY <1>1, <1>2, <1>3, <2>1, SocketsMove
<1>5. SocketsKnown(m)'
    <2>2. ASSUME NEW s \in DOMAIN socks[m] PROVE SocketFits(m, s)'
        <3>1. SocketFits(m, s)
            BY <1>1 DEF SocketsKnown
        <3> QED BY <1>2, <3>1 DEF SocketFits, ConnOf, ConnsGoOn
    <2> QED BY <1>1, <1>2, <2>2 DEF SocketsKnown
<1>6. HostKnown(m)'
    BY <1>1, <1>2, <1>3 DEF HostKnown
<1>7. CauseKnown(m)'
    BY <1>1, <1>2, CauseStays
<1> QED BY <1>4, <1>5, <1>6, <1>7 DEF NodeStands

\* One node acts.
LEMMA OneStands ==
    ASSUME Standing, NEW n \in Nodes, Shapes', ConnsFit', ConnsGoOn,
           \A m \in Nodes : m # n => NodeSame(m), NodeStands(n)'
    PROVE  Standing'
<1>1. ASSUME NEW m \in Nodes PROVE NodeStands(m)'
    <2>1. CASE m = n
        BY <2>1
    <2>2. CASE m # n
        <3>1. NodeStands(m) /\ NodeSame(m)
            BY <2>2 DEF Standing
        <3> QED BY <3>1, SameStands
    <2> QED BY <2>1, <2>2
<1> QED BY <1>1 DEF Standing

\* A socket with a fresh number is added.
LEMMA FreshSocket ==
    ASSUME Shapes, NEW n \in Nodes, SocketsKnown(n), NEW conn, NEW kind,
           AddSocket(n, FreeSid(n), conn, kind)
    PROVE  /\ DOMAIN socks' = Nodes /\ \A m \in Nodes : m # n => socks'[m] = socks[m]
           /\ FreeSid(n) \in Nat \ {NoSid} /\ FreeSid(n) \notin DOMAIN socks[n]
           /\ DOMAIN socks'[n] = DOMAIN socks[n] \cup {FreeSid(n)}
           /\ socks'[n][FreeSid(n)] = [conn |-> conn, kind |-> kind]
           /\ \A s \in DOMAIN socks[n] : socks'[n][s] = socks[n][s]
           /\ \A k : OfKind(n, k)' = IF k = kind THEN OfKind(n, k) \cup {FreeSid(n)} ELSE OfKind(n, k)
<1>1. PICK sid : sid = FreeSid(n)
    OBVIOUS
<1>2. Cardinality(DOMAIN socks[n]) \in Nat /\ IsFiniteSet(DOMAIN socks[n])
    BY FS_CardinalityType DEF SocketsKnown
<1>3. FreeSid(n) \in 1 .. Cardinality(DOMAIN socks[n]) + 1 /\ FreeSid(n) \notin DOMAIN socks[n]
    BY <1>2, FreeNumber
<1>4. sid \in Nat \ {NoSid} /\ sid \notin DOMAIN socks[n]
    BY <1>1, <1>2, <1>3 DEF NoSid
<1>5. AddSocket(n, sid, conn, kind)
    BY <1>1
<1>6. /\ DOMAIN socks' = Nodes /\ \A m \in Nodes : m # n => socks'[m] = socks[m]
      /\ DOMAIN socks'[n] = DOMAIN socks[n] \cup {sid}
      /\ socks'[n][sid] = [conn |-> conn, kind |-> kind]
      /\ \A s \in DOMAIN socks[n] : s # sid => socks'[n][s] = socks[n][s]
    BY <1>5, SocketAdded
<1>7. ASSUME NEW k
      PROVE  OfKind(n, k)' = IF k = kind THEN OfKind(n, k) \cup {sid} ELSE OfKind(n, k)
    <2>1. OfKind(n, k)' = IF k = kind THEN OfKind(n, k) \cup {sid} ELSE OfKind(n, k) \ {sid}
        BY <1>5, KindsAdded
    <2>2. sid \notin OfKind(n, k)
        BY <1>4 DEF OfKind
    <2> QED BY <2>1, <2>2
<1> QED BY <1>1, <1>4, <1>6, <1>7

\* A node that connects and has the host in its cache.
LEMMA AttemptStands ==
    ASSUME Shapes, NEW n \in Nodes, NodeStands(n),
           \/ AddSocket(n, FreeSid(n), 0, "connecting")
           \/ socks' = socks
           \/ \E sid : sid \in OfKind(n, "connecting") /\ RemoveSockets(n, {sid}),
           conns' = conns, cache' = cache, channels' = channels, told' = told,
           rejected' = rejected, closing' = closing,
           phase[n] = Timers => phase'[n] = Timers,
           hosts[n] => hosts'[n], hosts'[n] => n \in Connectors,
           AddSocket(n, FreeSid(n), 0, "connecting") \/ retry'[n].deferred > 0 => hosts'[n],
           CauseKnown(n)'
    PROVE  /\ NodeStands(n)' /\ ConnsGoOn /\ DOMAIN socks' = Nodes
           /\ \A m \in Nodes : m # n => socks'[m] = socks[m]
<1>1. /\ SocketsKnown(n) /\ KeysSettled(n) /\ ClosingAnswered(n) /\ ResponseAwaited(n)
      /\ HostKnown(n)
    BY DEF NodeStands
<1>2. ConnsGoOn
    BY DEF ConnsGoOn
<1>3. Pooled(n) \subseteq DOMAIN socks[n] /\ DOMAIN socks = Nodes
    BY DEF Pooled, OfKind, Shapes
<1>4. PICK fresh : fresh = FreeSid(n)
    OBVIOUS
<1>5. /\ DOMAIN socks' = Nodes /\ \A m \in Nodes : m # n => socks'[m] = socks[m]
      /\ \A s \in Pooled(n) : s \in DOMAIN socks'[n] /\ socks'[n][s] = socks[n][s]
      /\ OfKind(n, "connected")' = OfKind(n, "connected")
      /\ OfKind(n, "connecting")' # {} => hosts'[n]
      /\ SocketsKnown(n)'
    <2>1. CASE AddSocket(n, fresh, 0, "connecting")
        <3>1. /\ DOMAIN socks' = Nodes /\ \A m \in Nodes : m # n => socks'[m] = socks[m]
              /\ fresh \in Nat \ {NoSid} /\ fresh \notin DOMAIN socks[n]
              /\ DOMAIN socks'[n] = DOMAIN socks[n] \cup {fresh}
              /\ socks'[n][fresh] = [conn |-> 0, kind |-> "connecting"]
              /\ \A s \in DOMAIN socks[n] : socks'[n][s] = socks[n][s]
              /\ OfKind(n, "connected")' = OfKind(n, "connected")
            BY <1>1, <1>4, <2>1, FreshSocket
        <3>2. SocketFits(n, fresh)'
            BY <3>1 DEF SocketFits, Kinds
        <3>3. SocketsKnown(n)'
            BY <1>1, <1>2, <3>1, <3>2, SocketsStayKnown
        <3>4. hosts'[n]
            BY <1>4, <2>1
        <3> QED BY <1>3, <3>1, <3>3, <3>4
    <2>2. CASE socks' = socks
        <3>1. SocketsKnown(n)'
            BY <1>1, <2>2 DEF SocketsKnown, SocketFits, ConnOf
        <3>2. \A k : OfKind(n, k)' = OfKind(n, k)
            BY <2>2 DEF OfKind
        <3>3. OfKind(n, "connecting")' # {} => hosts'[n]
            BY <1>1, <3>2 DEF HostKnown
        <3> QED BY <1>3, <2>2, <3>1, <3>2, <3>3
    <2>3. CASE \E sid : sid \in OfKind(n, "connecting") /\ RemoveSockets(n, {sid})
        <3>1. PICK sid : sid \in OfKind(n, "connecting") /\ RemoveSockets(n, {sid})
            BY <2>3
        <3>2. /\ DOMAIN socks' = Nodes /\ \A m \in Nodes : m # n => socks'[m] = socks[m]
              /\ DOMAIN socks'[n] = DOMAIN socks[n] \ {sid}
              /\ \A s \in DOMAIN socks[n] \ {sid} : socks'[n][s] = socks[n][s]
            BY <3>1, SocketsRemoved
        <3>3. sid \in DOMAIN socks[n]
            BY <3>1 DEF OfKind
        <3>4. sid \notin Pooled(n) /\ sid \in Nat \ {NoSid} /\ OfKind(n, "connected") \subseteq Pooled(n)
            BY <1>1, <3>1, <3>3, KnownSocket DEF Pooled
        <3>5. /\ OfKind(n, "connected")' = OfKind(n, "connected") \ {sid}
              /\ OfKind(n, "connecting")' = OfKind(n, "connecting") \ {sid}
            BY <3>1, KindsRemoved
        <3>6. SocketsKnown(n)'
            BY <1>1, <1>2, <3>2, <3>4, SocketsStayKnown
        <3>7. hosts'[n]
            BY <1>1, <3>1 DEF HostKnown
        <3> QED BY <1>3, <3>2, <3>4, <3>5, <3>6, <3>7
    <2> QED BY <1>4, <2>1, <2>2, <2>3
<1>6. OfKind(n, "connected") \subseteq Pooled(n)
    BY DEF Pooled
<1>7. KeysSettled(n)' /\ ClosingAnswered(n)' /\ ResponseAwaited(n)'
    <2>1. cache'[n] \subseteq OfKind(n, "connected")'
        BY <1>1, <1>5 DEF ResponseAwaited
    <2> QED BY <1>1, <1>2, <1>5, <1>6, <2>1, SocketsMove
<1>8. HostKnown(n)'
    BY <1>1, <1>5 DEF HostKnown
<1> QED BY <1>2, <1>5, <1>7, <1>8 DEF NodeStands

\* The policy keeps its type, and defers a connection for a node that has the host.
LEMMA RetryKept ==
    ASSUME Shapes, NEW n \in Nodes, NEW r \in Attempts, NEW new,
           new = r \/ new = Scheduled(n, r), retry' = [retry EXCEPT ![n] = new]
    PROVE  /\ retry' \in [Nodes -> [attempts : Nat, deferred : Nat]] /\ retry'[n] = new
           /\ \A m \in Nodes : m # n => retry'[m] = retry[m]
<1>1. new \in Attempts
    BY ScheduledOne
<1> QED BY <1>1 DEF Shapes, Attempts

\* A host that is scheduled; it is the only call that throws where the host is not known.
LEMMA HostScheduled ==
    ASSUME Shapes, NEW n \in Nodes, ~failed[n], ScheduleHost(n)
    PROVE  /\ retry' \in [Nodes -> [attempts : Nat, deferred : Nat]]
           /\ failed' \in [Nodes -> BOOLEAN]
           /\ \A m \in Nodes : m # n => retry'[m] = retry[m] /\ failed'[m] = failed[m]
           /\ failed'[n] = ~hosts[n]
           /\ ~hosts[n] => retry'[n] = retry[n]
<1>1. failed' = [failed EXCEPT ![n] = ~hosts[n]] /\ hosts[n] \in BOOLEAN
    BY DEF ScheduleHost, Shapes
<1>2. /\ failed' \in [Nodes -> BOOLEAN] /\ failed'[n] = ~hosts[n]
      /\ \A m \in Nodes : m # n => failed'[m] = failed[m]
    BY <1>1 DEF Shapes
<1>3. CASE hosts[n]
    <2>1. PICK new : new = Scheduled(n, retry[n])
        OBVIOUS
    <2>2. retry' = [retry EXCEPT ![n] = new] /\ retry[n] \in Attempts
        BY <1>3, <2>1 DEF ScheduleHost, Shapes, Attempts
    <2> QED BY <1>2, <1>3, <2>1, <2>2, RetryKept
<1>4. CASE ~hosts[n]
    BY <1>2, <1>4 DEF ScheduleHost, Shapes
<1> QED BY <1>1, <1>3, <1>4

\* connect, called by the application.
LEMMA ConnectPeerStands ==
    ASSUME Standing, NEW n \in Nodes, ConnectPeer(n)
    PROVE  Standing'
<1>1. /\ Shapes /\ ConnsFit /\ NodeStands(n) /\ HostKnown(n) /\ CauseKnown(n)
    BY DEF Standing, NodeStands
<1>2. PICK outcome \in FirstOutcomes :
          /\ hosts' = [hosts EXCEPT ![n] = outcome = "connecting"]
          /\ IF outcome = "connecting"
             THEN AddSocket(n, FreeSid(n), 0, "connecting")
             ELSE UNCHANGED socks
          /\ IF outcome = "unreachable" THEN ScheduleHost(n) ELSE UNCHANGED <<retry, failed>>
    BY DEF ConnectPeer
<1>3. /\ n \in Connectors /\ ~hosts[n] /\ ~failed[n]
      /\ conns' = conns /\ polled' = polled /\ served' = served /\ cache' = cache
      /\ channels' = channels /\ told' = told /\ rejected' = rejected
      /\ closing' = closing /\ phase' = phase
    BY DEF ConnectPeer, handshakes
<1>4. /\ hosts' \in [Nodes -> BOOLEAN] /\ hosts'[n] = (outcome = "connecting")
      /\ \A m \in Nodes : m # n => hosts'[m] = hosts[m]
    BY <1>1, <1>2 DEF Shapes
<1>5. /\ retry' \in [Nodes -> [attempts : Nat, deferred : Nat]]
      /\ failed' \in [Nodes -> BOOLEAN]
      /\ \A m \in Nodes : m # n => retry'[m] = retry[m] /\ failed'[m] = failed[m]
      /\ retry'[n] = retry[n]
      /\ failed'[n] => outcome = "unreachable"
    <2>1. CASE outcome = "unreachable"
        BY <1>1, <1>2, <1>3, <2>1, HostScheduled
    <2>2. CASE outcome # "unreachable"
        BY <1>1, <1>2, <1>3, <2>2 DEF Shapes
    <2> QED BY <2>1, <2>2
<1>6. CauseKnown(n)'
    <2>1. failed'[n] => ~hosts'[n] /\ "unreachable" \in FirstOutcomes
        BY <1>2, <1>4, <1>5
    <2> QED BY <2>1 DEF CauseKnown
<1>7. /\ AddSocket(n, FreeSid(n), 0, "connecting") \/ socks' = socks
      /\ AddSocket(n, FreeSid(n), 0, "connecting") => hosts'[n]
    <2>1. CASE outcome = "connecting"
        BY <1>2, <1>4, <2>1
    <2>2. CASE outcome # "connecting"
        <3>1. socks' = socks
            BY <1>2, <2>2
        <3>2. ~AddSocket(n, FreeSid(n), 0, "connecting")
            <4>1. SocketsKnown(n)
                BY <1>1 DEF NodeStands
            <4>2. SUFFICES ASSUME AddSocket(n, FreeSid(n), 0, "connecting") PROVE FALSE
                OBVIOUS
            <4>3. /\ FreeSid(n) \notin DOMAIN socks[n]
                  /\ DOMAIN socks'[n] = DOMAIN socks[n] \cup {FreeSid(n)}
                BY <1>1, <4>1, <4>2, FreshSocket
            <4> QED BY <3>1, <4>3
        <3> QED BY <3>1, <3>2
    <2> QED BY <2>1, <2>2
<1>8. retry'[n].deferred > 0 => hosts'[n]
    BY <1>1, <1>3, <1>5 DEF HostKnown
<1>9. /\ NodeStands(n)' /\ ConnsGoOn /\ DOMAIN socks' = Nodes
      /\ \A m \in Nodes : m # n => socks'[m] = socks[m]
    BY <1>1, <1>3, <1>6, <1>7, <1>8, AttemptStands
<1>10. Shapes' /\ ConnsFit'
    BY <1>1, <1>3, <1>4, <1>5, <1>9 DEF Shapes, ConnsFit
<1>11. \A m \in Nodes : m # n => NodeSame(m)
    BY <1>3, <1>4, <1>5, <1>9 DEF NodeSame
<1> QED BY <1>9, <1>10, <1>11, OneStands

\* A deferred connection that comes due.
LEMMA ReconnectStands ==
    ASSUME Standing, NEW n \in Nodes, Reconnect(n)
    PROVE  Standing'
<1>1. /\ Shapes /\ ConnsFit /\ NodeStands(n) /\ HostKnown(n) /\ CauseKnown(n)
    BY DEF Standing, NodeStands
<1>2. PICK r : r = [retry[n] EXCEPT !.deferred = @ - 1]
    OBVIOUS
<1>3. PICK outcome \in LaterOutcomes :
          /\ retry' = [retry EXCEPT ![n] = IF outcome = "unreachable" THEN Scheduled(n, r) ELSE r]
          /\ IF outcome = "connecting"
             THEN AddSocket(n, FreeSid(n), 0, "connecting")
             ELSE UNCHANGED socks
    BY <1>2 DEF Reconnect
<1>4. /\ At(n, Connecting) /\ retry[n].deferred > 0
      /\ conns' = conns /\ polled' = polled /\ served' = served /\ cache' = cache
      /\ channels' = channels /\ told' = told /\ rejected' = rejected /\ hosts' = hosts
      /\ closing' = closing /\ failed' = failed
    BY DEF Reconnect, handshakes
<1>5. /\ phase' \in [Nodes -> Listening .. Timers] /\ phase[n] # Timers
      /\ \A m \in Nodes : m # n => phase'[m] = phase[m]
    BY <1>1, <1>4, AtPhase DEF Listening, Connecting, Timers
<1>6. retry[n] \in Attempts
    BY <1>1 DEF Shapes, Attempts
<1>7. r \in Attempts
    BY <1>2, <1>4, <1>6 DEF Attempts
<1>8. /\ retry' \in [Nodes -> [attempts : Nat, deferred : Nat]]
      /\ \A m \in Nodes : m # n => retry'[m] = retry[m]
    <2>1. PICK new : new = IF outcome = "unreachable" THEN Scheduled(n, r) ELSE r
        OBVIOUS
    <2>2. retry' = [retry EXCEPT ![n] = new] /\ (new = r \/ new = Scheduled(n, r))
        BY <1>3, <2>1
    <2> QED BY <1>1, <1>7, <2>2, RetryKept
<1>9. hosts[n] /\ hosts'[n] /\ n \in Connectors /\ ~failed[n]
    BY <1>1, <1>4 DEF HostKnown, At
<1>10. AddSocket(n, FreeSid(n), 0, "connecting") \/ socks' = socks
    BY <1>3
<1>11. CauseKnown(n)'
    BY <1>4, <1>9 DEF CauseKnown
<1>12. /\ NodeStands(n)' /\ ConnsGoOn /\ DOMAIN socks' = Nodes
       /\ \A m \in Nodes : m # n => socks'[m] = socks[m]
    BY <1>1, <1>4, <1>5, <1>9, <1>10, <1>11, AttemptStands
<1>13. Shapes' /\ ConnsFit'
    BY <1>1, <1>4, <1>5, <1>8, <1>12 DEF Shapes, ConnsFit
<1>14. \A m \in Nodes : m # n => NodeSame(m)
    BY <1>4, <1>5, <1>8, <1>12 DEF NodeSame
<1> QED BY <1>12, <1>13, <1>14, OneStands

\* An attempt that is refused: the host is in the cache of who attempts it.
LEMMA RefusedStands ==
    ASSUME Standing, NEW n \in Nodes, NEW sid, Refused(n, sid)
    PROVE  Standing'
<1>1. /\ Shapes /\ ConnsFit /\ NodeStands(n) /\ HostKnown(n) /\ CauseKnown(n)
    BY DEF Standing, NodeStands
<1>2. /\ At(n, Connecting) /\ sid \in OfKind(n, "connecting")
      /\ RemoveSockets(n, {sid}) /\ ScheduleHost(n)
      /\ conns' = conns /\ polled' = polled /\ served' = served /\ cache' = cache
      /\ channels' = channels /\ told' = told /\ rejected' = rejected /\ hosts' = hosts
      /\ closing' = closing
    BY DEF Refused, handshakes
<1>3. /\ phase' \in [Nodes -> Listening .. Timers] /\ phase[n] # Timers
      /\ \A m \in Nodes : m # n => phase'[m] = phase[m]
    BY <1>1, <1>2, AtPhase DEF Listening, Connecting, Timers
<1>4. hosts[n] /\ hosts'[n] /\ n \in Connectors /\ ~failed[n]
    BY <1>1, <1>2 DEF HostKnown, At
<1>5. /\ retry' \in [Nodes -> [attempts : Nat, deferred : Nat]]
      /\ failed' \in [Nodes -> BOOLEAN]
      /\ \A m \in Nodes : m # n => retry'[m] = retry[m] /\ failed'[m] = failed[m]
      /\ ~failed'[n]
    BY <1>1, <1>2, <1>4, HostScheduled
<1>6. CauseKnown(n)'
    BY <1>5 DEF CauseKnown
<1>7. \E t : t \in OfKind(n, "connecting") /\ RemoveSockets(n, {t})
    BY <1>2
<1>8. /\ NodeStands(n)' /\ ConnsGoOn /\ DOMAIN socks' = Nodes
      /\ \A m \in Nodes : m # n => socks'[m] = socks[m]
    BY <1>1, <1>2, <1>3, <1>4, <1>6, <1>7, AttemptStands
<1>9. Shapes' /\ ConnsFit'
    BY <1>1, <1>2, <1>3, <1>5, <1>8 DEF Shapes, ConnsFit
<1>10. \A m \in Nodes : m # n => NodeSame(m)
    BY <1>2, <1>3, <1>5, <1>8 DEF NodeSame
<1> QED BY <1>8, <1>9, <1>10, OneStands

\* An attempt that fails otherwise.
LEMMA ConnectFailsStands ==
    ASSUME Standing, NEW n \in Nodes, NEW sid, ConnectFails(n, sid)
    PROVE  Standing'
<1>1. /\ Shapes /\ ConnsFit /\ NodeStands(n) /\ HostKnown(n) /\ CauseKnown(n)
    BY DEF Standing, NodeStands
<1>2. /\ At(n, Connecting) /\ sid \in OfKind(n, "connecting")
      /\ RemoveSockets(n, {sid})
      /\ conns' = conns /\ polled' = polled /\ served' = served /\ cache' = cache
      /\ channels' = channels /\ told' = told /\ rejected' = rejected /\ hosts' = hosts
      /\ closing' = closing /\ retry' = retry /\ failed' = failed
    BY DEF ConnectFails, handshakes
<1>3. /\ phase' \in [Nodes -> Listening .. Timers] /\ phase[n] # Timers
      /\ \A m \in Nodes : m # n => phase'[m] = phase[m]
    BY <1>1, <1>2, AtPhase DEF Listening, Connecting, Timers
<1>4. hosts[n] /\ hosts'[n] /\ n \in Connectors /\ ~failed[n]
    BY <1>1, <1>2 DEF HostKnown, At
<1>5. CauseKnown(n)'
    BY <1>2, <1>4 DEF CauseKnown
<1>6. \E t : t \in OfKind(n, "connecting") /\ RemoveSockets(n, {t})
    BY <1>2
<1>7. /\ NodeStands(n)' /\ ConnsGoOn /\ DOMAIN socks' = Nodes
      /\ \A m \in Nodes : m # n => socks'[m] = socks[m]
    BY <1>1, <1>2, <1>3, <1>4, <1>5, <1>6, AttemptStands
<1>8. Shapes' /\ ConnsFit'
    BY <1>1, <1>2, <1>3, <1>7 DEF Shapes, ConnsFit
<1>9. \A m \in Nodes : m # n => NodeSame(m)
    BY <1>2, <1>3, <1>7 DEF NodeSame
<1> QED BY <1>7, <1>8, <1>9, OneStands

\* A connection that is up: its handshake is waited for.
LEMMA ConnectedStands ==
    ASSUME Standing, NEW n \in Nodes, NEW sid, Connected(n, sid)
    PROVE  Standing'
<1>1. /\ Shapes /\ ConnsFit /\ NodeStands(n) /\ HostKnown(n) /\ CauseKnown(n)
      /\ SocketsKnown(n) /\ KeysSettled(n) /\ ClosingAnswered(n) /\ ResponseAwaited(n)
    BY DEF Standing, NodeStands
<1>2. PICK c : c = Len(conns) + 1
    OBVIOUS
<1>3. /\ At(n, Connecting) /\ sid \in OfKind(n, "connecting") /\ Len(conns) < MaxConnections
      /\ conns' = Append(conns, [client |-> n, live |-> TRUE, accepted |-> FALSE,
                                 packet |-> "request"])
      /\ AddSocket(n, sid, c, "connected")
      /\ retry' = [retry EXCEPT ![n].attempts = 0]
      /\ cache' = [cache EXCEPT ![n] = @ \cup {sid}]
      /\ polled' = [polled EXCEPT ![n] = @ \cup {<<"read", sid>>, <<"write", sid>>}]
      /\ served' = served /\ channels' = channels /\ told' = told /\ rejected' = rejected
      /\ hosts' = hosts /\ closing' = closing /\ failed' = failed
    BY <1>2 DEF Connected, Poll
<1>4. /\ phase' \in [Nodes -> Listening .. Timers] /\ phase[n] # Timers
      /\ \A m \in Nodes : m # n => phase'[m] = phase[m]
    BY <1>1, <1>3, AtPhase DEF Listening, Connecting, Timers
<1>5. hosts[n] /\ n \in Connectors /\ ~failed[n]
    BY <1>1, <1>3 DEF HostKnown, At
<1>6. /\ ConnsFit' /\ ConnsGoOn /\ c \in Nat \ {0} /\ c \in DOMAIN conns'
      /\ conns'[c] = [client |-> n, live |-> TRUE, accepted |-> FALSE, packet |-> "request"]
    BY <1>1, <1>2, <1>3, <1>5, ConnectionAdded
<1>7. /\ DOMAIN socks' = Nodes /\ \A m \in Nodes : m # n => socks'[m] = socks[m]
      /\ DOMAIN socks'[n] = DOMAIN socks[n] \cup {sid}
      /\ socks'[n][sid] = [conn |-> c, kind |-> "connected"]
      /\ \A s \in DOMAIN socks[n] : s # sid => socks'[n][s] = socks[n][s]
    BY <1>1, <1>3, SocketAdded
<1>8. sid \in DOMAIN socks[n]
    BY <1>3 DEF OfKind
<1>9. sid \notin Pooled(n) /\ sid \in Nat \ {NoSid}
    BY <1>1, <1>3, <1>8, KnownSocket
<1>10. \A s \in Pooled(n) : s \in DOMAIN socks'[n] /\ socks'[n][s] = socks[n][s]
    <2>1. Pooled(n) \subseteq DOMAIN socks[n]
        BY DEF Pooled, OfKind
    <2> QED BY <1>7, <1>9, <2>1
<1>11. cache'[n] = cache[n] \cup {sid} /\ \A m \in Nodes : m # n => cache'[m] = cache[m]
    BY <1>1, <1>3 DEF Shapes
<1>12. /\ \A s \in OfKind(n, "connected")' : s \in Pooled(n) \/ s \in cache'[n]
       /\ cache'[n] \subseteq OfKind(n, "connected")'
    <2>1. OfKind(n, "connected")' = OfKind(n, "connected") \cup {sid}
        BY <1>1, <1>3, KindsAdded
    <2> QED BY <1>1, <1>11, <2>1 DEF Pooled, ResponseAwaited
<1>13. KeysSettled(n)' /\ ClosingAnswered(n)' /\ ResponseAwaited(n)'
    BY <1>1, <1>3, <1>4, <1>6, <1>10, <1>11, <1>12, SocketsMove
<1>14. SocketsKnown(n)'
    <2>1. SocketFits(n, sid)'
        BY <1>6, <1>7 DEF SocketFits, Kinds, ConnOf
    <2> QED BY <1>1, <1>6, <1>7, <1>9, <2>1, SocketsStayKnown
<1>15. HostKnown(n)' /\ CauseKnown(n)'
    BY <1>3, <1>5 DEF HostKnown, CauseKnown
<1>16. NodeStands(n)'
    BY <1>13, <1>14, <1>15 DEF NodeStands
<1>17. /\ retry' \in [Nodes -> [attempts : Nat, deferred : Nat]]
       /\ \A m \in Nodes : m # n => retry'[m] = retry[m]
    <2>1. PICK new : new = [retry[n] EXCEPT !.attempts = 0]
        OBVIOUS
    <2>2. new \in Attempts /\ retry' = [retry EXCEPT ![n] = new]
        BY <1>1, <1>3, <2>1 DEF Shapes, Attempts
    <2> QED BY <1>1, <2>2, RetryKept
<1>18. Shapes'
    BY <1>1, <1>3, <1>4, <1>7, <1>17 DEF Shapes
<1>19. \A m \in Nodes : m # n => NodeSame(m)
    BY <1>1, <1>3, <1>4, <1>7, <1>11, <1>17 DEF NodeSame, Shapes
<1> QED BY <1>6, <1>16, <1>18, <1>19, OneStands

\* A connection that is accepted, by a socket with a fresh number.
LEMMA AcceptStands ==
    ASSUME Standing, NEW n \in Nodes, NEW c \in DOMAIN conns, Accept(n, c)
    PROVE  Standing'
<1>1. /\ Shapes /\ ConnsFit /\ NodeStands(n) /\ HostKnown(n) /\ CauseKnown(n)
      /\ SocketsKnown(n) /\ KeysSettled(n) /\ ClosingAnswered(n) /\ ResponseAwaited(n)
    BY DEF Standing, NodeStands
<1>2. PICK sid : sid = FreeSid(n)
    OBVIOUS
<1>3. /\ At(n, Listening) /\ conns[c].client # n
      /\ conns' = [conns EXCEPT ![c].accepted = TRUE]
      /\ AddSocket(n, FreeSid(n), c, "accepted")
      /\ polled' = [polled EXCEPT ![n] = @ \cup {<<"read", sid>>, <<"write", sid>>}]
      /\ served' = served /\ cache' = cache /\ channels' = channels /\ told' = told
      /\ rejected' = rejected /\ hosts' = hosts /\ retry' = retry /\ closing' = closing
      /\ failed' = failed
    BY <1>2 DEF Accept, Poll, handshakes
<1>4. /\ phase' \in [Nodes -> Listening .. Timers] /\ phase[n] # Timers
      /\ \A m \in Nodes : m # n => phase'[m] = phase[m]
    BY <1>1, <1>3, AtPhase DEF Listening, Timers
<1>5. /\ ConnsFit' /\ ConnsGoOn /\ DOMAIN conns' = DOMAIN conns
      /\ conns'[c].accepted /\ conns'[c].client = conns[c].client
    BY <1>1, <1>3, ConnectionAccepted
<1>6. /\ DOMAIN socks' = Nodes /\ \A m \in Nodes : m # n => socks'[m] = socks[m]
      /\ sid \in Nat \ {NoSid}
      /\ DOMAIN socks'[n] = DOMAIN socks[n] \cup {sid}
      /\ socks'[n][sid] = [conn |-> c, kind |-> "accepted"]
      /\ \A s \in DOMAIN socks[n] : socks'[n][s] = socks[n][s]
      /\ OfKind(n, "connected")' = OfKind(n, "connected")
      /\ OfKind(n, "connecting")' = OfKind(n, "connecting")
    BY <1>1, <1>2, <1>3, FreshSocket
<1>7. \A s \in Pooled(n) : s \in DOMAIN socks'[n] /\ socks'[n][s] = socks[n][s]
    BY <1>6 DEF Pooled, OfKind
<1>8. /\ \A s \in OfKind(n, "connected")' : s \in Pooled(n)
      /\ cache'[n] \subseteq OfKind(n, "connected")'
    BY <1>1, <1>3, <1>6 DEF Pooled, ResponseAwaited
<1>9. KeysSettled(n)' /\ ClosingAnswered(n)' /\ ResponseAwaited(n)'
    BY <1>1, <1>3, <1>4, <1>5, <1>7, <1>8, SocketsMove
<1>10. SocketsKnown(n)'
    <2>1. c # 0
        BY <1>1, LenProperties DEF ConnsFit
    <2>2. SocketFits(n, sid)'
        BY <1>3, <1>5, <1>6, <2>1 DEF SocketFits, Kinds, ConnOf
    <2> QED BY <1>1, <1>5, <1>6, <2>2, SocketsStayKnown
<1>11. HostKnown(n)'
    BY <1>1, <1>3, <1>6 DEF HostKnown
<1>12. CauseKnown(n)'
    BY <1>3 DEF CauseKnown, At
<1>13. NodeStands(n)'
    BY <1>9, <1>10, <1>11, <1>12 DEF NodeStands
<1>14. Shapes'
    BY <1>1, <1>3, <1>4, <1>6 DEF Shapes
<1>15. \A m \in Nodes : m # n => NodeSame(m)
    BY <1>1, <1>3, <1>4, <1>6 DEF NodeSame, Shapes
<1> QED BY <1>5, <1>13, <1>14, <1>15, OneStands

\* A connection that breaks.
LEMMA BreakStands ==
    ASSUME Standing, NEW c \in DOMAIN conns, Break(c)
    PROVE  Standing'
<1>1. Shapes /\ ConnsFit /\ \A m \in Nodes : NodeStands(m)
    BY DEF Standing
<1>2. /\ conns' = [conns EXCEPT ![c].live = FALSE, ![c].packet = "none"]
      /\ socks' = socks /\ polled' = polled /\ served' = served /\ cache' = cache
      /\ channels' = channels /\ told' = told /\ rejected' = rejected /\ hosts' = hosts
      /\ retry' = retry /\ closing' = closing /\ phase' = phase /\ failed' = failed
    BY DEF Break, pools, handshakes
<1>3. ConnsFit' /\ ConnsGoOn
    BY <1>1, <1>2, ConnectionBroken
<1>4. Shapes'
    BY <1>1, <1>2 DEF Shapes
<1>5. \A m \in Nodes : NodeSame(m)
    BY <1>2 DEF NodeSame
<1>6. \A m \in Nodes : NodeStands(m)'
    BY <1>1, <1>3, <1>5, SameStands
<1> QED BY <1>3, <1>4, <1>6 DEF Standing

\* The end of a step: what is closed is neither the channel's nor waited for.
LEMMA EndStepStands ==
    ASSUME Standing, NEW n \in Nodes, EndStep(n)
    PROVE  Standing'
<1>1. /\ Shapes /\ ConnsFit /\ NodeStands(n) /\ HostKnown(n) /\ CauseKnown(n)
      /\ SocketsKnown(n) /\ KeysSettled(n) /\ ClosingAnswered(n) /\ ResponseAwaited(n)
    BY DEF Standing, NodeStands
<1>2. PICK gone : gone = closing[n]
    OBVIOUS
<1>3. PICK ended : ended = {socks[n][s].conn : s \in gone}
    OBVIOUS
<1>4. /\ phase' = [phase EXCEPT ![n] = Listening]
      /\ served' = [served EXCEPT ![n] = {}]
      /\ closing' = [closing EXCEPT ![n] = {}]
      /\ RemoveSockets(n, gone)
      /\ cache' = [cache EXCEPT ![n] = @ \ gone]
      /\ polled' = [polled EXCEPT ![n] = {e \in @ : e[2] \notin gone}]
      /\ conns' = [c \in DOMAIN conns |-> IF c \in ended THEN Ended(conns[c]) ELSE conns[c]]
      /\ channels' = channels /\ told' = told /\ rejected' = rejected /\ hosts' = hosts
      /\ retry' = retry /\ failed' = failed /\ ~failed[n]
    BY <1>2, <1>3 DEF EndStep, Ended
<1>5. ConnsFit' /\ ConnsGoOn
    BY <1>1, <1>4, ConnectionsEnded
<1>6. /\ DOMAIN socks' = Nodes /\ \A m \in Nodes : m # n => socks'[m] = socks[m]
      /\ DOMAIN socks'[n] = DOMAIN socks[n] \ gone
      /\ \A s \in DOMAIN socks[n] \ gone : socks'[n][s] = socks[n][s]
    BY <1>1, <1>4, SocketsRemoved
<1>7. /\ OfKind(n, "connected")' = OfKind(n, "connected") \ gone
      /\ OfKind(n, "connecting")' = OfKind(n, "connecting") \ gone
    BY <1>1, <1>4, KindsRemoved
<1>8. closing'[n] = {} /\ cache'[n] = cache[n] \ gone
    BY <1>1, <1>4 DEF Shapes
<1>9. \A s \in Pooled(n) : s \notin gone => s \in DOMAIN socks'[n] /\ socks'[n][s] = socks[n][s]
    BY <1>6 DEF Pooled, OfKind
<1>10. KeysSettled(n)'
    BY <1>1, <1>2, <1>4, <1>5, <1>8, <1>9, KeysStaySettled
<1>11. ClosingAnswered(n)'
    BY <1>8 DEF ClosingAnswered
<1>12. ResponseAwaited(n)'
    <2>1. ASSUME NEW s \in OfKind(n, "connected")', Pending(n, s)'
          PROVE  s \in cache'[n] \/ Stale(n, s)'
        <3>1. s \in OfKind(n, "connected") /\ s \notin gone /\ s \in Pooled(n)
            BY <1>7 DEF Pooled
        <3>2. Pending(n, s)
            BY <1>1, <1>5, <1>9, <2>1, <3>1, PendingBefore
        <3>3. s \in cache[n] \/ Stale(n, s)
            BY <1>1, <1>2, <3>1, <3>2 DEF ResponseAwaited
        <3> QED BY <1>4, <1>8, <3>1, <3>3 DEF Stale, FirstKey
    <2>2. cache'[n] \subseteq OfKind(n, "connected")'
        BY <1>1, <1>7, <1>8 DEF ResponseAwaited
    <2> QED BY <2>1, <2>2 DEF ResponseAwaited
<1>13. SocketsKnown(n)'
    <2>1. ASSUME NEW s \in DOMAIN socks'[n] PROVE SocketFits(n, s)'
        <3>1. s \in DOMAIN socks[n] \ gone /\ SocketFits(n, s)
            BY <1>1, <1>6 DEF SocketsKnown
        <3> QED BY <1>5, <1>6, <3>1 DEF SocketFits, ConnOf, ConnsGoOn
    <2>2. IsFiniteSet(DOMAIN socks'[n]) /\ DOMAIN socks'[n] \subseteq Nat \ {NoSid}
        BY <1>1, <1>6, FS_Subset DEF SocketsKnown
    <2> QED BY <2>1, <2>2 DEF SocketsKnown
<1>14. HostKnown(n)'
    BY <1>1, <1>4, <1>7 DEF HostKnown
<1>15. CauseKnown(n)'
    BY <1>4 DEF CauseKnown
<1>16. NodeStands(n)'
    BY <1>10, <1>11, <1>12, <1>13, <1>14, <1>15 DEF NodeStands
<1>17. /\ phase' \in [Nodes -> Listening .. Timers]
       /\ \A m \in Nodes : m # n => phase'[m] = phase[m]
    <2>1. Listening \in Listening .. Timers
        BY DEF Listening, Timers
    <2> QED BY <1>1, <1>4, <2>1 DEF Shapes
<1>18. Shapes'
    BY <1>1, <1>4, <1>6, <1>17 DEF Shapes
<1>19. \A m \in Nodes : m # n => NodeSame(m)
    BY <1>1, <1>4, <1>6, <1>17 DEF NodeSame, Shapes
<1> QED BY <1>5, <1>16, <1>18, <1>19, OneStands

\* erase_by_first takes the first away, and its key where it reads what was there.
LEMMA FirstErased ==
    ASSUME NEW b, NEW e \in EraseByFirst(b)
    PROVE  /\ e.first = NoSid
           /\ \A k : k \in e.second => k \in b.second
           /\ \A k : k \in b.second /\ k # b.first => k \in e.second
           /\ b.first # NoSid /\ "other" \notin FreedReads => b.first \notin e.second
<1>1. CASE b.first = NoSid
    BY <1>1 DEF EraseByFirst
<1>2. CASE b.first # NoSid
    <2>1. PICK read \in FreedReads :
              e = [first |-> NoSid,
                   second |-> IF read = "same" THEN b.second \ {b.first} ELSE b.second]
        BY <1>2 DEF EraseByFirst
    <2>2. "other" \notin FreedReads => read = "same"
        BY FreedReadsAssumption DEF FreedReadsAssumption
    <2> QED BY <2>1, <2>2
<1> QED BY <1>1, <1>2

\* A channel that is closed, if there is one.
LEMMA ChannelClosed ==
    ASSUME NEW ch, MapsAgree(ch), NEW rest \in CloseChannel(ch)
    PROVE  /\ ~IsBroken(ch) /\ (IsOpen(ch) <=> ch.readers.first # NoSid)
           /\ IsOpen(ch) => ClosedSockets(ch) = {ch.readers.first} /\ rest.readers.first = NoSid
           /\ ~IsOpen(ch) => ClosedSockets(ch) = {} /\ rest = ch
           /\ MapsAgree(rest)
           /\ \A k : HasChannel(rest, k) => HasChannel(ch, k)
           /\ \A k : HasChannel(ch, k) /\ k # ch.readers.first => HasChannel(rest, k)
           /\ IsOpen(ch) /\ "other" \notin FreedReads => ~HasChannel(rest, ch.readers.first)
<1>1. /\ ch.writers.first = ch.readers.first /\ ~IsBroken(ch)
      /\ IsOpen(ch) <=> ch.readers.first # NoSid
    BY DEF MapsAgree, IsBroken, IsOpen
<1>2. CASE IsOpen(ch)
    <2>1. PICK r \in EraseByFirst(ch.readers), w \in EraseByFirst(ch.writers) :
              rest = [readers |-> r, writers |-> w]
        BY <1>2 DEF CloseChannel, Maps
    <2>2. /\ r.first = NoSid /\ w.first = NoSid
          /\ \A k : k \in r.second => k \in ch.readers.second
          /\ \A k : k \in w.second => k \in ch.writers.second
          /\ \A k : k \in ch.readers.second /\ k # ch.readers.first => k \in r.second
          /\ \A k : k \in ch.writers.second /\ k # ch.readers.first => k \in w.second
          /\ "other" \notin FreedReads =>
                 ch.readers.first \notin r.second /\ ch.readers.first \notin w.second
        BY <1>1, <1>2, FirstErased
    <2>3. rest.readers = r /\ rest.writers = w
        BY <2>1
    <2>4. MapsAgree(rest)
        BY <2>2, <2>3 DEF MapsAgree
    <2>5. ClosedSockets(ch) = {ch.readers.first}
        BY <1>1, <1>2 DEF ClosedSockets
    <2> QED BY <1>1, <1>2, <2>2, <2>3, <2>4, <2>5 DEF HasChannel
<1>3. CASE ~IsOpen(ch)
    <2>1. rest = ch /\ ClosedSockets(ch) = {}
        BY <1>3 DEF CloseChannel, ClosedSockets
    <2> QED BY <1>1, <1>3, <2>1
<1> QED BY <1>2, <1>3

\* A channel that is inserted, or refused: then there is none.
LEMMA ChannelInserted ==
    ASSUME NEW ch, MapsAgree(ch), NEW sid, sid # NoSid, NEW new \in InsertChannel(ch, sid)
    PROVE  /\ MapsAgree(new)
           /\ CanInsertChannel(ch, sid) => new.readers.first = sid
           /\ ~CanInsertChannel(ch, sid) => new.readers.first = NoSid
           /\ \A k : HasChannel(new, k) => HasChannel(ch, k) \/ k = sid
           /\ \A k : HasChannel(ch, k) /\ k \notin {NoSid, sid, ch.readers.first} =>
                      HasChannel(new, k)
<1> DEFINE r == BimapInsert(ch.readers, sid)
           w == IF CanInsert(ch.readers, sid) THEN BimapInsert(ch.writers, sid) ELSE ch.writers
<1>1. ch.writers.first = ch.readers.first
    BY DEF MapsAgree
<1>2. ASSUME NEW b
      PROVE  /\ CanInsert(b, sid) => /\ BimapInsert(b, sid).first = sid
                                     /\ BimapInsert(b, sid).second = b.second \cup {sid}
             /\ ~CanInsert(b, sid) => /\ BimapInsert(b, sid).first = NoSid
                                      /\ BimapInsert(b, sid).second = b.second \ {sid}
    BY DEF BimapInsert
<1>3. CASE CanInsertChannel(ch, sid)
    <2>1. CanInsert(ch.readers, sid) /\ CanInsert(ch.writers, sid)
        BY <1>3 DEF CanInsertChannel
    <2>2. /\ r.first = sid /\ r.second = ch.readers.second \cup {sid}
          /\ w.first = sid /\ w.second = ch.writers.second \cup {sid}
        BY <1>2, <2>1
    <2>3. InsertChannel(ch, sid) = Maps({r}, {w})
        BY <1>3 DEF InsertChannel
    <2> HIDE DEF r, w
    <2>4. new.readers = r /\ new.writers = w
        BY <2>3 DEF Maps
    <2> QED BY <1>3, <2>2, <2>4 DEF MapsAgree, HasChannel
<1>4. CASE ~CanInsertChannel(ch, sid)
    <2>1. /\ \A k : k \in r.second \/ k \in w.second => HasChannel(ch, k) \/ k = sid
          /\ \A k : HasChannel(ch, k) /\ k # sid => k \in r.second \/ k \in w.second
          /\ r.first \in {NoSid, sid}
          /\ w.first \in {NoSid, sid, ch.readers.first}
        BY <1>1, <1>2 DEF HasChannel
    <2>2. InsertChannel(ch, sid) = Maps(EraseByFirst(r), EraseByFirst(w))
        BY <1>4 DEF InsertChannel
    <2> HIDE DEF r, w
    <2>3. PICK x \in EraseByFirst(r), y \in EraseByFirst(w) : new = [readers |-> x, writers |-> y]
        BY <2>2 DEF Maps
    <2>4. /\ x.first = NoSid
          /\ \A k : k \in x.second => k \in r.second
          /\ \A k : k \in r.second /\ k # r.first => k \in x.second
        BY FirstErased
    <2>5. /\ y.first = NoSid
          /\ \A k : k \in y.second => k \in w.second
          /\ \A k : k \in w.second /\ k # w.first => k \in y.second
        BY FirstErased
    <2>6. new.readers = x /\ new.writers = y
        BY <2>3
    <2>7. MapsAgree(new) /\ new.readers.first = NoSid
        BY <2>4, <2>5, <2>6 DEF MapsAgree
    <2>8. ASSUME NEW k, HasChannel(new, k) PROVE HasChannel(ch, k) \/ k = sid
        <3>1. k \in r.second \/ k \in w.second
            BY <2>4, <2>5, <2>6, <2>8 DEF HasChannel
        <3> QED BY <2>1, <3>1
    <2>9. ASSUME NEW k, HasChannel(ch, k), k \notin {NoSid, sid, ch.readers.first}
          PROVE  HasChannel(new, k)
        <3>1. (k \in r.second /\ k # r.first) \/ (k \in w.second /\ k # w.first)
            BY <2>1, <2>9
        <3> QED BY <2>4, <2>5, <2>6, <3>1 DEF HasChannel
    <2> QED BY <1>4, <2>7, <2>8, <2>9
<1> QED BY <1>3, <1>4

\* What destroy_channel does: the channel is closed, or the socket is, or neither where
\* the socket is a key and there is no channel.
LEMMA WhatIsDestroyed ==
    ASSUME Shapes, NEW n \in Nodes, KeysSettled(n), ~failed[n], NEW sid, DestroyChannel(n, sid)
    PROVE  /\ DOMAIN channels' = Nodes /\ DOMAIN closing' = Nodes
           /\ told' \in [Nodes -> BOOLEAN] /\ failed' = failed
           /\ \A m \in Nodes : m # n => /\ channels'[m] = channels[m] /\ closing'[m] = closing[m]
                                        /\ told'[m] = told[m]
           /\ \/ /\ HasChannel(channels[n], sid) /\ FirstKey(n) # NoSid
                 /\ FirstKey(n)' = NoSid /\ ~told'[n]
                 /\ closing'[n] = closing[n] \cup {FirstKey(n)}
                 /\ MapsAgree(channels'[n])
                 /\ \A k : HasChannel(channels'[n], k) => HasChannel(channels[n], k)
                 /\ \A k : Stale(n, k) => HasChannel(channels'[n], k)
                 /\ "other" \notin FreedReads => ~HasChannel(channels'[n], FirstKey(n))
              \/ /\ HasChannel(channels[n], sid) /\ FirstKey(n) = NoSid
                 /\ channels'[n] = channels[n] /\ told'[n] = told[n] /\ closing'[n] = closing[n]
              \/ /\ ~HasChannel(channels[n], sid)
                 /\ channels'[n] = channels[n] /\ told'[n] = told[n]
                 /\ closing'[n] = closing[n] \cup ({sid} \cap Pooled(n))
<1>1. PICK ch : ch = channels[n]
    OBVIOUS
<1>2. MapsAgree(ch) /\ FirstKey(n) = ch.readers.first /\ (FirstKey(n) # NoSid => FirstKey(n) \in Pooled(n))
    BY <1>1 DEF KeysSettled, FirstKey, Settled
<1>3. CASE HasChannel(ch, sid)
    <2>1. PICK rest \in CloseChannel(ch) : channels' = [channels EXCEPT ![n] = rest]
        BY <1>1, <1>3 DEF DestroyChannel
    <2>2. /\ closing' = [closing EXCEPT ![n] = @ \cup (ClosedSockets(ch) \cap Pooled(n))]
          /\ told' = [told EXCEPT ![n] = @ /\ ~IsOpen(ch)]
          /\ failed' = [failed EXCEPT ![n] = IsBroken(ch)]
        BY <1>1, <1>3 DEF DestroyChannel
    <2>3. /\ ~IsBroken(ch) /\ (IsOpen(ch) <=> ch.readers.first # NoSid)
          /\ IsOpen(ch) => ClosedSockets(ch) = {ch.readers.first} /\ rest.readers.first = NoSid
          /\ ~IsOpen(ch) => ClosedSockets(ch) = {} /\ rest = ch
          /\ MapsAgree(rest)
          /\ \A k : HasChannel(rest, k) => HasChannel(ch, k)
          /\ \A k : HasChannel(ch, k) /\ k # ch.readers.first => HasChannel(rest, k)
          /\ IsOpen(ch) /\ "other" \notin FreedReads => ~HasChannel(rest, ch.readers.first)
        BY <1>2, ChannelClosed
    <2>4. failed' = failed
        <3>1. IsBroken(ch) = FALSE
            BY <2>3 DEF IsBroken
        <3>2. failed' = [failed EXCEPT ![n] = FALSE]
            BY <2>2, <3>1
        <3>3. failed \in [Nodes -> BOOLEAN] /\ failed[n] = FALSE
            BY DEF Shapes
        <3> QED BY <3>2, <3>3
    <2>5. /\ DOMAIN channels' = Nodes /\ channels'[n] = rest
          /\ \A m \in Nodes : m # n => channels'[m] = channels[m]
        BY <2>1 DEF Shapes
    <2>6. /\ DOMAIN closing' = Nodes /\ closing'[n] = closing[n] \cup (ClosedSockets(ch) \cap Pooled(n))
          /\ \A m \in Nodes : m # n => closing'[m] = closing[m]
        BY <2>2 DEF Shapes
    <2>7. /\ told' \in [Nodes -> BOOLEAN] /\ told'[n] = (told[n] /\ ~IsOpen(ch))
          /\ \A m \in Nodes : m # n => told'[m] = told[m]
        BY <2>2 DEF Shapes
    <2>8. FirstKey(n)' = rest.readers.first
        BY <2>5 DEF FirstKey
    <2>9. CASE IsOpen(ch)
        <3>1. closing'[n] = closing[n] \cup {FirstKey(n)} /\ ~told'[n] /\ FirstKey(n)' = NoSid
            BY <1>2, <2>3, <2>6, <2>7, <2>8, <2>9
        <3>2. \A k : Stale(n, k) => HasChannel(channels'[n], k)
            BY <1>1, <1>2, <2>3, <2>5 DEF Stale
        <3> QED BY <1>1, <1>2, <1>3, <2>3, <2>4, <2>5, <2>6, <2>7, <2>9, <3>1, <3>2
    <2>10. CASE ~IsOpen(ch)
        <3>1. closing'[n] = closing[n] /\ told'[n] = told[n] /\ FirstKey(n) = NoSid
            BY <1>2, <2>3, <2>6, <2>7, <2>10 DEF Shapes
        <3> QED BY <1>1, <1>3, <2>3, <2>4, <2>5, <2>6, <2>7, <2>10, <3>1
    <2> QED BY <2>9, <2>10
<1>4. CASE ~HasChannel(ch, sid)
    <2>1. /\ closing' = [closing EXCEPT ![n] = @ \cup ({sid} \cap Pooled(n))]
          /\ channels' = channels /\ told' = told /\ failed' = failed
        BY <1>1, <1>4 DEF DestroyChannel
    <2> QED BY <1>1, <1>4, <2>1 DEF Shapes
<1> QED BY <1>3, <1>4

\* The node whose socket, or whose channel in its place, is to be closed.
LEMMA DestroyedStands ==
    ASSUME Shapes, NEW n \in Nodes, NodeStands(n), ~failed[n], NEW sid, DestroyChannel(n, sid),
           ConnsGoOn, socks' = socks, rejected'[n] = rejected[n], hosts'[n] = hosts[n],
           cache[n] \ {sid} \subseteq cache'[n], cache'[n] \subseteq cache[n],
           phase[n] = Timers => phase'[n] = Timers,
           sid \in Pooled(n) =>
               ~Pending(n, sid)' \/ (sid \in OfKind(n, "connected") /\ phase'[n] = Timers),
           retry'[n].deferred > 0 => hosts[n]
    PROVE  NodeStands(n)'
<1>1. /\ SocketsKnown(n) /\ KeysSettled(n) /\ ClosingAnswered(n) /\ ResponseAwaited(n)
      /\ HostKnown(n)
    BY DEF NodeStands
<1>2. /\ failed' = failed
      /\ \/ /\ HasChannel(channels[n], sid) /\ FirstKey(n) # NoSid
            /\ FirstKey(n)' = NoSid /\ ~told'[n]
            /\ closing'[n] = closing[n] \cup {FirstKey(n)}
            /\ MapsAgree(channels'[n])
            /\ \A k : HasChannel(channels'[n], k) => HasChannel(channels[n], k)
            /\ \A k : Stale(n, k) => HasChannel(channels'[n], k)
            /\ "other" \notin FreedReads => ~HasChannel(channels'[n], FirstKey(n))
         \/ /\ HasChannel(channels[n], sid) /\ FirstKey(n) = NoSid
            /\ channels'[n] = channels[n] /\ told'[n] = told[n] /\ closing'[n] = closing[n]
         \/ /\ ~HasChannel(channels[n], sid)
            /\ channels'[n] = channels[n] /\ told'[n] = told[n]
            /\ closing'[n] = closing[n] \cup ({sid} \cap Pooled(n))
    BY <1>1, WhatIsDestroyed
<1>3. /\ Pooled(n)' = Pooled(n) /\ OfKind(n, "connected")' = OfKind(n, "connected")
      /\ OfKind(n, "connecting")' = OfKind(n, "connecting")
      /\ OfKind(n, "connected") \subseteq Pooled(n)
    BY SocksSame DEF Pooled
<1>4. ASSUME NEW s \in Pooled(n), Pending(n, s)' PROVE Pending(n, s)
    <2>1. s \in DOMAIN socks'[n] /\ socks'[n][s] = socks[n][s]
        BY DEF Pooled, OfKind
    <2> QED BY <1>1, <1>4, <2>1, PendingBefore
<1>5. ASSUME NEW s, Settled(n, s), s \notin closing'[n] PROVE Settled(n, s)'
    BY <1>3, <1>4, <1>5 DEF Settled
<1>6. channels'[n] = channels[n] => FirstKey(n)' = FirstKey(n)
    BY DEF FirstKey
<1>7. FirstKey(n) # NoSid => HasChannel(channels[n], FirstKey(n)) /\ Settled(n, FirstKey(n))
    BY <1>1 DEF KeysSettled, MapsAgree, FirstKey, HasChannel
<1>8. KeysSettled(n)'
    <2>1. MapsAgree(channels'[n])
        BY <1>1, <1>2 DEF KeysSettled
    <2>2. FirstKey(n)' # NoSid => told'[n] /\ Settled(n, FirstKey(n))'
        <3>1. SUFFICES ASSUME FirstKey(n)' # NoSid PROVE told'[n] /\ Settled(n, FirstKey(n))'
            OBVIOUS
        <3>2. /\ ~HasChannel(channels[n], sid) /\ channels'[n] = channels[n] /\ told'[n] = told[n]
              /\ closing'[n] = closing[n] \cup ({sid} \cap Pooled(n))
            BY <1>2, <1>6, <3>1
        <3>3. PICK s : s = FirstKey(n)
            OBVIOUS
        <3>4. s # NoSid /\ FirstKey(n)' = s /\ told[n]
            BY <1>1, <1>6, <3>1, <3>2, <3>3 DEF KeysSettled
        <3>5. Settled(n, s) /\ s # sid
            BY <1>7, <3>2, <3>3, <3>4
        <3>6. s \notin closing'[n]
            BY <3>2, <3>5 DEF Settled
        <3>7. Settled(n, s)'
            BY <1>5, <3>5, <3>6
        <3> QED BY <3>2, <3>4, <3>7 DEF Settled
    <2>3. told'[n] /\ ~rejected'[n] => FirstKey(n)' # NoSid
        BY <1>1, <1>2, <1>6 DEF KeysSettled
    <2>4. ASSUME "other" \notin FreedReads, NEW k, HasChannel(channels'[n], k) PROVE Settled(n, k)'
        <3>1. HasChannel(channels[n], k)
            BY <1>2, <2>4
        <3>2. Settled(n, k)
            BY <1>1, <2>4, <3>1 DEF KeysSettled
        <3>3. k \notin closing'[n]
            BY <1>2, <2>4, <3>1, <3>2 DEF Settled
        <3> QED BY <1>5, <3>2, <3>3
    <2> QED BY <2>1, <2>2, <2>3, <2>4 DEF KeysSettled
<1>9. ClosingAnswered(n)'
    <2>1. closing'[n] \subseteq Pooled(n)
        BY <1>1, <1>2, <1>7 DEF ClosingAnswered, Settled
    <2>2. ASSUME NEW s \in closing'[n], Pending(n, s)'
          PROVE  s \in OfKind(n, "connected") /\ phase'[n] = Timers
        <3>1. Pending(n, s)
            BY <1>4, <2>1, <2>2
        <3>2. CASE s \in closing[n]
            BY <1>1, <3>1, <3>2 DEF ClosingAnswered
        <3>3. CASE s \notin closing[n]
            <4>1. s = sid
                BY <1>2, <1>7, <3>1, <3>3 DEF Settled
            <4> QED BY <2>1, <2>2, <4>1
        <3> QED BY <3>2, <3>3
    <2> QED BY <1>3, <2>1, <2>2 DEF ClosingAnswered
<1>10. ResponseAwaited(n)'
    <2>1. closing[n] \subseteq closing'[n]
        BY <1>2
    <2>2. ASSUME NEW k \in Pooled(n), Stale(n, k) PROVE Stale(n, k)'
        <3>1. k # NoSid
            BY <1>1, KnownSocket DEF Pooled, OfKind
        <3> QED BY <1>2, <1>6, <2>2, <3>1 DEF Stale
    <2>3. ASSUME NEW s \in OfKind(n, "connected"), Pending(n, s)'
          PROVE  s \in cache'[n] \/ s \in closing'[n] \/ Stale(n, s)'
        <3>1. Pending(n, s) /\ s \in Pooled(n)
            BY <1>3, <1>4, <2>3
        <3>2. s \in cache[n] \/ s \in closing[n] \/ Stale(n, s)
            BY <1>1, <3>1 DEF ResponseAwaited
        <3>3. CASE s # sid
            BY <2>1, <2>2, <3>1, <3>2, <3>3
        <3>4. CASE s = sid
            <4>1. CASE HasChannel(channels[n], sid)
                <5>1. s # FirstKey(n)
                    <6>1. s # NoSid
                        BY <1>1, KnownSocket DEF OfKind
                    <6> QED BY <1>7, <3>1, <6>1 DEF Settled
                <5>2. Stale(n, s)
                    BY <3>4, <4>1, <5>1 DEF Stale
                <5> QED BY <2>2, <3>1, <5>2
            <4>2. CASE ~HasChannel(channels[n], sid)
                BY <1>2, <3>1, <3>4, <4>2
            <4> QED BY <4>1, <4>2
        <3> QED BY <3>3, <3>4
    <2>4. cache'[n] \subseteq OfKind(n, "connected")
        BY <1>1 DEF ResponseAwaited
    <2> QED BY <1>3, <2>3, <2>4 DEF ResponseAwaited
<1>11. SocketsKnown(n)'
    <2>1. ASSUME NEW s \in DOMAIN socks[n] PROVE SocketFits(n, s)'
        <3>1. SocketFits(n, s)
            BY <1>1 DEF SocketsKnown
        <3> QED BY <3>1 DEF SocketFits, ConnOf, ConnsGoOn
    <2> QED BY <1>1, <2>1 DEF SocketsKnown
<1>12. HostKnown(n)'
    BY <1>1, <1>3 DEF HostKnown
<1>13. CauseKnown(n)'
    BY <1>2 DEF CauseKnown
<1> QED BY <1>8, <1>9, <1>10, <1>11, <1>12, <1>13 DEF NodeStands

\* A socket is scheduled: only a connected one defers a connection.
LEMMA SocketScheduled ==
    ASSUME Shapes, NEW n \in Nodes, HostKnown(n), NEW sid, ScheduleSocket(n, sid)
    PROVE  /\ DestroyChannel(n, sid)
           /\ retry' \in [Nodes -> [attempts : Nat, deferred : Nat]]
           /\ \A m \in Nodes : m # n => retry'[m] = retry[m]
           /\ retry'[n].deferred > 0 => hosts[n]
<1>1. DestroyChannel(n, sid) /\ retry[n] \in Attempts
    BY DEF ScheduleSocket, Shapes, Attempts
<1>2. CASE sid \in OfKind(n, "connected")
    <2>1. PICK new : new = Scheduled(n, retry[n])
        OBVIOUS
    <2>2. retry' = [retry EXCEPT ![n] = new] /\ hosts[n]
        BY <1>2, <2>1 DEF ScheduleSocket, HostKnown
    <2> QED BY <1>1, <2>1, <2>2, RetryKept
<1>3. CASE sid \notin OfKind(n, "connected")
    BY <1>1, <1>3 DEF ScheduleSocket, Shapes, HostKnown
<1> QED BY <1>2, <1>3

\* A dead connection that the pool of writers or of readers meets, whether or not the
\* other has met it in this step.
LEMMA DisconnectedStands ==
    ASSUME Standing, NEW n \in Nodes, NEW sid, NEW pool,
           NEW p \in Listening .. Reading, At(n, p), Disconnected(n, pool, sid)
    PROVE  Standing'
<1>1. /\ Shapes /\ ConnsFit /\ NodeStands(n) /\ HostKnown(n)
      /\ SocketsKnown(n) /\ KeysSettled(n) /\ ~failed[n]
    BY DEF Standing, NodeStands, At
<1>2. /\ served' = [served EXCEPT ![n] = @ \cup {<<pool, sid>>}]
      /\ ~ConnOf(n, sid).live
      /\ polled' = [polled EXCEPT ![n] = @ \ {<<pool, sid>>}]
      /\ ScheduleSocket(n, sid)
      /\ conns' = conns /\ socks' = socks /\ cache' = cache /\ rejected' = rejected
      /\ hosts' = hosts
    BY DEF Disconnected, Meet
<1>3. p \in Listening .. Timers /\ p # Timers
    BY DEF Listening, Reading, Timers
<1>4. /\ phase' \in [Nodes -> Listening .. Timers] /\ phase[n] # Timers
      /\ \A m \in Nodes : m # n => phase'[m] = phase[m]
    <2>1. /\ phase' \in [Nodes -> Listening .. Timers] /\ phase[n] <= p
          /\ \A m \in Nodes : m # n => phase'[m] = phase[m]
        BY <1>1, <1>3, AtPhase
    <2> QED BY <2>1 DEF Listening, Reading, Timers
<1>5. /\ DestroyChannel(n, sid)
      /\ retry' \in [Nodes -> [attempts : Nat, deferred : Nat]]
      /\ \A m \in Nodes : m # n => retry'[m] = retry[m]
      /\ retry'[n].deferred > 0 => hosts[n]
    BY <1>1, <1>2, SocketScheduled
<1>6. ConnsFit' /\ ConnsGoOn
    BY <1>1, <1>2 DEF ConnsFit, ConnsGoOn
<1>7. sid \in Pooled(n) => ~Pending(n, sid)'
    <2>1. ASSUME sid \in Pooled(n) PROVE ConnOf(n, sid).packet = "none"
        <3>1. sid \in DOMAIN socks[n]
            BY <2>1 DEF Pooled, OfKind
        <3>2. socks[n][sid].conn \in DOMAIN conns
            BY <1>1, <2>1, <3>1, KnownSocket
        <3> QED BY <1>1, <1>2, <3>2 DEF ConnsFit, ConnOf
    <2> QED BY <1>2, <2>1 DEF Pending, ConnOf
<1>8. cache[n] \ {sid} \subseteq cache'[n] /\ cache'[n] \subseteq cache[n]
    BY <1>2
<1>9. NodeStands(n)'
    BY <1>1, <1>2, <1>4, <1>5, <1>6, <1>7, <1>8, DestroyedStands
<1>10. /\ DOMAIN channels' = Nodes /\ DOMAIN closing' = Nodes
       /\ told' \in [Nodes -> BOOLEAN] /\ failed' = failed
       /\ \A m \in Nodes : m # n => /\ channels'[m] = channels[m] /\ closing'[m] = closing[m]
                                    /\ told'[m] = told[m]
    BY <1>1, <1>5, WhatIsDestroyed
<1>11. Shapes'
    BY <1>1, <1>2, <1>4, <1>5, <1>10 DEF Shapes
<1>12. \A m \in Nodes : m # n => NodeSame(m)
    BY <1>1, <1>2, <1>4, <1>5, <1>10 DEF NodeSame, Shapes
<1> QED BY <1>6, <1>9, <1>11, <1>12, OneStands

\* A handshake that takes too long: its response may still come before the socket is closed.
LEMMA ExpiryStands ==
    ASSUME Standing, NEW n \in Nodes, NEW sid, HandshakeExpires(n, sid)
    PROVE  Standing'
<1>1. /\ Shapes /\ ConnsFit /\ NodeStands(n) /\ HostKnown(n)
      /\ SocketsKnown(n) /\ KeysSettled(n) /\ ResponseAwaited(n)
    BY DEF Standing, NodeStands
<1>2. /\ At(n, Timers) /\ ~failed[n] /\ sid \in cache[n]
      /\ cache' = [cache EXCEPT ![n] = @ \ {sid}]
      /\ ScheduleSocket(n, sid)
      /\ conns' = conns /\ socks' = socks /\ polled' = polled /\ served' = served
      /\ rejected' = rejected /\ hosts' = hosts
    BY DEF HandshakeExpires, At, pools
<1>3. /\ phase' \in [Nodes -> Listening .. Timers] /\ phase'[n] = Timers
      /\ \A m \in Nodes : m # n => phase'[m] = phase[m]
    BY <1>1, <1>2, AtPhase DEF Listening, Timers
<1>4. /\ DestroyChannel(n, sid)
      /\ retry' \in [Nodes -> [attempts : Nat, deferred : Nat]]
      /\ \A m \in Nodes : m # n => retry'[m] = retry[m]
      /\ retry'[n].deferred > 0 => hosts[n]
    BY <1>1, <1>2, SocketScheduled
<1>5. ConnsFit' /\ ConnsGoOn
    BY <1>1, <1>2 DEF ConnsFit, ConnsGoOn
<1>6. cache'[n] = cache[n] \ {sid} /\ \A m \in Nodes : m # n => cache'[m] = cache[m]
    BY <1>1, <1>2 DEF Shapes
<1>7. sid \in OfKind(n, "connected") /\ phase'[n] = Timers
    BY <1>1, <1>2, <1>3 DEF ResponseAwaited
<1>8. NodeStands(n)'
    BY <1>1, <1>2, <1>3, <1>4, <1>5, <1>6, <1>7, DestroyedStands
<1>9. /\ DOMAIN channels' = Nodes /\ DOMAIN closing' = Nodes
      /\ told' \in [Nodes -> BOOLEAN] /\ failed' = failed
      /\ \A m \in Nodes : m # n => /\ channels'[m] = channels[m] /\ closing'[m] = closing[m]
                                   /\ told'[m] = told[m]
    BY <1>1, <1>2, <1>4, WhatIsDestroyed
<1>10. Shapes'
    BY <1>1, <1>2, <1>3, <1>4, <1>9 DEF Shapes
<1>11. \A m \in Nodes : m # n => NodeSame(m)
    BY <1>2, <1>3, <1>4, <1>6, <1>9 DEF NodeSame
<1> QED BY <1>5, <1>8, <1>10, <1>11, OneStands

\* A handshake is over: the channel is inserted, or refused and there is none.
LEMMA CompletedStands ==
    ASSUME Shapes, NEW n \in Nodes, NodeStands(n), ~failed[n], NEW sid \in Pooled(n),
           sid \notin closing[n], Completed(n, sid), ConnsGoOn,
           socks' = socks, closing'[n] = closing[n], hosts'[n] = hosts[n],
           retry'[n] = retry[n], failed'[n] = failed[n], ~Pending(n, sid)',
           cache[n] \ {sid} \subseteq cache'[n], cache'[n] \subseteq cache[n],
           phase[n] = Timers => phase'[n] = Timers
    PROVE  /\ NodeStands(n)'
           /\ DOMAIN channels' = Nodes
           /\ told' \in [Nodes -> BOOLEAN] /\ rejected' \in [Nodes -> BOOLEAN]
           /\ \A m \in Nodes : m # n => /\ channels'[m] = channels[m] /\ told'[m] = told[m]
                                        /\ rejected'[m] = rejected[m]
<1>1. /\ SocketsKnown(n) /\ KeysSettled(n) /\ ClosingAnswered(n) /\ ResponseAwaited(n)
      /\ HostKnown(n)
    BY DEF NodeStands
<1>2. PICK old, ok : old = channels[n] /\ ok = CanInsertChannel(old, sid)
    OBVIOUS
<1>3. ok \in BOOLEAN
    BY <1>2 DEF CanInsertChannel
<1>4. PICK new \in InsertChannel(old, sid) : channels' = [channels EXCEPT ![n] = new]
    BY <1>2 DEF Completed
<1>5. /\ told' = [told EXCEPT ![n] = @ \/ ok]
      /\ rejected' = [rejected EXCEPT ![n] = @ \/ ~ok]
    BY <1>2 DEF Completed
<1>6. /\ DOMAIN channels' = Nodes /\ channels'[n] = new
      /\ told' \in [Nodes -> BOOLEAN] /\ told'[n] = (told[n] \/ ok)
      /\ rejected' \in [Nodes -> BOOLEAN] /\ rejected'[n] = (rejected[n] \/ ~ok)
      /\ \A m \in Nodes : m # n => /\ channels'[m] = channels[m] /\ told'[m] = told[m]
                                   /\ rejected'[m] = rejected[m]
    BY <1>3, <1>4, <1>5 DEF Shapes
<1>7. sid \in DOMAIN socks[n] /\ sid # NoSid
    BY <1>1, KnownSocket DEF Pooled, OfKind
<1>8. /\ MapsAgree(new)
      /\ ok => new.readers.first = sid
      /\ ~ok => new.readers.first = NoSid
      /\ \A k : HasChannel(new, k) => HasChannel(old, k) \/ k = sid
      /\ \A k : HasChannel(old, k) /\ k \notin {NoSid, sid, old.readers.first} => HasChannel(new, k)
    <2>1. MapsAgree(old)
        BY <1>1, <1>2 DEF KeysSettled
    <2> QED BY <1>2, <1>4, <1>7, <2>1, ChannelInserted
<1>9. FirstKey(n) = old.readers.first /\ FirstKey(n)' = new.readers.first
    BY <1>2, <1>6 DEF FirstKey
<1>10. /\ Pooled(n)' = Pooled(n) /\ OfKind(n, "connected")' = OfKind(n, "connected")
       /\ OfKind(n, "connecting")' = OfKind(n, "connecting")
       /\ OfKind(n, "connected") \subseteq Pooled(n)
    BY SocksSame DEF Pooled
<1>11. ASSUME NEW s \in Pooled(n), Pending(n, s)' PROVE Pending(n, s)
    <2>1. s \in DOMAIN socks'[n] /\ socks'[n][s] = socks[n][s]
        BY DEF Pooled, OfKind
    <2> QED BY <1>1, <1>11, <2>1, PendingBefore
<1>12. Settled(n, sid)'
    BY <1>10 DEF Settled
<1>13. ASSUME NEW s, Settled(n, s) PROVE Settled(n, s)'
    BY <1>10, <1>11, <1>13 DEF Settled
<1>14. KeysSettled(n)'
    <2>1. MapsAgree(channels'[n])
        BY <1>6, <1>8
    <2>2. FirstKey(n)' # NoSid => told'[n] /\ Settled(n, FirstKey(n))'
        <3>1. SUFFICES ASSUME FirstKey(n)' # NoSid PROVE told'[n] /\ Settled(n, FirstKey(n))'
            OBVIOUS
        <3>2. ok /\ FirstKey(n)' = sid
            BY <1>8, <1>9, <3>1
        <3> QED BY <1>6, <1>12, <3>2 DEF Settled
    <2>3. told'[n] /\ ~rejected'[n] => FirstKey(n)' # NoSid
        BY <1>3, <1>6, <1>7, <1>8, <1>9
    <2>4. ASSUME "other" \notin FreedReads, NEW k, HasChannel(channels'[n], k) PROVE Settled(n, k)'
        <3>1. HasChannel(old, k) \/ k = sid
            BY <1>6, <1>8, <2>4
        <3>2. HasChannel(old, k) => Settled(n, k)
            BY <1>1, <1>2, <2>4 DEF KeysSettled
        <3> QED BY <1>12, <1>13, <3>1, <3>2
    <2> QED BY <2>1, <2>2, <2>3, <2>4 DEF KeysSettled
<1>15. ClosingAnswered(n)'
    BY <1>1, <1>10, <1>11 DEF ClosingAnswered
<1>16. ResponseAwaited(n)'
    <2>1. ASSUME NEW s \in OfKind(n, "connected"), Pending(n, s)'
          PROVE  s \in cache'[n] \/ s \in closing'[n] \/ Stale(n, s)'
        <3>1. Pending(n, s) /\ s # sid /\ s # NoSid
            BY <1>1, <1>10, <1>11, <2>1, KnownSocket DEF OfKind
        <3>2. s \in cache[n] \/ s \in closing[n] \/ Stale(n, s)
            BY <1>1, <3>1 DEF ResponseAwaited
        <3>3. Stale(n, s) => Stale(n, s)'
            BY <1>2, <1>3, <1>6, <1>8, <1>9, <3>1 DEF Stale
        <3> QED BY <3>1, <3>2, <3>3
    <2>2. cache'[n] \subseteq OfKind(n, "connected")
        BY <1>1 DEF ResponseAwaited
    <2> QED BY <1>10, <2>1, <2>2 DEF ResponseAwaited
<1>17. SocketsKnown(n)'
    <2>1. ASSUME NEW s \in DOMAIN socks[n] PROVE SocketFits(n, s)'
        <3>1. SocketFits(n, s)
            BY <1>1 DEF SocketsKnown
        <3> QED BY <3>1 DEF SocketFits, ConnOf, ConnsGoOn
    <2> QED BY <1>1, <2>1 DEF SocketsKnown
<1>18. HostKnown(n)' /\ CauseKnown(n)'
    BY <1>1, <1>10 DEF HostKnown, CauseKnown
<1> QED BY <1>6, <1>14, <1>15, <1>16, <1>17, <1>18 DEF NodeStands

\* A socket whose packet is read was not to be closed, and waits for none any more.
LEMMA PacketProcessed ==
    ASSUME Shapes, ConnsFit, NEW n \in Nodes, NodeStands(n), At(n, Reading), NEW sid,
           NEW packet, NEW reply,
           \/ packet = "request" /\ reply = "response" /\ sid \in OfKind(n, "accepted")
           \/ packet = "response" /\ reply = "none" /\ sid \in OfKind(n, "connected"),
           ReadPacket(n, sid, packet, reply), socks' = socks
    PROVE  /\ sid \in Pooled(n) /\ sid \notin closing[n] /\ Pending(n, sid) /\ ~Pending(n, sid)'
           /\ ~failed[n] /\ phase[n] # Timers
           /\ ConnsFit' /\ ConnsGoOn
           /\ phase' \in [Nodes -> Listening .. Timers]
           /\ DOMAIN served' = Nodes
           /\ \A m \in Nodes : m # n => phase'[m] = phase[m] /\ served'[m] = served[m]
<1>1. SocketsKnown(n) /\ ClosingAnswered(n) /\ ~failed[n]
    BY DEF NodeStands, At
<1>2. PICK c : c = socks[n][sid].conn
    OBVIOUS
<1>3. /\ conns[c].live /\ conns[c].packet = packet
      /\ conns' = [conns EXCEPT ![c].packet = reply]
      /\ served' = [served EXCEPT ![n] = @ \cup {<<"read", sid>>}]
    BY <1>2 DEF ReadPacket, Meet
<1>4. /\ phase' \in [Nodes -> Listening .. Timers] /\ phase[n] # Timers
      /\ \A m \in Nodes : m # n => phase'[m] = phase[m]
    BY AtPhase DEF Listening, Reading, Timers
<1>5. sid \in DOMAIN socks[n]
    BY DEF OfKind
<1>6. /\ sid \in Pooled(n) /\ c \in DOMAIN conns
      /\ sid \in OfKind(n, "accepted") => conns[c].accepted
      /\ ~(sid \in OfKind(n, "connected") /\ sid \in OfKind(n, "accepted"))
    BY <1>1, <1>2, <1>5, KnownSocket DEF ConnOf
<1>7. Pending(n, sid)
    BY <1>2, <1>3 DEF Pending, ConnOf
<1>8. sid \notin closing[n]
    BY <1>1, <1>4, <1>7 DEF ClosingAnswered
<1>9. ConnsFit' /\ ConnsGoOn /\ conns'[c].packet = reply
    <2>1. /\ reply \in {"none", "response"} /\ conns[c].packet # "none"
          /\ reply = "response" => conns[c].accepted
        BY <1>3, <1>6
    <2> QED BY <1>3, <1>6, <2>1, PacketRead
<1>10. ~Pending(n, sid)'
    <2>1. /\ sid \in OfKind(n, "connected")' <=> sid \in OfKind(n, "connected")
          /\ sid \in OfKind(n, "accepted")' <=> sid \in OfKind(n, "accepted")
          /\ ConnOf(n, sid)'.packet = reply
        BY <1>2, <1>9 DEF OfKind, ConnOf
    <2> QED BY <1>6, <2>1 DEF Pending
<1>11. DOMAIN served' = Nodes /\ \A m \in Nodes : m # n => served'[m] = served[m]
    BY <1>3 DEF Shapes
<1> QED BY <1>1, <1>4, <1>6, <1>7, <1>8, <1>9, <1>10, <1>11

\* A packet that is read, with the map, the cache and the pools left alone.
LEMMA HandshakesAlone ==
    ASSUME NEW n, NodeStands(n), ConnsGoOn, socks' = socks, cache'[n] = cache[n],
           channels' = channels, told' = told, rejected' = rejected, hosts' = hosts,
           retry' = retry, closing' = closing, phase[n] # Timers,
           failed' = failed \/ CauseKnown(n)'
    PROVE  NodeStands(n)'
<1>1. /\ SocketsKnown(n) /\ KeysSettled(n) /\ ClosingAnswered(n) /\ ResponseAwaited(n)
      /\ HostKnown(n) /\ CauseKnown(n)
    BY DEF NodeStands
<1>2. /\ Pooled(n) \subseteq DOMAIN socks[n]
      /\ OfKind(n, "connected") \subseteq Pooled(n)
      /\ OfKind(n, "connected")' = OfKind(n, "connected")
      /\ OfKind(n, "connecting")' = OfKind(n, "connecting")
    BY DEF Pooled, OfKind
<1>3. KeysSettled(n)' /\ ClosingAnswered(n)' /\ ResponseAwaited(n)'
    <2>1. cache'[n] \subseteq OfKind(n, "connected")'
        BY <1>1, <1>2 DEF ResponseAwaited
    <2> QED BY <1>1, <1>2, <2>1, SocketsMove
<1>4. SocketsKnown(n)'
    <2>1. ASSUME NEW s \in DOMAIN socks[n] PROVE SocketFits(n, s)'
        <3>1. SocketFits(n, s)
            BY <1>1 DEF SocketsKnown
        <3> QED BY <3>1 DEF SocketFits, ConnOf, ConnsGoOn
    <2> QED BY <1>1, <2>1 DEF SocketsKnown
<1>5. HostKnown(n)'
    BY <1>1, <1>2 DEF HostKnown
<1>6. CauseKnown(n)'
    <2>1. CASE failed' = failed
        BY <1>1, <2>1, CauseStays
    <2>2. CASE CauseKnown(n)'
        BY <2>2
    <2> QED BY <2>1, <2>2
<1> QED BY <1>3, <1>4, <1>5, <1>6 DEF NodeStands

\* A request that is answered; the channel is inserted, or refused, where it is kept.
LEMMA RequestStands ==
    ASSUME Standing, NEW n \in Nodes, NEW sid, ProcessRequest(n, sid)
    PROVE  Standing'
<1>1. /\ Shapes /\ ConnsFit /\ NodeStands(n)
      /\ SocketsKnown(n) /\ KeysSettled(n) /\ ClosingAnswered(n) /\ ResponseAwaited(n)
    BY DEF Standing, NodeStands
<1>2. /\ At(n, Reading) /\ sid \in OfKind(n, "accepted")
      /\ ReadPacket(n, sid, "request", "response")
      /\ \/ Completed(n, sid)
         \/ channels' = channels /\ told' = told /\ rejected' = rejected
      /\ socks' = socks /\ polled' = polled /\ cache' = cache /\ hosts' = hosts
      /\ retry' = retry /\ closing' = closing /\ failed' = failed
    BY DEF ProcessRequest
<1>3. /\ sid \in Pooled(n) /\ sid \notin closing[n] /\ ~Pending(n, sid)'
      /\ ~failed[n] /\ phase[n] # Timers
      /\ ConnsFit' /\ ConnsGoOn
      /\ phase' \in [Nodes -> Listening .. Timers]
      /\ DOMAIN served' = Nodes
      /\ \A m \in Nodes : m # n => phase'[m] = phase[m] /\ served'[m] = served[m]
    BY <1>1, <1>2, PacketProcessed
<1>4. /\ NodeStands(n)'
      /\ DOMAIN channels' = Nodes
      /\ told' \in [Nodes -> BOOLEAN] /\ rejected' \in [Nodes -> BOOLEAN]
      /\ \A m \in Nodes : m # n => /\ channels'[m] = channels[m] /\ told'[m] = told[m]
                                   /\ rejected'[m] = rejected[m]
    <2>1. CASE Completed(n, sid)
        BY <1>1, <1>2, <1>3, <2>1, CompletedStands
    <2>2. CASE channels' = channels /\ told' = told /\ rejected' = rejected
        <3>1. NodeStands(n)'
            BY <1>1, <1>2, <1>3, <2>2, HandshakesAlone
        <3> QED BY <1>1, <2>2, <3>1 DEF Shapes
    <2> QED BY <1>2, <2>1, <2>2
<1>5. Shapes'
    BY <1>1, <1>2, <1>3, <1>4 DEF Shapes
<1>6. \A m \in Nodes : m # n => NodeSame(m)
    BY <1>2, <1>3, <1>4 DEF NodeSame
<1> QED BY <1>3, <1>4, <1>5, <1>6, OneStands

\* A response that finishes the handshake.  Where it is not waited for, the number of the
\* socket is a stale key.
LEMMA ResponseStands ==
    ASSUME Standing, NEW n \in Nodes, NEW sid, ProcessResponse(n, sid)
    PROVE  Standing'
<1>1. /\ Shapes /\ ConnsFit /\ NodeStands(n) /\ HostKnown(n)
      /\ SocketsKnown(n) /\ KeysSettled(n) /\ ClosingAnswered(n) /\ ResponseAwaited(n)
    BY DEF Standing, NodeStands
<1>2. /\ At(n, Reading) /\ sid \in OfKind(n, "connected")
      /\ ReadPacket(n, sid, "response", "none")
      /\ cache' = [cache EXCEPT ![n] = @ \ {sid}]
      /\ socks' = socks /\ polled' = polled /\ hosts' = hosts /\ retry' = retry
    BY DEF ProcessResponse
<1>3. \/ /\ sid \notin cache[n] /\ failed' = [failed EXCEPT ![n] = TRUE]
         /\ channels' = channels /\ told' = told /\ rejected' = rejected /\ closing' = closing
      \/ Completed(n, sid) /\ closing' = closing /\ failed' = failed
      \/ DestroyChannel(n, sid) /\ rejected' = rejected
    BY DEF ProcessResponse
<1>4. /\ sid \in Pooled(n) /\ sid \notin closing[n] /\ Pending(n, sid) /\ ~Pending(n, sid)'
      /\ ~failed[n] /\ phase[n] # Timers
      /\ ConnsFit' /\ ConnsGoOn
      /\ phase' \in [Nodes -> Listening .. Timers]
      /\ DOMAIN served' = Nodes
      /\ \A m \in Nodes : m # n => phase'[m] = phase[m] /\ served'[m] = served[m]
    BY <1>1, <1>2, PacketProcessed
<1>5. /\ DOMAIN cache' = Nodes /\ cache'[n] = cache[n] \ {sid}
      /\ \A m \in Nodes : m # n => cache'[m] = cache[m]
    BY <1>1, <1>2 DEF Shapes
<1>6. /\ NodeStands(n)'
      /\ DOMAIN channels' = Nodes /\ DOMAIN closing' = Nodes
      /\ told' \in [Nodes -> BOOLEAN] /\ rejected' \in [Nodes -> BOOLEAN]
      /\ failed' \in [Nodes -> BOOLEAN]
      /\ \A m \in Nodes : m # n => /\ channels'[m] = channels[m] /\ told'[m] = told[m]
                                   /\ rejected'[m] = rejected[m] /\ closing'[m] = closing[m]
                                   /\ failed'[m] = failed[m]
    <2>1. CASE /\ sid \notin cache[n] /\ failed' = [failed EXCEPT ![n] = TRUE]
               /\ channels' = channels /\ told' = told /\ rejected' = rejected /\ closing' = closing
        <3>1. Stale(n, sid)
            BY <1>1, <1>2, <1>4, <2>1 DEF ResponseAwaited
        <3>2. sid \in StaleKeys(n)'
            BY <1>2, <2>1, <3>1 DEF StaleKeys, Stale, FirstKey, OfKind
        <3>3. "other" \in FreedReads
            BY <1>1, <1>4, <3>1 DEF KeysSettled, Stale, Settled
        <3>4. CauseKnown(n)'
            BY <3>2, <3>3 DEF CauseKnown
        <3>5. cache'[n] = cache[n]
            BY <1>5, <2>1
        <3>6. NodeStands(n)'
            BY <1>1, <1>2, <1>4, <2>1, <3>4, <3>5, HandshakesAlone
        <3> QED BY <1>1, <2>1, <3>6 DEF Shapes
    <2>2. CASE Completed(n, sid) /\ closing' = closing /\ failed' = failed
        <3>1. /\ NodeStands(n)'
              /\ DOMAIN channels' = Nodes
              /\ told' \in [Nodes -> BOOLEAN] /\ rejected' \in [Nodes -> BOOLEAN]
              /\ \A m \in Nodes : m # n => /\ channels'[m] = channels[m] /\ told'[m] = told[m]
                                           /\ rejected'[m] = rejected[m]
            BY <1>1, <1>2, <1>4, <1>5, <2>2, CompletedStands
        <3> QED BY <1>1, <2>2, <3>1 DEF Shapes
    <2>3. CASE DestroyChannel(n, sid) /\ rejected' = rejected
        <3>1. NodeStands(n)'
            BY <1>1, <1>2, <1>4, <1>5, <2>3, DestroyedStands DEF HostKnown
        <3>2. /\ DOMAIN channels' = Nodes /\ DOMAIN closing' = Nodes
              /\ told' \in [Nodes -> BOOLEAN] /\ failed' = failed
              /\ \A m \in Nodes : m # n => /\ channels'[m] = channels[m] /\ closing'[m] = closing[m]
                                           /\ told'[m] = told[m]
            BY <1>1, <1>4, <2>3, WhatIsDestroyed
        <3> QED BY <1>1, <2>3, <3>1, <3>2 DEF Shapes
    <2> QED BY <1>3, <2>1, <2>2, <2>3
<1>7. Shapes'
    BY <1>1, <1>2, <1>4, <1>5, <1>6 DEF Shapes
<1>8. \A m \in Nodes : m # n => NodeSame(m)
    BY <1>2, <1>4, <1>5, <1>6 DEF NodeSame
<1> QED BY <1>4, <1>6, <1>7, <1>8, OneStands

\* Every step keeps the invariant.
LEMMA StepStands ==
    ASSUME Standing, [Next]_vars
    PROVE  Standing'
<1>1. ASSUME NEW n \in Nodes, ConnectPeer(n) \/ Reconnect(n) \/ EndStep(n) PROVE Standing'
    BY <1>1, ConnectPeerStands, ReconnectStands, EndStepStands
<1>2. ASSUME NEW n \in Nodes, NEW c \in DOMAIN conns, Accept(n, c) PROVE Standing'
    BY <1>2, AcceptStands
<1>3. ASSUME NEW n \in Nodes, NEW sid, Connected(n, sid) \/ HandshakeExpires(n, sid)
      PROVE  Standing'
    BY <1>3, ConnectedStands, ExpiryStands
<1>4. ASSUME NEW n \in Nodes, NEW sid, Refused(n, sid) \/ ConnectFails(n, sid) PROVE Standing'
    BY <1>4, RefusedStands, ConnectFailsStands
<1>5. ASSUME NEW n \in Nodes, NEW sid, ProcessRequest(n, sid) \/ ProcessResponse(n, sid)
      PROVE  Standing'
    BY <1>5, RequestStands, ResponseStands
<1>6. ASSUME NEW n \in Nodes, NEW sid, WriterFails(n, sid) PROVE Standing'
    <2>1. Writing \in Listening .. Reading /\ At(n, Writing) /\ Disconnected(n, "write", sid)
        BY <1>6 DEF WriterFails, Listening, Writing, Reading
    <2> QED BY <2>1, DisconnectedStands
<1>7. ASSUME NEW n \in Nodes, NEW sid, ReaderDisconnected(n, sid) PROVE Standing'
    <2>1. Reading \in Listening .. Reading /\ At(n, Reading) /\ Disconnected(n, "read", sid)
        BY <1>7 DEF ReaderDisconnected, Listening, Reading
    <2> QED BY <2>1, DisconnectedStands
<1>8. ASSUME NEW c \in DOMAIN conns, Break(c) PROVE Standing'
    BY <1>8, BreakStands
<1>9. CASE UNCHANGED vars
    <2>1. \A m \in Nodes : NodeSame(m)
        BY <1>9 DEF vars, pools, handshakes, NodeSame
    <2>2. Shapes /\ ConnsFit /\ \A m \in Nodes : NodeStands(m)
        BY DEF Standing
    <2>3. Shapes' /\ ConnsFit' /\ ConnsGoOn
        BY <1>9, <2>2 DEF vars, pools, handshakes, Shapes, ConnsFit, ConnsGoOn
    <2>4. \A m \in Nodes : NodeStands(m)'
        BY <2>1, <2>2, <2>3, SameStands
    <2> QED BY <2>3, <2>4 DEF Standing
<1>10. ASSUME NEW n \in Nodes, Works(n) PROVE Standing'
    BY <1>1, <1>2, <1>3, <1>5, <1>6, <1>7, <1>10 DEF Works
<1>11. ASSUME NEW n \in Nodes, Suffers(n) PROVE Standing'
    BY <1>3, <1>4, <1>11 DEF Suffers
<1> QED BY <1>8, <1>9, <1>10, <1>11 DEF Next

\* No connection, no socket and no channel.
LEMMA InitStands == Init => Standing
<1> SUFFICES ASSUME Init PROVE Standing
    OBVIOUS
<1>1. Shapes /\ ConnsFit
    BY InitFits DEF PeerInvariant
<1>2. ASSUME NEW n \in Nodes PROVE NodeStands(n)
    <2>1. /\ DOMAIN socks[n] = {} /\ cache[n] = {} /\ closing[n] = {} /\ channels[n] = EmptyMap
          /\ ~hosts[n] /\ ~told[n] /\ ~failed[n] /\ retry[n].deferred = 0
        BY DEF Init
    <2>2. OfKind(n, "connecting") = {} /\ OfKind(n, "connected") = {} /\ Pooled(n) = {}
        BY <2>1 DEF OfKind, Pooled
    <2>3. /\ EmptyMap.readers.first = NoSid /\ EmptyMap.writers.first = NoSid
          /\ \A k : ~HasChannel(EmptyMap, k)
        BY DEF EmptyMap, EmptyBimap, HasChannel
    <2>4. KeysSettled(n)
        BY <2>1, <2>3 DEF KeysSettled, MapsAgree, FirstKey
    <2>5. SocketsKnown(n)
        BY <2>1, FS_EmptySet DEF SocketsKnown
    <2>6. ClosingAnswered(n) /\ ResponseAwaited(n)
        BY <2>1, <2>2 DEF ClosingAnswered, ResponseAwaited
    <2>7. HostKnown(n) /\ CauseKnown(n)
        BY <2>1, <2>2 DEF HostKnown, CauseKnown
    <2> QED BY <2>4, <2>5, <2>6, <2>7 DEF NodeStands
<1> QED BY <1>1, <1>2 DEF Standing

\* The invariant holds in every state, with nothing assumed but the types of the constants.
THEOREM AlwaysStanding == Spec => []Standing
<1>1. Standing /\ [Next]_vars => Standing'
    BY StepStands
<1> QED BY <1>1, InitStands, PTL DEF Spec

\* Of a channel there is the application has been told, and its socket is open and is not
\* about to be closed; what it was told of is there unless a second channel has been
\* refused (channel_map.hpp:64, :110, peer.hpp:828).
THEOREM ToldOfWhatThereIs == Spec => []ToldUntilRefused
<1>1. ASSUME Standing, NEW n \in Nodes
      PROVE  /\ IsOpen(channels[n]) =>
                    told[n] /\ channels[n].readers.first \in Pooled(n) \ closing[n]
             /\ told[n] /\ ~rejected[n] => IsOpen(channels[n])
    <2>1. KeysSettled(n)
        BY <1>1 DEF Standing, NodeStands
    <2>2. IsOpen(channels[n]) <=> FirstKey(n) # NoSid
        BY <2>1 DEF KeysSettled, MapsAgree, IsOpen, FirstKey
    <2> QED BY <2>1, <2>2 DEF KeysSettled, FirstKey, Settled
<1>2. Standing => ToldUntilRefused
    BY <1>1 DEF ToldUntilRefused
<1> QED BY <1>2, AlwaysStanding, PTL

\* An assertion throws for two reasons only: an immediate refusal of the first attempt to
\* connect, or a stale key of the channel map, which is left only where a freed entry reads
\* otherwise (peer.hpp:649, :874, single_link_handshake.hpp:72, unordered_bimap.hpp:73).
THEOREM CausesAreTwo == Spec => []ThrowsFromTwoCauses
<1>1. Standing => ThrowsFromTwoCauses
    BY DEF Standing, NodeStands, CauseKnown, ThrowsFromTwoCauses
<1> QED BY <1>1, AlwaysStanding, PTL
=============================================================================
