-------------------------------- MODULE Peer --------------------------------
(***************************************************************************)
(* Two peers (peer.hpp) that connect, shake hands (basic_handshake.hpp,    *)
(* single_link_handshake.hpp), keep a channel (channel_map.hpp), lose it   *)
(* and reconnect (reconnection_policy.hpp, connecting_pool.hpp).           *)
(*                                                                         *)
(* peer::step visits the pools in a fixed order and closes sockets at its  *)
(* end; the events of one step are actions of their own, in that order.    *)
(***************************************************************************)
EXTENDS ChannelMap, Sequences, FiniteSets, Functions, FiniteSetsExt

CONSTANTS
    Nodes,
    Id,             \* the node IDs, which all differ
    Connectors,     \* the nodes whose application calls connect
    BehindNat,      \* the connectors that ask for a handshake behind NAT
    Gateways,
    AttemptLimit,   \* attempts in a row after which an ordinary node gives up
    FirstOutcomes,  \* what the system answers to the first connect call
    LaterOutcomes,  \* what it answers to the later ones
    OncePerStep,    \* whether a socket has at most one failure in a step, of its
                    \* writer, its reader and its handshake timer
    InOrder,        \* whether a node hears of the end of a connection before it
                    \* reads from the next one
    MaxConnections, MaxBreaks, MaxRefusals, MaxFailures, MaxExpirations  \* bounds

ASSUME PeerAssumption ==
    /\ IsFiniteSet(Nodes) /\ Cardinality(Nodes) = 2
    /\ Id \in [Nodes -> Nat] /\ IsInjective(Id)
    /\ BehindNat \subseteq Connectors /\ Connectors \subseteq Nodes
    /\ Gateways \subseteq Nodes
    /\ (FirstOutcomes \cup LaterOutcomes) \subseteq {"connecting", "unreachable", "failure"}
    /\ {OncePerStep, InOrder} \subseteq BOOLEAN
    /\ {AttemptLimit, MaxConnections, MaxBreaks, MaxRefusals, MaxFailures,
            MaxExpirations} \subseteq Nat

Other(n) == CHOOSE m \in Nodes : m # n

VARIABLES
    conns,      \* the connections there were, with the handshake packet on its way
    socks,      \* socks[n]: the sockets of n in the socket and connecting pools
    polled,     \* the sockets in the reader and in the writer pool
    served,     \* those the reader or the writer has met in this step
    cache,      \* _handshake_controller._cache
    channels,   \* _channels, for the other node
    hosts,      \* whether the other node is in _hosts_cache
    retry,      \* the policy's attempts (0: no policy) and the deferred connections
    closing,    \* _deferred_actions: the sockets to close at the end of the step
    phase,      \* how far the current step is
    told,       \* history: the application was told of a channel, and not of its loss
    rejected,   \* history: a channel was refused by the channel map
    failed,     \* history: an assertion has thrown
    breaks, refusals, failures, expirations

pools == <<socks, polled, served>>
handshakes == <<cache, channels, told, rejected>>
bounds == <<breaks, refusals, failures, expirations>>
vars == <<conns, pools, handshakes, hosts, retry, closing, phase, failed, bounds>>

-----------------------------------------------------------------------------
(* Sockets and steps.                                                      *)

Listening == 1
Connecting == 2
Writing == 3
Reading == 4
Timers == 5

\* n gets on with its step to the given phase.
At(n, p) ==
    /\ ~failed[n] /\ phase[n] <= p
    /\ phase' = [phase EXCEPT ![n] = p]

\* The system gives out the lowest free number, closed ones again.
FreeSid(n) == Min((1 .. Cardinality(DOMAIN socks[n]) + 1) \ DOMAIN socks[n])

AddSocket(n, sid, conn, kind) ==
    socks' = [socks EXCEPT ![n] = [s \in DOMAIN @ \cup {sid} |->
                                       IF s = sid THEN [conn |-> conn, kind |-> kind] ELSE @[s]]]

RemoveSockets(n, sids) == socks' = [socks EXCEPT ![n] = Restrict(@, DOMAIN @ \ sids)]

OfKind(n, kind) == {s \in DOMAIN socks[n] : socks[n][s].kind = kind}

Pooled(n) == OfKind(n, "connected") \cup OfKind(n, "accepted")

ConnOf(n, sid) == conns[socks[n][sid].conn]

Poll(n, sid) == polled' = [polled EXCEPT ![n] = @ \cup {<<"read", sid>>, <<"write", sid>>}]

\* A pool meets a socket once in a step.
Meet(n, pool, sid) ==
    /\ <<pool, sid>> \in polled[n] \ served[n]
    /\ served' = [served EXCEPT ![n] = @ \cup {<<pool, sid>>}]

-----------------------------------------------------------------------------
(* Channels and reconnection.                                              *)

\* mutant
DestroySocketOnly(n, sid) ==
    /\ closing' = [closing EXCEPT ![n] = @ \cup ({sid} \cap Pooled(n))]
    /\ UNCHANGED <<channels, told, failed>>

\* destroy_channel of a socket: of the channel it belongs to, or of itself.
DestroyChannel(n, sid) ==
    LET ch == channels[n]
    IN  IF HasChannel(ch, sid)
        THEN /\ \E rest \in CloseChannel(ch) : channels' = [channels EXCEPT ![n] = rest]
             /\ closing' = [closing EXCEPT ![n] = @ \cup (ClosedSockets(ch) \cap Pooled(n))]
             /\ told' = [told EXCEPT ![n] = @ /\ ~IsOpen(ch)]
             /\ failed' = [failed EXCEPT ![n] = IsBroken(ch)]
        ELSE /\ closing' = [closing EXCEPT ![n] = @ \cup ({sid} \cap Pooled(n))]
             /\ UNCHANGED <<channels, told, failed>>

Required(n, r) == n \in Gateways \/ r.attempts <= AttemptLimit

\* schedule_reconnection of a host, when it is cached.
Scheduled(n, r) ==
    IF r.attempts = 0 \/ Required(n, r)
    THEN [attempts |-> r.attempts + 1, deferred |-> r.deferred + 1]
    ELSE [r EXCEPT !.attempts = 0]

ScheduleHost(n) ==
    /\ retry' = IF hosts[n] THEN [retry EXCEPT ![n] = Scheduled(n, @)] ELSE retry
    /\ failed' = [failed EXCEPT ![n] = ~hosts[n]]

\* mutant
ScheduleAccepted(n, sid) ==
    /\ retry' = IF sid \in OfKind(n, "accepted")
                THEN [retry EXCEPT ![n] = Scheduled(n, @)]
                ELSE retry
    /\ DestroyChannel(n, sid)

\* mutant
ScheduleWithoutClosing(n, sid) ==
    /\ retry' = IF sid \in OfKind(n, "connected")
                THEN [retry EXCEPT ![n] = Scheduled(n, @)]
                ELSE retry
    /\ UNCHANGED <<channels, closing, told, failed>>

\* schedule_reconnection of a socket: only a connected one is connected again.
ScheduleSocket(n, sid) ==
    /\ retry' = IF sid \in OfKind(n, "connected")
                THEN [retry EXCEPT ![n] = Scheduled(n, @)]
                ELSE retry
    /\ DestroyChannel(n, sid)

\* The outcome of a connect call, within the bounds.
Outcome(outcome) ==
    /\ refusals' = refusals + IF outcome = "unreachable" THEN 1 ELSE 0
    /\ failures' = failures + IF outcome = "failure" THEN 1 ELSE 0
    /\ refusals' <= MaxRefusals /\ failures' <= MaxFailures

\* peer::connect, called by the application: the host is cached only after the
\* connection was started.
ConnectPeer(n) ==
    /\ n \in Connectors /\ ~hosts[n] /\ ~failed[n]
    /\ \E outcome \in FirstOutcomes :
           /\ Outcome(outcome)
           /\ hosts' = [hosts EXCEPT ![n] = outcome = "connecting"]
           /\ IF outcome = "connecting"
              THEN AddSocket(n, FreeSid(n), 0, "connecting")
              ELSE UNCHANGED socks
           /\ IF outcome = "unreachable" THEN ScheduleHost(n) ELSE UNCHANGED <<retry, failed>>
    /\ UNCHANGED <<conns, polled, served, handshakes, closing, phase, breaks, expirations>>

\* The time of a deferred connection has come; it starts, or fails at once.
Reconnect(n) ==
    /\ At(n, Connecting)
    /\ retry[n].deferred > 0
    /\ \E outcome \in LaterOutcomes :
           /\ Outcome(outcome)
           /\ LET r == [retry[n] EXCEPT !.deferred = @ - 1]
              IN  retry' = [retry EXCEPT ![n] =
                               IF outcome = "unreachable" THEN Scheduled(n, r) ELSE r]
           /\ IF outcome = "connecting"
              THEN AddSocket(n, FreeSid(n), 0, "connecting")
              ELSE UNCHANGED socks
    /\ UNCHANGED <<conns, polled, served, handshakes, hosts, closing, failed, breaks,
                   expirations>>

\* A connection is up: the peer asks for a handshake.
Connected(n, sid) ==
    /\ At(n, Connecting)
    /\ sid \in OfKind(n, "connecting")
    /\ Len(conns) < MaxConnections
    /\ conns' = Append(conns, [client |-> n, live |-> TRUE, accepted |-> FALSE,
                               packet |-> "request"])
    /\ AddSocket(n, sid, Len(conns) + 1, "connected")
    /\ retry' = [retry EXCEPT ![n].attempts = 0]
    /\ cache' = [cache EXCEPT ![n] = @ \cup {sid}]
    /\ Poll(n, sid)
    /\ UNCHANGED <<served, channels, told, rejected, hosts, closing, failed, bounds>>

Refused(n, sid) ==
    /\ At(n, Connecting)
    /\ sid \in OfKind(n, "connecting")
    /\ refusals < MaxRefusals
    /\ refusals' = refusals + 1
    /\ RemoveSockets(n, {sid})
    /\ ScheduleHost(n)
    /\ UNCHANGED <<conns, polled, served, handshakes, hosts, closing, breaks, failures,
                   expirations>>

\* Any other error: it is reported and the socket removed.
ConnectFails(n, sid) ==
    /\ At(n, Connecting)
    /\ sid \in OfKind(n, "connecting")
    /\ failures < MaxFailures
    /\ failures' = failures + 1
    /\ RemoveSockets(n, {sid})
    /\ UNCHANGED <<conns, polled, served, handshakes, hosts, retry, closing, failed, breaks,
                   refusals, expirations>>

Accept(n, c) ==
    /\ At(n, Listening)
    /\ conns[c].client # n /\ ~conns[c].accepted
    /\ conns' = [conns EXCEPT ![c].accepted = TRUE]
    /\ AddSocket(n, FreeSid(n), c, "accepted")
    /\ Poll(n, FreeSid(n))
    /\ UNCHANGED <<served, handshakes, hosts, retry, closing, failed, bounds>>

-----------------------------------------------------------------------------
(* Handshakes.                                                             *)

\* on_completed: the channel is inserted, or refused.
Completed(n, sid) ==
    LET ok == CanInsertChannel(channels[n], sid)
    IN  /\ \E ch \in InsertChannel(channels[n], sid) : channels' = [channels EXCEPT ![n] = ch]
        /\ told' = [told EXCEPT ![n] = @ \/ ok]
        /\ rejected' = [rejected EXCEPT ![n] = @ \/ ~ok]

\* An earlier connection has ended and n has not met its end yet.
EndsUnnoticed(n, sid) ==
    \E s \in Pooled(n) :
        <<"read", s>> \in polled[n] /\ socks[n][s].conn < socks[n][sid].conn /\ ~ConnOf(n, s).live

ReadPacket(n, sid, packet, reply) ==
    LET c == socks[n][sid].conn
    IN  /\ Meet(n, "read", sid)
        /\ conns[c].live /\ conns[c].packet = packet
        /\ conns' = [conns EXCEPT ![c].packet = reply]
        /\ InOrder => ~EndsUnnoticed(n, sid)

\* Which end of an exclusive connection completes, the acceptor or the requester.
\* mutant
AcceptorAlwaysCompletes(n, client) == TRUE

AcceptorCompletes(n, client) == client \in BehindNat \/ Id[n] < Id[client]
RequesterCompletes(n) == n \in BehindNat \/ Id[n] > Id[Other(n)]

ProcessRequest(n, sid) ==
    /\ At(n, Reading)
    /\ sid \in OfKind(n, "accepted")
    /\ ReadPacket(n, sid, "request", "response")
    /\ IF AcceptorCompletes(n, ConnOf(n, sid).client)
       THEN Completed(n, sid)
       ELSE UNCHANGED <<channels, told, rejected>>
    /\ UNCHANGED <<socks, polled, cache, hosts, retry, closing, failed, bounds>>

\* The response finishes the handshake; a connection that is not wanted is closed.
ProcessResponse(n, sid) ==
    /\ At(n, Reading)
    /\ sid \in OfKind(n, "connected")
    /\ ReadPacket(n, sid, "response", "none")
    /\ cache' = [cache EXCEPT ![n] = @ \ {sid}]
    /\ IF sid \notin cache[n]
       THEN /\ failed' = [failed EXCEPT ![n] = TRUE]
            /\ UNCHANGED <<channels, told, rejected, closing>>
       ELSE IF RequesterCompletes(n)
       THEN Completed(n, sid) /\ UNCHANGED <<closing, failed>>
       ELSE DestroyChannel(n, sid) /\ UNCHANGED rejected
    /\ UNCHANGED <<socks, polled, hosts, retry, bounds>>

HandshakeExpires(n, sid) ==
    /\ At(n, Timers)
    /\ sid \in cache[n]
    /\ OncePerStep => sid \notin closing[n]
    /\ expirations < MaxExpirations
    /\ expirations' = expirations + 1
    /\ cache' = [cache EXCEPT ![n] = @ \ {sid}]
    /\ ScheduleSocket(n, sid)
    /\ UNCHANGED <<conns, pools, rejected, hosts, breaks, refusals, failures>>

-----------------------------------------------------------------------------
(* The loss of a connection.                                               *)

Break(c) ==
    /\ conns[c].live
    /\ breaks < MaxBreaks
    /\ breaks' = breaks + 1
    /\ conns' = [conns EXCEPT ![c].live = FALSE, ![c].packet = "none"]
    /\ UNCHANGED <<pools, handshakes, hosts, retry, closing, phase, failed, refusals,
                   failures, expirations>>

\* A pool meets the dead connection, removes the socket from itself and reports.
Disconnected(n, pool, sid) ==
    /\ Meet(n, pool, sid)
    /\ ~ConnOf(n, sid).live
    /\ OncePerStep => sid \notin closing[n]
    /\ polled' = [polled EXCEPT ![n] = @ \ {<<pool, sid>>}]
    /\ ScheduleSocket(n, sid)
    /\ UNCHANGED <<conns, socks, cache, rejected, hosts, bounds>>

WriterFails(n, sid) ==
    /\ At(n, Writing)
    /\ Disconnected(n, "write", sid)

ReaderDisconnected(n, sid) ==
    /\ At(n, Reading)
    /\ Disconnected(n, "read", sid)

\* mutant
EndStepKeepingHandshakes(n) ==
    LET gone == closing[n]
        ended == {socks[n][s].conn : s \in gone}
    IN  /\ ~failed[n] /\ phase[n] # Listening
        /\ phase' = [phase EXCEPT ![n] = Listening]
        /\ served' = [served EXCEPT ![n] = {}]
        /\ closing' = [closing EXCEPT ![n] = {}]
        /\ RemoveSockets(n, gone)
        /\ polled' = [polled EXCEPT ![n] = {e \in @ : e[2] \notin gone}]
        /\ conns' = [c \in DOMAIN conns |->
                        IF c \in ended
                        THEN [conns[c] EXCEPT !.live = FALSE, !.packet = "none"]
                        ELSE conns[c]]
        /\ UNCHANGED <<cache, channels, told, rejected, hosts, retry, failed, bounds>>

\* The deferred actions: the sockets are removed everywhere, and the other end
\* will find the connection ended.
EndStep(n) ==
    LET gone == closing[n]
        ended == {socks[n][s].conn : s \in gone}
    IN  /\ ~failed[n] /\ phase[n] # Listening
        /\ phase' = [phase EXCEPT ![n] = Listening]
        /\ served' = [served EXCEPT ![n] = {}]
        /\ closing' = [closing EXCEPT ![n] = {}]
        /\ RemoveSockets(n, gone)
        /\ cache' = [cache EXCEPT ![n] = @ \ gone]
        /\ polled' = [polled EXCEPT ![n] = {e \in @ : e[2] \notin gone}]
        /\ conns' = [c \in DOMAIN conns |->
                        IF c \in ended
                        THEN [conns[c] EXCEPT !.live = FALSE, !.packet = "none"]
                        ELSE conns[c]]
        /\ UNCHANGED <<channels, told, rejected, hosts, retry, failed, bounds>>

-----------------------------------------------------------------------------

Init ==
    /\ conns = <<>>
    /\ socks = [n \in Nodes |-> <<>>]
    /\ polled = [n \in Nodes |-> {}] /\ served = polled
    /\ cache = [n \in Nodes |-> {}] /\ closing = cache
    /\ channels = [n \in Nodes |-> EmptyMap]
    /\ hosts = [n \in Nodes |-> FALSE]
    /\ retry = [n \in Nodes |-> [attempts |-> 0, deferred |-> 0]]
    /\ phase = [n \in Nodes |-> Listening]
    /\ told = hosts /\ rejected = hosts /\ failed = hosts
    /\ breaks = 0 /\ refusals = 0 /\ failures = 0 /\ expirations = 0

\* What a node does by itself as long as its loop runs.
Works(n) ==
    \/ ConnectPeer(n) \/ Reconnect(n) \/ EndStep(n)
    \/ \E c \in DOMAIN conns : Accept(n, c)
    \/ \E sid \in DOMAIN socks[n] :
           \/ Connected(n, sid)
           \/ ProcessRequest(n, sid) \/ ProcessResponse(n, sid)
           \/ WriterFails(n, sid) \/ ReaderDisconnected(n, sid)

\* What may happen to it.
Suffers(n) ==
    \E sid \in DOMAIN socks[n] :
        Refused(n, sid) \/ ConnectFails(n, sid) \/ HandshakeExpires(n, sid)

Next ==
    \/ \E n \in Nodes : Works(n) \/ Suffers(n)
    \/ \E c \in DOMAIN conns : Break(c)

Spec == Init /\ [][Next]_vars

\* Every node goes on with its steps, each of which visits every pool.  With what
\* may happen bounded there is an end to what a node has to do, so that all of it
\* gets done.
Fairness == \A n \in Nodes : WF_vars(Works(n))

FairSpec == Spec /\ Fairness

-----------------------------------------------------------------------------
(* Properties.                                                             *)

Sids == 1 .. MaxConnections + 1

TypeOK ==
    /\ \A c \in DOMAIN conns :
           conns[c] \in [client : Connectors, live : BOOLEAN, accepted : BOOLEAN,
                         packet : {"none", "request", "response"}]
    /\ \A n \in Nodes :
           /\ DOMAIN socks[n] \subseteq Sids
           /\ \A s \in DOMAIN socks[n] :
                  socks[n][s] \in [conn : 0 .. Len(conns),
                                   kind : {"connecting", "connected", "accepted"}]
           /\ served[n] \cup polled[n] \subseteq {"read", "write"} \X Sids
           /\ cache[n] \cup closing[n] \subseteq Pooled(n)
           /\ retry[n] \in [attempts : Nat, deferred : Nat]
           /\ phase[n] \in Listening .. Timers
    /\ {hosts, told, rejected, failed} \subseteq [Nodes -> BOOLEAN]

\* No assertion of the peer, the handshake or the channel map throws
\* (peer.hpp:874, single_link_handshake.hpp:72, channel_map.hpp:110).
AssertionsHold == \A n \in Nodes : ~failed[n]

\* A socket whose ID the channel map still has as a key of another channel.
StaleKeys(n) ==
    {s \in OfKind(n, "connected") :
        HasChannel(channels[n], s) /\ s # channels[n].readers.first}

\* An assertion throws for two reasons only.  The application connects, is refused at
\* once and the host is not cached yet; or the response comes by a socket that the
\* channel map has as a key of an earlier channel, so that when its handshake expired
\* another was closed in its place, or none.  Such a key is left only by what is read
\* from a freed entry (peer.hpp:649, :874, single_link_handshake.hpp:72,
\* unordered_bimap.hpp:73, channel_map.hpp:110).
ThrowsFromTwoCauses ==
    \A n \in Nodes :
        failed[n] =>
            \/ ~hosts[n] /\ "unreachable" \in FirstOutcomes
            \/ StaleKeys(n) # {} /\ "other" \in FreedReads

\* A second channel to a peer is attempted only where the message of the error
\* says: never here, as the IDs differ and one end at most is behind NAT.
ChannelAddedOnce == \A n \in Nodes : ~rejected[n]

\* Between on_channel_established and on_channel_destroyed, and only then, the
\* peer has a channel to enqueue packets to, with a socket that is open.
ToldIsChannel ==
    \A n \in Nodes :
        /\ told[n] <=> IsOpen(channels[n])
        /\ told[n] => channels[n].readers.first \in Pooled(n) \ closing[n]

\* Whatever breaks, expires, comes late or is reported twice: of a channel there is the
\* application has been told, and its socket is open and is not about to be closed; and
\* what it was told of is there, unless a second channel has been refused, which erases
\* the first (channel_map.hpp:64, :110, peer.hpp:828).
ToldUntilRefused ==
    \A n \in Nodes :
        /\ IsOpen(channels[n]) =>
               told[n] /\ channels[n].readers.first \in Pooled(n) \ closing[n]
        /\ told[n] /\ ~rejected[n] => IsOpen(channels[n])

\* A gateway never gives up a host; an ordinary node does after a series of
\* attempts that fail.
StillTrying ==
    \A n \in Connectors :
        hosts[n] /\ RequesterCompletes(n) =>
            \/ retry[n].deferred > 0
            \/ OfKind(n, "connecting") \cup OfKind(n, "connected") # {}
            \/ n \notin Gateways /\ refusals > AttemptLimit

\* The live connections under the channel of n: one, or none.
Carriers(n) ==
    {c \in {socks[n][s].conn : s \in Pooled(n) \cap {channels[n].readers.first}} : conns[c].live}

\* The two ends never hold different connections for their channel, each of
\* which would carry the packets of one direction only (single_link_handshake.hpp:77, :91).
OnOneConnection ==
    Cardinality(UNION {Carriers(n) : n \in {m \in Nodes : told[m]}}) <= 1

Link == INSTANCE ChannelLink WITH
    wire <- \E n \in Nodes : told[n] /\ Carriers(n) # {},
    up <- told

\* The channel the applications are told of is the one ChannelLink promises.
ImplementsLink == Link!Spec

\* Whatever broke, was refused or expired, in the end both ends have the channel,
\* over one live connection.
Linked == \E c \in DOMAIN conns : \A n \in Nodes : Carriers(n) = {c}

EventuallyLinked == <>[]Linked
=============================================================================
