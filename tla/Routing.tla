------------------------------ MODULE Routing -------------------------------
(***************************************************************************)
(* Route discovery in a mesh: the node of every process (node.hpp) with    *)
(* its routing table (routing_table.hpp), which learns routes from         *)
(* requests flooded by the gateways and from the responses to them, and    *)
(* forgets them when a channel is destroyed.                               *)
(*                                                                         *)
(* A channel is what the peer below reports: each end establishes it and   *)
(* finds it destroyed in its own time; packets between the two ends keep   *)
(* their order.  Route and unreachable packets share the highest priority, *)
(* data may overtake them or fall behind.                                  *)
(***************************************************************************)
EXTENDS Integers, Sequences, FiniteSets, Functions, SequencesExt

CONSTANTS
    Nodes,
    Gateways,       \* the nodes with _is_gateway set
    Links,          \* the pairs of nodes configured to connect, as sets of two
    Stage,          \* a link is configured once those of the earlier stages are up
    MaxPending,     \* bound on control packets in flight when a link comes up or fails
    MaxBreaks,      \* bound on connections that fail
    MaxData         \* bound on messages sent across segments

ASSUME RoutingAssumption ==
    /\ IsFiniteSet(Nodes)
    /\ Gateways \subseteq Nodes
    /\ \A l \in Links : \E n, m \in Nodes : n # m /\ l = {n, m}
    /\ Stage \in [Links -> Nat]
    /\ {MaxPending, MaxBreaks, MaxData} \subseteq Nat

VARIABLES
    wire,         \* the links whose connection is alive
    channels,     \* the peers a node holds a channel to (channel_map)
    control,      \* control[m][n]: route and unreachable packets from m to n
    siblings,     \* _rtab._sibling_nodes
    routes,       \* _rtab._route_map: pairs of a destination and a gateway chain
    view,         \* the nodes the application was told it can reach
    duplicates,   \* history: pairs of a node and the ID it reported as duplicated
    data,         \* intersegment messages in flight, with the nodes passed and
                  \* the number of hops of the route they were sent by
    delivered,    \* history: pairs of sender and receiver of data received
    breaks, sends

tableVars == <<siblings, routes, view>>
netVars == <<wire, channels, control>>
dataVars == <<data, delivered, sends>>
vars == <<netVars, tableVars, duplicates, dataVars, breaks>>

-----------------------------------------------------------------------------
(* The routing table of one node, as a record of siblings and routes.      *)

Table(n) == [siblings |-> siblings[n], routes |-> routes[n]]

Reachable(t) == t.siblings \cup {r[1] : r \in t.routes}

\* mutant
AddSiblingUnlessRouted(t, dest) ==
    IF dest \in Reachable(t) THEN t ELSE [t EXCEPT !.siblings = @ \cup {dest}]

\* A direct channel replaces the routes through gateways.
AddSibling(t, dest) ==
    [siblings |-> t.siblings \cup {dest},
     routes   |-> {r \in t.routes : r[1] # dest}]

AddRoute(t, dest, chain) ==
    IF dest \in t.siblings THEN t
    ELSE [t EXCEPT !.routes = @ \cup {<<dest, chain>>}]

\* mutant
AfterAndWith(chain, gw) ==
    LET i == CHOOSE k \in 1 .. Len(chain) :
                 chain[k] = gw /\ \A j \in 1 .. k - 1 : chain[j] # gw
    IN  SubSeq(chain, i, Len(chain))

\* The part of a chain that follows a gateway in it.
After(chain, gw) ==
    LET i == CHOOSE k \in 1 .. Len(chain) :
                 chain[k] = gw /\ \A j \in 1 .. k - 1 : chain[j] # gw
    IN  SubSeq(chain, i + 1, Len(chain))

AddSubroute(t, dest, gw, chain) == AddRoute(t, dest, After(chain, gw))

\* mutant
AddUnreversed(t, dest, chain) == AddRoute(t, dest, chain)

AddReversed(t, dest, chain) == AddRoute(t, dest, Reverse(chain))

\* mutant
RemoveRoutesTo(t, id) == [t EXCEPT !.routes = {r \in @ : r[1] # id}]

\* Every route to the node lost, and every route through it.
RemoveRoutes(t, id) ==
    [t EXCEPT !.routes = {r \in @ : r[1] # id /\ id \notin Range(r[2])}]

\* The first gateways of the routes with the fewest hops (which of several is
\* a matter of hashing).
NextHops(n, dest) ==
    IF dest \in siblings[n] THEN {dest}
    ELSE {r[2][1] : r \in {q \in routes[n] :
             /\ q[1] = dest
             /\ \A o \in routes[n] : o[1] = dest => Len(q[2]) <= Len(o[2])}}

Distance(n, dest) ==
    IF dest \in siblings[n] THEN 1
    ELSE Min({Len(r[2]) : r \in {q \in routes[n] : q[1] = dest}}) + 1

\* mutant
ToldOfEveryLoss(n, old, new) ==
    (view[n] \cup {r[1] : r \in new.routes \ old.routes} \cup (new.siblings \ old.siblings))
        \ ({r[1] : r \in old.routes \ new.routes} \cup (old.siblings \ new.siblings))

\* The application is told of a new route, and of a node without any.
Told(n, old, new) ==
    (view[n] \cup {r[1] : r \in new.routes \ old.routes} \cup (new.siblings \ old.siblings))
        \ (Reachable(old) \ Reachable(new))

UpdateTable(n, new) ==
    /\ siblings' = [siblings EXCEPT ![n] = new.siblings]
    /\ routes' = [routes EXCEPT ![n] = new.routes]
    /\ view' = [view EXCEPT ![n] = Told(n, Table(n), new)]

-----------------------------------------------------------------------------
(* Packets.                                                                *)

Request(session, initiator, route) ==
    [type |-> "request", session |-> session, initiator |-> initiator,
     responder |-> initiator, route |-> route]

\* mutant
ForwardedUnchanged(n, request) == request

\* A gateway that forwards a request adds itself to the route.
Forwarded(n, request) == [request EXCEPT !.route = Append(@, n)]

Response(responder, request) ==
    [request EXCEPT !.type = "response", !.responder = responder]

Unreachable(gw, id) == [type |-> "unreachable", gw |-> gw, id |-> id]

\* What n enqueues, a sequence for each node, reaches the nodes it holds a
\* channel to, unless the connection is already dead.
Enqueue(queues, n, out) ==
    [queues EXCEPT ![n] = [m \in Nodes |->
        IF m \in channels[n] /\ {n, m} \in wire THEN @[m] \o out[m] ELSE @[m]]]

ToOne(n, m, packet) == [k \in Nodes |-> IF k = m THEN <<packet>> ELSE <<>>]
ToAllBut(n, m, packet) == [k \in Nodes |-> IF k # m THEN <<packet>> ELSE <<>>]
Both(a, b) == [k \in Nodes |-> a[k] \o b[k]]
Nothing == [k \in Nodes |-> <<>>]

-----------------------------------------------------------------------------
(* Channels.                                                               *)

Pending == FoldFunction(LAMBDA to, sum : FoldFunction(LAMBDA q, k : Len(q) + k, sum, to),
                        0, control)

\* The first end completes the handshake of a new connection, or the second.
Connected(n, m) ==
    /\ {n, m} \in Links
    /\ m \notin channels[n]
    /\ \/ /\ n \notin channels[m]
          /\ {n, m} \notin wire
          /\ \A l \in Links : Stage[l] < Stage[{n, m}] => l \in wire
          /\ Pending <= MaxPending
          /\ wire' = wire \cup {{n, m}}
       \/ /\ n \in channels[m]
          /\ {n, m} \in wire
          /\ wire' = wire

\* The siblings on whose behalf n sends requests to the gateway m.
Announced(n, m, t) == IF n \in Gateways THEN t.siblings \ {m} ELSE {}

\* mutant
AnnouncementsByInitiator(n, order) ==
    <<Request(n, n, <<>>)>>
        \o [i \in 1 .. Len(order) |-> Request(n, order[i], <<order[i]>>)]

\* The requests sent to a gateway, all under the sender's session.
Announcements(n, order) ==
    <<Request(n, n, <<>>)>>
        \o [i \in 1 .. Len(order) |-> Request(n, order[i], <<n>>)]

OnChannelEstablished(n, m) ==
    LET t == AddSibling(Table(n), m)
    IN  /\ Connected(n, m)
        /\ channels' = [channels EXCEPT ![n] = @ \cup {m}]
        /\ UpdateTable(n, t)
        /\ IF m \in Gateways
           THEN \E order \in SetToSeqs(Announced(n, m, t)) :
                    control' = [control EXCEPT ![n][m] = @ \o Announcements(n, order)]
           ELSE UNCHANGED control
        /\ UNCHANGED <<duplicates, dataVars, breaks>>

\* What n has not read of the messages m sent it.
Unread(m, n) == {d \in data : Last(d.path) = n /\ d.path[Len(d.path) - 1] = m}

\* A connection dies.  What was sent may still be read by an end that holds the
\* channel, until it finds it destroyed; to another end it is lost.
Break(n, m) ==
    LET lost(k, b) == {k, b} = {n, m} /\ k \notin channels[b]
    IN  /\ {n, m} \in wire
        /\ breaks < MaxBreaks /\ Pending <= MaxPending
        /\ breaks' = breaks + 1
        /\ wire' = wire \ {{n, m}}
        /\ control' = [k \in Nodes |-> [b \in Nodes |->
                          IF lost(k, b) THEN <<>> ELSE control[k][b]]]
        /\ data' = {d \in data : \A k, b \in Nodes : lost(k, b) => d \notin Unread(k, b)}
        /\ UNCHANGED <<channels, tableVars, duplicates, delivered, sends>>

OnChannelDestroyed(n, m) ==
    LET t == [Table(n) EXCEPT !.siblings = @ \ {m}]
        queues == [control EXCEPT ![m][n] = <<>>]
        rest == channels[n] \ {m}
    IN  /\ m \in channels[n]
        /\ {n, m} \notin wire
        /\ channels' = [channels EXCEPT ![n] = rest]
        /\ UpdateTable(n, RemoveRoutes(t, m))
        /\ control' = IF n \in Gateways
                      THEN Enqueue(queues, n, ToAllBut(n, m, Unreachable(n, m)))
                      ELSE queues
        /\ data' = data \ Unread(m, n)
        /\ UNCHANGED <<wire, duplicates, delivered, sends, breaks>>
-----------------------------------------------------------------------------
(* Packets read.                                                           *)

\* Whether n has something to read of what m sent it.
Readable(m, n) == m \in channels[n] /\ control[m][n] # <<>>

Read(m, n) == [control EXCEPT ![m][n] = Tail(@)]

IndexOf(route, n) ==
    CHOOSE k \in 1 .. Len(route) : route[k] = n /\ \A j \in 1 .. k - 1 : route[j] # n

\* A node that meets its own ID under another session reports a duplicate.
Duplicated(n, dest, packet) == dest = n /\ packet.session # n

ReportDuplicate(m, n) ==
    /\ duplicates' = duplicates \cup {n}
    /\ control' = Read(m, n)
    /\ UNCHANGED <<tableVars>>

\* The initiator becomes known; the sender gets a response, and a gateway that
\* is not in the route yet forwards the request to its other siblings.
ProcessRequest(m, n) ==
    LET p == Head(control[m][n])
        dest == p.initiator
        t == IF n \in Gateways /\ p.route = <<>>
             THEN AddSibling(Table(n), dest)
             ELSE AddReversed(Table(n), dest, p.route)
        forward == IF n \in Gateways /\ n \notin Range(p.route)
                   THEN ToAllBut(n, m, Forwarded(n, p))
                   ELSE Nothing
    IN  /\ Readable(m, n)
        /\ p.type = "request"
        /\ IF Duplicated(n, dest, p) THEN ReportDuplicate(m, n)
           ELSE /\ UNCHANGED duplicates
                /\ IF dest = n
                   THEN control' = Read(m, n) /\ UNCHANGED tableVars
                   ELSE /\ UpdateTable(n, t)
                        /\ control' = Enqueue(Read(m, n), n,
                               Both(ToOne(n, m, Response(n, p)), forward))
        /\ UNCHANGED <<wire, channels, dataVars, breaks>>

\* The route to the responder, as the initiator or as a gateway of the route
\* sees it.
LearnFromResponse(n, p) ==
    CASE p.initiator = n ->
            IF p.route = <<>> THEN AddSibling(Table(n), p.responder)
            ELSE AddRoute(Table(n), p.responder, p.route)
      [] p.initiator # n /\ Last(p.route) = n -> AddSibling(Table(n), p.responder)
      [] OTHER -> AddSubroute(Table(n), p.responder, n, p.route)

\* mutant
AddresseeOffByOne(n, p) ==
    LET index == IndexOf(p.route, n)
    IN  IF index > 1 THEN p.route[index] ELSE n

\* The node the response goes on to: the gateway before n, or the initiator.
Addressee(n, p) ==
    LET index == IndexOf(p.route, n)
    IN  IF index > 1 THEN p.route[index - 1] ELSE p.initiator

ProcessResponse(m, n) ==
    LET p == Head(control[m][n])
        dest == p.responder
    IN  /\ Readable(m, n)
        /\ p.type = "response"
        /\ IF Duplicated(n, dest, p) THEN ReportDuplicate(m, n)
           ELSE /\ UNCHANGED duplicates
                /\ IF dest = n /\ p.initiator # n
                   THEN control' = Read(m, n) /\ UNCHANGED tableVars
                   ELSE /\ UpdateTable(n, LearnFromResponse(n, p))
                        /\ control' =
                               IF p.initiator = n THEN Read(m, n)
                               ELSE Enqueue(Read(m, n), n, ToOne(n, Addressee(n, p), p))
        /\ UNCHANGED <<wire, channels, dataVars, breaks>>

\* A gateway passes on the news only when it lost a route itself.
ProcessUnreachable(m, n) ==
    LET p == Head(control[m][n])
        t == RemoveRoutes(Table(n), p.id)
    IN  /\ Readable(m, n)
        /\ p.type = "unreachable"
        /\ IF p.gw = n \/ t = Table(n)
           THEN control' = Read(m, n) /\ UNCHANGED tableVars
           ELSE /\ UpdateTable(n, t)
                /\ control' = IF n \in Gateways
                              THEN Enqueue(Read(m, n), n, ToAllBut(n, m, p))
                              ELSE Read(m, n)
        /\ UNCHANGED <<wire, channels, duplicates, dataVars, breaks>>

-----------------------------------------------------------------------------
(* Intersegment data.                                                      *)

\* n hands the message to the writer of the next hop, if it has one.
Transmit(d, n, hop) ==
    IF hop \in channels[n] /\ {n, hop} \in wire
    THEN {[d EXCEPT !.path = Append(@, hop)]}
    ELSE {}

EnqueueData(n, dest) ==
    /\ n # dest /\ sends < MaxData
    /\ sends' = sends + 1
    /\ \E hop \in NextHops(n, dest) :
           data' = data \cup Transmit([receiver |-> dest, path |-> <<n>>,
                                        hops |-> Distance(n, dest)], n, hop)
    /\ UNCHANGED <<netVars, tableVars, duplicates, delivered, breaks>>

OnData(d) ==
    LET n == Last(d.path)
        rest == data \ {d}
    IN  /\ d.path[Len(d.path) - 1] \in channels[n]
        /\ IF d.receiver = n
           THEN /\ delivered' = delivered \cup {<<d.path[1], n>>}
                /\ data' = rest
           ELSE /\ UNCHANGED delivered
                /\ IF n \in Gateways /\ NextHops(n, d.receiver) # {}
                   THEN \E hop \in NextHops(n, d.receiver) :
                            data' = rest \cup Transmit(d, n, hop)
                   ELSE data' = rest
        /\ UNCHANGED <<netVars, tableVars, duplicates, sends, breaks>>

-----------------------------------------------------------------------------

Init ==
    /\ wire = {}
    /\ channels = [n \in Nodes |-> {}]
    /\ control = [m \in Nodes |-> [n \in Nodes |-> <<>>]]
    /\ siblings = [n \in Nodes |-> {}]
    /\ routes = [n \in Nodes |-> {}]
    /\ view = [n \in Nodes |-> {}]
    /\ duplicates = {}
    /\ data = {} /\ delivered = {}
    /\ breaks = 0 /\ sends = 0

Receive(m, n) ==
    \/ ProcessRequest(m, n)
    \/ ProcessResponse(m, n)
    \/ ProcessUnreachable(m, n)

Next ==
    \/ \E n, m \in Nodes :
           \/ OnChannelEstablished(n, m)
           \/ Break(n, m)
           \/ OnChannelDestroyed(n, m)
           \/ Receive(m, n)
           \/ EnqueueData(n, m)
    \/ \E d \in data : OnData(d)

Spec == Init /\ [][Next]_vars

\* The peers keep trying to connect and notice dead connections, and every
\* node reads its sockets in every step.
Fairness ==
    /\ \A n, m \in Nodes : WF_vars(OnChannelEstablished(n, m))
    /\ \A n, m \in Nodes : WF_vars(OnChannelDestroyed(n, m))
    /\ \A n, m \in Nodes : WF_vars(Receive(m, n))

FairSpec == Spec /\ Fairness

-----------------------------------------------------------------------------
(* Properties.                                                             *)

Packets == UNION {Range(control[m][n]) : m, n \in Nodes}
Routed(type) == {p \in Packets : p.type = type}

\* Chains of distinct gateways, the empty one of a direct link included.
Chains == {c \in UNION {[1 .. k -> Gateways] : k \in 0 .. Cardinality(Gateways)} :
              \A i, j \in DOMAIN c : c[i] = c[j] => i = j}

FollowsLinks(links, n, chain, dest) ==
    LET p == <<n>> \o chain \o <<dest>>
    IN  \A i \in 1 .. Len(p) - 1 : {p[i], p[i + 1]} \in links

Joined(links, n, dest) == \E c \in Chains : FollowsLinks(links, n, c, dest)

TypeOK ==
    /\ wire \subseteq Links
    /\ channels \in [Nodes -> SUBSET Nodes]
    /\ siblings \in [Nodes -> SUBSET Nodes]
    /\ view \in [Nodes -> SUBSET Nodes]
    /\ \A n \in Nodes : \A r \in routes[n] : r[1] \in Nodes /\ r[2] \in Seq(Gateways)
    /\ \A m, n \in Nodes : \A i \in DOMAIN control[m][n] :
           control[m][n][i].type \in {"request", "response", "unreachable"}
    /\ duplicates \subseteq Nodes
    /\ delivered \subseteq Nodes \X Nodes
    /\ breaks \in 0 .. MaxBreaks /\ sends \in 0 .. MaxData

\* What process_route_received asserts of the packet a node is about to read:
\* an ordinary node never gets a request without a gateway in it, nor a
\* response to somebody else, and a gateway is in the route of every response
\* that it has to pass on (node.hpp:737, 742, 770, 797).
AssertionsHold ==
    \A m, n \in Nodes : Readable(m, n) =>
        LET p == Head(control[m][n])
        IN  /\ p.type = "request" /\ n \notin Gateways /\ p.initiator # n => p.route # <<>>
            /\ p.type = "response" /\ p.initiator # n
                   => n \in Gateways /\ (p.responder # n => n \in Range(p.route))

\* Every route a node stores runs, gateway after gateway, over links that
\* exist, in the order from this node to the destination.
RoutesFollowLinks ==
    \A n \in Nodes : \A r \in routes[n] :
        r[2] # <<>> /\ FollowsLinks(Links, n, r[2], r[1])

\* What the application was told by on_route_ready and on_node_unreachable is
\* what the table says, and the siblings in it are the open channels.
ViewIsTable ==
    \A n \in Nodes : view[n] = Reachable(Table(n)) /\ siblings[n] = channels[n]

Settled ==
    /\ \A m, n \in Nodes : control[m][n] = <<>>
    /\ \A n \in Nodes : channels[n] = {m \in Nodes : {n, m} \in wire}

\* While nothing failed, the next hop of a route is a sibling that knows the
\* rest of the route.
NextHopKnowsRest ==
    breaks = 0 =>
        \A n \in Nodes : \A r \in routes[n] :
            LET hop == Head(r[2])
                rest == Tail(r[2])
            IN  /\ hop \in siblings[n]
                /\ \/ r[1] \in siblings[hop]
                   \/ rest # <<>> /\ <<r[1], rest>> \in routes[hop]

\* While nothing failed, every gateway that holds a message knows where to
\* send it, and however the tables change on its way, a message takes no more
\* hops than the route it was sent by: it may come back to a node it has
\* passed, but not for ever, although intersegment packets carry no limit.
DataWithinRoute ==
    breaks = 0 =>
        \A d \in data :
            LET n == Last(d.path)
            IN  n # d.receiver =>
                    /\ d.receiver \in Reachable(Table(n))
                    /\ Len(d.path) - 1 + Distance(n, d.receiver) <= d.hops

\* When all is quiet after the links came up, every node knows every node that
\* gateways join it to.
SettledKnowsAll ==
    Settled /\ breaks = 0 =>
        \A n, m \in Nodes : n # m /\ Joined(wire, n, m) => m \in Reachable(Table(n))

\* When all is quiet, no node believes it can reach one it is cut off from.
SettledIsTrue ==
    Settled => \A n \in Nodes : \A m \in Reachable(Table(n)) : Joined(wire, n, m)

\* No node reports a duplicate of its ID: all IDs differ here.
NoFalseDuplicate == duplicates = {}

\* An unreachable packet disables the routes that contain the lost link as a
\* subchain, and no other.
UsesLink(n, r, gw, id) ==
    LET p == <<n>> \o r[2] \o <<r[1]>>
    IN  \E i \in 1 .. Len(p) - 1 : p[i] = gw /\ p[i + 1] = id

OnlyBrokenRoutesRemoved ==
    [][\A m, n \in Nodes :
           ProcessUnreachable(m, n)
               => \A r \in routes[n] \ routes'[n] :
                      UsesLink(n, r, Head(control[m][n]).gw, Head(control[m][n]).id)]_vars

\* In the end every node knows every node that gateways join it to.
DiscoveryCompletes ==
    <>[](\A n, m \in Nodes : n # m /\ Joined(Links, n, m) => m \in Reachable(Table(n)))
=============================================================================
