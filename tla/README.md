# Verification of netty-lib

netty-lib is a C++ networking library. Its core is `patterns/`: a mesh network
(`patterns/meshnet`), reliable delivery of messages on top of it
(`patterns/delivery`), publish/subscribe (`patterns/pubsub`) and telemetry.
This directory holds TLA+ models of that core, their TLC configurations and
TLAPS proofs. Paths below are relative to `src/include/pfs/netty/` unless they
start with `src/`.

Contents: [the system](#the-system), [modules](#modules),
[how the model corresponds to the code](#how-the-model-corresponds-to-the-code),
[runs](#runs), [bounds](#bounds), [fairness](#fairness),
[disagreements found](#disagreements-found), [proofs](#proofs),
[what is only model-checked](#what-is-only-model-checked),
[what is not modelled](#what-is-not-modelled), [plan](#plan).

## The system

| Component | State it keeps | Operations | Talks to |
|---|---|---|---|
| **delivery controller** `patterns/delivery/delivery_controller.hpp`, one per peer | `_suspended`, `_syn_state`, `_exp_syn`, `_priority_tracker`, per priority a queue of trackers with `last_sn`, and one optional assembler | `enqueue_message`, `step`, `process_input` (SYN, ACK, heading, part, report), `suspend`, `resume` | the manager, by callbacks and `enqueue_private` |
| **delivery manager** `manager.hpp` | the map of controllers | `enqueue_message`, `step`, `suspend`, `resume`, `process_input` | node (transport), application (callbacks) |
| **multipart tracker** | parts acknowledged, acquired, current index, two expirations | `acquire_next_part`, `acknowledge_part`, `reset_to` | its controller |
| **multipart assembler** | bounds, parts received, payload | `acknowledge_part`, `is_complete`, `lowest_acked_sn` | its controller |
| **priority tracker** `patterns/priority_tracker.hpp` | current priority, counter | `next`, `skip` | delivery controller, priority writer queue |
| **reliable node** `patterns/meshnet/reliable_node.hpp` | node and manager | wiring of callbacks, `run` loop | both |
| **node, routing table** | siblings, gateway chains, routes, peers | route requests and responses, unreachable packets, forwarding, `enqueue` | peers below, reliable node above |
| **peer, channel map, handshakes, reconnection, heartbeat** | sockets, channels, handshake cache, hosts cache, timers | connect, accept, handshake, destroy channel, reconnect | socket pools below, node above |
| **framing** `priority_writer_queue.hpp`, `priority_frame.hpp`, `input_controller.hpp` | queues per priority, the current frame, partial packets | enqueue, acquire a frame, shift, process input | writer and reader pools |
| **socket pools** `*_pool.hpp` | sockets, removable lists, deferred connections | step: poll and call back | pollers |
| **pubsub**, **telemetry** | publisher's writers, subscriber's input | broadcast, process | socket pools |
| **p2p** (deprecated), sockets and pollers, TLS, UDT (vendored), network interfaces | | | |

A message goes: application → manager → controller → tracker (cut into parts)
→ node → peer → framing → socket, and back up through the receiver's input
controller, node, manager, controller and assembler to the application's
callback; acknowledgements return the same way. All of a node's components run
in one loop (`reliable_node::run`), under one writer mutex in `manager::step`:
concurrency is between nodes, and between a node's steps and its timeouts.

What is hard: a channel breaks at any moment and each end hears of it in its
own time; what was in flight is gone; a process restarts and numbers its
messages from 1 again; two ends synchronize (SYN) at once over one link;
parts, acknowledgements and replies are repeated after timeouts; parts carry
no message id; several priorities share one SYN exchange.

What makes each component correct:

- *delivery*: what the sender is told was delivered has been received; the
  state of a tracker is never ahead of its receiver; messages of a priority are
  handed over in order, at least once; every message is delivered in the end;
  the assertions in the code hold; nothing is reported lost that will come.
- *priority tracker*: no priority starves; weights are kept.
- *routing*: a destination is reachable iff a chain of live channels leads to
  it, and its nodes hear of the loss of the last route.
- *peer and channels*: at most one channel per pair, both ends of it on the same
  connection; a channel that breaks is reported once; whatever fails, both ends
  have a channel in the end.
- *heartbeat*: every open socket has its turn, a silent one is given up, a live
  one is not.
- *framing*: packets leave as they came in, per priority in order; weights; a
  socket that takes no more is written to again.
- *pubsub*: a subscriber that stays connected gets whole messages in order, and
  all of them in the end; no message for one connection reaches the next one
  with its descriptor.

`PROJECT.json` lists every component with its status, and the hazards of the
code, each at its line.

## Modules

From the top of the stack down; an abstract specification stands between one
layer and the next.

| Module | What it is |
|---|---|
| `PriorityTracker` | the weighted round-robin; operators on records |
| `MultipartTracker` | one message at its sender; operators on records |
| `MultipartAssembler` | one message at its receiver; operators on records |
| `Delivery` | two nodes with their controllers and managers, the link and routes below, restarts, time; one action per handler or step |
| `ReliableTransfer` | abstract: what reliable delivery promises, without numbers, acknowledgements or links |
| `DeliveryInvariant` | the inductive invariants of `Delivery`, by flows: a sending node and a priority |
| `DeliveryProofs` | theorems about `Delivery`: types, routes, the round-robin |
| `DeliveryTruth` | theorems about `Delivery`: `DeliveryInvariant` and what follows from it |
| `DeliveryPromise` | theorems about `Delivery`: `DeliveryAgreement` and what follows from it, with the refinement of `ReliableTransfer` |
| `Routing` | the nodes of a mesh with their routing tables, over channels that come and go |
| `RoutingProofs` | theorems about `Routing`: types, routes, the application's view, assertions, next hops, messages, what a quiet mesh believes |
| `ChannelMap` | the map from sockets to the peer and back, with its two bimaps; operators on records |
| `Peer` | two peers that connect, shake hands, lose their channel and reconnect, step by step through the pools |
| `ChannelLink` | abstract: the channel the two ends are told of |
| `PeerProofs` | theorems about `Peer`: of orderly peers, types, one connection under the channel, it implements `ChannelLink`; of any two peers, what the application is told and why an assertion throws |
| `FrameStream` | one connection from the packets written to the packets read: priorities, frames, partial writes, throttling, the writer pool and its poller, reassembly |
| `PriorityChannel` | abstract: a FIFO of packets for each priority |
| `FrameStreamProofs` | theorems about `FrameStream`: types, turns, the limit of a second, why an assertion throws, it implements `PriorityChannel` |
| `Heartbeat` | the queue of heartbeats of a peer and the limits at the other ends, in seconds |
| `HeartbeatProofs` | theorems about `Heartbeat`: types, a place in the queue for each, silence is ended in time, why a live connection is given up |
| `SocketPool` | the pool of sockets; operators on records |
| `PubSub` | one publisher with its socket pool, writer pool and poller, its subscribers and their connections |
| `Feed` | abstract: what a subscriber receives |
| `PubSubProofs` | theorems about `PubSub`: types, the pools agree, it implements `Feed` |
| `MCDelivery`, `MCRouting`, `MCPeer`, `MCFrameStream`, `MCHeartbeat`, `MCPubSub` | values of the constants for TLC: nodes, topologies, weights, sizes |

`Delivery` EXTENDS the three operator modules above it, `Peer` EXTENDS
`ChannelMap`, `FrameStream` EXTENDS `PriorityTracker`, `PubSub` EXTENDS
`SocketPool`. The layers are composed through what they promise: `Delivery` is
shown to implement `ReliableTransfer`, `Peer` `ChannelLink`, `FrameStream`
`PriorityChannel` and `PubSub` `Feed`, each by INSTANCE with a refinement
mapping; the links of `Delivery` and `Routing` behave as `ChannelLink` (each end
hears in its own time of the channel and of its loss, never of a new one before
the other end has heard of the loss of the old) and carry packets as
`PriorityChannel` does (in order for each priority).

## How the model corresponds to the code

The `map` of `PROJECT.json` gives the lines of every definition.

### Delivery

One action per handler: `EnqueueMessage` is `manager::enqueue_message`;
`InitiateSyn`, `SendPart` and `ScanInVain` are the three ways through
`delivery_controller::step`; `ReceiveSynRst`, `ReceiveSynReq`,
`ReceiveSynRep`, `ReceiveAck`/`IgnoreAck`, `ReceiveHeading` and
`ReceivePart`/`IgnorePart` are the cases of `process_input`; `Unreachable` and
`RouteReady` are the callbacks `reliable_node::init` wires to
`manager::suspend` and `manager::resume`. Choices of abstraction:

- **Payload.** A message is its number in `sent` (which is also its id); a part
  is the pair of its serial number and, in the field `of`, the message it was
  cut from. The code's packet has no such field, and no action reads it: only
  the property `PartsMatch` does.
- **Time.** A time point is a Boolean, TRUE once passed; `ExpireTracker` and
  `ExpireSyn` pass it at any moment. The expiration of the parts is never
  earlier than that of the heading (every assignment of the latter sets the
  former, and acknowledgements only move the former), so it passes second.
- **Link.** One FIFO queue per direction and priority, since the node below keeps
  one queue per priority and interleaves the priorities in any order. A break
  (`Break`) empties both directions. Each end notices by itself
  (`Unreachable`); a new channel needs both ends to have given up the old one
  (`Reconnect`), and each end hears of the new route in its own time
  (`RouteReady`). A packet is read only once the reading end is ready.
- **Reroute.** In a mesh a route can be lost while another keeps the peer
  reachable; `routing_table::remove_routes` then does not call
  `on_node_unreachable`. The packets that had not passed the broken hop are
  gone: a suffix of the queue, silently.
- **Restart.** The process ends and starts anew: no part of the delivery state
  is persistent. Its unfinished messages are recorded in `abandoned`.
- **Assertions.** `PFS__THROW_UNEXPECTED` on numbers in a packet is a guard of the
  action (the packet would not be processed), and the invariant `AssertionsHold`
  says that no readable packet meets a false one: the guards never block.
  The assertion of `initiate_syn_request` does fail, see below; a controller in
  that state (`Stuck`) neither sends nor reads, as `manager::step` throws before
  it gets to `_transport->step()`.
- **Failed enqueue.** `enqueue_private` fails only without a route to the peer.
  `ActiveIsReachable`, which is proved, says step() never meets this; an
  acknowledgement goes out while a packet is being read, with a route.
- **Serial numbers** are `uint64_t` in the code and unbounded in the model.
- **Priorities.** With one priority the code takes a specialization of
  `priority_tracker`, whose operations do nothing; the model's tracker with
  PriorityCount = 1 chooses the same (only) priority.

### Routing

`OnChannelEstablished` and `OnChannelDestroyed` are the peer's callbacks in
`node.hpp`, `ProcessRequest` and `ProcessResponse` the two halves of
`process_route_received`, `ProcessUnreachable` is `process_unreachable_received`,
`EnqueueData` and `OnData` are `enqueue_packet` and the forwarding of
intersegment packets. A routing table is a set of siblings and a set of pairs of
a destination and a chain of gateways; the operators on it (`AddSibling`,
`AddRoute`, `AddSubroute`, `AddReversed`, `RemoveRoutes`, `NextHops`) are the
methods of `routing_table`. Which of several shortest routes is taken depends on
a hash in the code and is any of them here. `Announcements` sends the requests a
gateway makes for its siblings in any order (the siblings are in an unordered
set). Route and unreachable packets share one queue for each ordered pair of
nodes; data is apart from them, as it has other priorities. `Stage` gives links
an order of configuration; `wire` is the connection itself, which each end hears
of on its own. An end that holds the channel may read what was sent before the
connection broke until `OnChannelDestroyed`; to an end that had none yet it is
lost with the connection (`Unread` are the messages of it).

### Peer

`peer::step` visits listener, connecting pool, writers, readers, then handshake
timers and heartbeats, and carries out its deferred actions at the end. `phase`
says how far a node is in its step; an action belongs to a phase and the phase
only goes forward, until `EndStep` closes what `closing` holds. Socket numbers
are descriptors: the lowest free one is given out, and a closed one is used
again. A connection remembers its client and the handshake packet on its way.
Each of `Connected`, `Refused`, `ConnectFails`, `Accept`, `ProcessRequest`,
`ProcessResponse`, `HandshakeExpires`, `WriterFails`, `ReaderDisconnected` is a
callback wired in `peer.hpp` with all it calls; `ScheduleHost`,
`ScheduleSocket` and `DestroyChannel` are the methods those call.
`InsertChannel`, `CloseChannel` and `EraseByFirst` of `ChannelMap` follow the
two bimaps, with what `erase_by_first` reads through the pointer into the entry it
has freed as a choice (`FreedReads`). A heartbeat that expires is another
failure of a socket and is not apart from `ReaderDisconnected`.

### Framing and the writer pool

`Enqueue` is `priority_writer_queue::enqueue`; `SendRest`, `SendNoFrame` and
`SendFrame` are the ways through `acquire_frame` and `do_send`, with the socket
taking any part of a frame or none; `Poll` is `writer_poller::poll` with its
late removal of what it has reported; `Ripens` is the passing of
`writable_time_point`; `Tuned` and `RateNow` are `tune_frame_size` in its three
variants; `Receive` is `input_controller::process_input`, for any number of bytes that
have arrived. The bytes of a packet are all alike, so a payload is a sequence of
packets, and bytes of two packets taken for one are `Garbled`. `SlowerRate` is the
adaptive rate after a refusal, with its four steps; the runs' small limits keep to the
lowest, the theorems are about all of them. The history variable `cut` is the size the
last frame was cut for.

### Heartbeat

`Update`, `Beat`, `Process`, `Expire` and `RemoveSocket` are the methods of
`heartbeat_controller`, the two halves of its `step` apart; `q` is its `std::set` of
items, each with the seconds until it is due. One step serves one or more of those that
are due in one second, any of them first, and only that one gets a heartbeat that is not
empty: the packet is moved from. The history variable `missed` counts the empty ones of
each socket since the last heartbeat that came. The limit of each connection is kept at
its other end. A second passes (`Tick`) only when nothing is due: a peer steps more often
than once a second.

### Publish and subscribe

The step of the publisher is taken apart as `Peer`'s is: `OnAccepted` or
`StartStep`, `DoSend` for each account, `Poll` with the removals at the end.
A frame is two parts, so that one may be half sent or half read; the input
controller tells them apart by position, as `frame.hpp` parses what it has, and
keeps an odd part for the next time (`Frames`, `MessagesOf`). A subscriber
stands for one connection; the publisher knows it by a descriptor that is used
again. `ReuseAtOnce` says whether that may happen as early as the step after the
socket was closed. `OnAccepted` gives the descriptor a new account, where
`ensure_account` would keep one that is there: between steps there is none without its
socket (`TypeOK`), so it never is. A message is one frame here; messages that are cut
into several are the subject of `FrameStream`.

## Runs

| Run | States | Question and answer |
|---|---|---|
| `one_way` | 493 000 | One sender, messages of one and three parts, two breaks, a silent loss, a restart of either process, late SYN replies. All invariants hold and `ReliableTransfer` is implemented: nothing of an earlier connection or process confuses sender or receiver. |
| `both_ways` | 130 000 | Both applications send over one link with a break: with fairness every message is delivered. |
| `routing_detour` | 94 000 | Three gateways in a row and an end node, first linked to one end of the row and then to the other, with two messages on their way: routes are real, each next hop knows the rest, a message never takes more hops than it was sent for, everyone knows everyone. |
| `routing_square` | 386 000 | Two end nodes with two gateways between them, links in any order, one of them breaks and comes back: what the application is told is the table, no stale route is left, discovery completes. |
| `peer_disorder` | 4 127 000 | One node connects, with a break, a refusal, a failure and a handshake that expires; a node may meet a new connection before the end of the old one, report a socket twice in a step, be refused at once, and read anything from a freed entry: the application is told of the channel there is, and an assertion throws for two reasons only. The run reaches both, and a channel that a refused second one has erased. |
| `peer_both` | 840 000 | Both nodes connect to each other at once: both ends keep the same connection, `ChannelLink` is implemented, and in the end both have a channel. |
| `stream_resized` | 688 000 | Two priorities, the frame size changed on the way, an adaptive rate that falls below it, partial writes, refusals: `PriorityChannel` is implemented, the weights are kept, and assertions throw, for the reasons known and no other. |
| `stream_adaptive` | 46 000 | The adaptive rate above the frame size: the rate is exceeded by less than a frame, everything is read in the end. |
| `heartbeats` | 963 000 | Two connections that may come due in one step, heartbeats up to four seconds on their way, silence: dead connections are given up in time, live ones only after too many empty heartbeats in a row. |
| `pubsub` | 236 000 | Two subscribers, two descriptors that are used again, full buffers, half-read frames, connections that end: `Feed` is implemented and everything arrives. |
| `window_stall`, `pubsub_unwatched` | | Violations of what the code promises, see [disagreements found](#disagreements-found). |

The properties of the passing runs:

- `DeliveredWasReceived`: on_message_delivered tells the truth.
- `AckedIsHeld`: while synchronized, all that a tracker holds acknowledged is in
  the receiver's assembler of that message, or the message is complete. This is
  what makes `reset_to` and `lowest_acked_sn` correct together.
- `AssertionsHold` (`Delivery`, `Routing`): no packet meets a false assertion.
- `ThrowsFromTwoCauses`, `ThrowsOnlyWhenShrunk`: assertions of `Peer` and `FrameStream`
  do fail, see [below](#disagreements-found), but for these reasons only. Without an
  immediate refusal and the other reading of a freed entry `ThrowsFromTwoCauses` says
  that none fails, that is `AssertionsHold`.
- `ToldUntilRefused`: a channel is never there unknown to the application or over a closed
  socket, and the one it knows of is gone unnoticed only if a second channel was refused.
  Where none is (`ChannelAddedOnce`) this is `ToldIsChannel`.
- `PartsMatch`: a part is filed in the assembler of the message it was cut from.
- `LostWasAbandoned`: on_message_lost is raised only for messages whose sender
  has restarted.
- `ActiveIsReachable`: a controller sends only while there is a route.
- `ImplementsTransfer`: order per flow and at-least-once hand-over.
- `DeliveryInvariant`: the invariant the proofs rest on, see [proofs](#proofs).
- `EventuallyDelivered`: every message is in the end reported delivered.
- `RoutesFollowLinks`, `NextHopKnowsRest`, `DataWithinRoute`: the chains that are
  cut and reversed on the way are real, agree with one another, and carry data
  without a loop.
- `SettledKnowsAll`, `SettledIsTrue`, `DiscoveryCompletes`: when all packets are
  read every node knows those it is joined to, and none it is cut off from; that
  state is reached.
- `ViewIsTable`: on_route_ready and on_node_unreachable add up to the table.
- `ImplementsLink`: the two ends are told of channels in turn, of the same connection, and
  of no new one before the loss of the old.
- `ChannelAddedOnce`, `OnOneConnection`, `EventuallyLinked`: of two crossing
  connections both ends keep the same one; losses are repaired.
- `ServedInTurn`: a priority with packets waits for no more than the others' weights,
  and one frame of each.
- `ImplementsChannel`, `EventuallyRead`: packets come out as they went in, all of
  them in the end.
- `RateWithinFrame`: the limit of a second is passed by less than a frame.
- `OneBeatEach`, `NoFalseExpiry`, `SilenceEnds`: the queue of due times loses and
  doubles nothing; the dead are given up in time, and the living only if
  `(missed + 1) * Interval + MaxDelay` has reached the limit, that is after two empty
  heartbeats in a row with the code's defaults and a delay below five seconds.
- `PoolIsConsistent`, `ImplementsFeed`, `EventuallyReceived`: places of the array,
  descriptors and accounts stay in agreement; subscribers receive what is
  broadcast, once, in order, all of it.
- `TypeOK`: one for each module.

Each is broken by a mutant of the code's definitions (in the modules, right
before the definition they change, marked `mutant`): an acknowledgement range
checked at one end only, completion by the last part alone, `reset_to` off by
one, a heading ignored while an assembler exists, every SYN request a reset,
routes removed by destination only, a chain cut one too early, a response
handed to the wrong gateway, a handshake cache not cleaned, a reconnection for
accepted sockets, a round-robin that does not turn, a refused socket not
watched, an account kept after its socket, a frame cut longer than the size asked for, a
limit set by the first heartbeat only, a lost channel that stays in the map.

Deadlock is not checked where the system comes to rest: with bounded messages,
breaks and connections it does when all is done. `pubsub` has no such rest, its
publisher steps for ever.

## Bounds

| Constant | Value | Why it is enough |
|---|---|---|
| `MaxMessages` (`Delivery`) | 2 | confusion is between a message and its successor or predecessor in one flow |
| `PartCounts` | 1 and 3; 2 with fairness | one part: heading and completion at once; three: a heading and parts that may be lost, repeated and acknowledged in part |
| `MaxInFlight` | 2 | guards only the sending of parts and SYN requests; replies are always possible. A repeated part may meet the answer to its first copy |
| `MaxBreaks`, `MaxReroutes`, `MaxRestarts` (`Delivery`) | 2, 1, 1 in `one_way`; one break in `both_ways` | a break during the recovery from another, a restart after it, of either process: a peer with the state of an earlier life; the proofs have any number |
| priorities of `Delivery` | 1 | larger instances below have two; the proofs have any number |
| `Window` | 200, the code's; 1 where the window is the subject | |
| `MaxPending` | 0 or 2 | a link comes up or fails only with so many control packets in flight: 0 lets one announcement settle before the next, 2 makes them cross |
| `MaxBreaks`, `MaxData` (`Routing`) | 1; 2 | a notice crossing requests; two messages on two routes |
| `MaxConnections` | 6; 3 in `peer_disorder` | each failure leads to one more connection; 6 lets both nodes connect, fail and connect again; with 3 the second meets the rest of the first and the third what both have left |
| failures of `Peer` | 1 each | a failure during the recovery from another |
| `FrameSizes`, `Size`, `EmptyFrame` | 3 to 5, 1 to 3, 2 bytes | payloads of one to three bytes: packets of one frame, of several, and a frame shorter than the next size |
| `MaxRefusals` | 1; 2 in `stream_resized` | a rest of a frame that waits for the socket; two, as the rate falls with the second while the rest of a frame waits |
| `Interval`, `Expiration`, `MaxDelay` | 5, 15, 4 | the code's default interval and limit, and a delay with which a live connection outlives one empty heartbeat and not two |
| `Capacity`, messages, subscribers, descriptors (`PubSub`) | 2 each | a full buffer, a half-read frame, a descriptor that passes from one connection to the next |

Nodes differ in role nearly everywhere, so symmetry is used only for the sockets of
`Heartbeat`, whose properties are invariants.

Larger instances were run apart from the listed ones: `Delivery` with two
priorities of weights 2 and 1, parts 1 and 2, one break, one silent loss and one
restart (2.5 million states), and with both applications sending and a restart
(870 000 states), each also with `DeliveryAgreement`; `Routing` on the detour
with one control packet pending when links come up and one message (4.8 million
states), and with a break and fairness (40 000 states); `PubSub` with three
subscribers (3.7 million states); `Peer` under the constants of `peer_disorder` with both
nodes connecting and no failure (2.4 million states), and with one node connecting, two
breaks and `Orderly` (80 000 states), also with `ToldIsChannel`, `AssertionsHold` and
`ImplementsLink`; `FrameStream` with unlimited frames of 3 and 5 bytes and packets of 2
and 3 (122 000 states). All properties hold there.

## Fairness

`FairSpec` of `Delivery` assumes that the loop of each node keeps running
(`reliable_node::run` calls step for ever): weak fairness of sending
(`InitiateSyn` or `SendPart`), of reading each queue, of noticing a break and a
new route, of reconnecting, and of time. Nothing is assumed of breaks, losses,
restarts, `ExpireSyn` or the application. `Reconnect` is fair because the
connecting side retries with the infinite reconnection policy.

`Routing`: each configured link comes up in the end, the loss of a channel is noticed,
queues are read. `Peer`: a node goes on with its step (one weak fairness for all
of it; the bounds on failures end what could keep it busy). `FrameStream`: the
peer steps, time passes, bytes arrive; and, strongly, some of the steps that
could send come more than a second after the rate's count began. `PubSub`: the
publisher steps, subscribers read, time passes. Broadcasts, connections, losses,
refusals and breaks are never assumed.

## Disagreements found

Two are kept as runs, since what they break is liveness under fairness, which is
seen best in a behaviour:

1. **A window lost with a break is never freed** (`window_stall`): neither
   `reset_to` nor an expiration lowers `_part_acquired_count`, and the window is
   checked before every repetition (`multipart_tracker.hpp:208`).
2. **A reused descriptor is taken out of epoll** (`pubsub_unwatched`): the poller
   drops what it has reported at the beginning of its next poll
   (`linux/writer_poller.cpp`), and a connection accepted in between may have got
   the descriptor of one that was reset. It is never found writable again.

The others are reached by a constant of the modules. With the value on the left, where
there is one, the property holds, and the passing runs that check it have that value; with
the value on the right TLC finds it violated in seconds (`Peer`: other constants as in
`peer_both`):

| Module | Passing value | Violating value | Property | What the code does |
|---|---|---|---|---|
| `Delivery` | | `SynMayExpire = TRUE` | `SynAssertion` | an overdue SYN reply makes `step()` call `initiate_syn_request` in a state it asserts against (`delivery_controller.hpp:355`) and throws at every step |
| `Delivery` | | `Window = 1`, `PartCounts = {4}`, one message | `WindowRespected` | `>` at `multipart_tracker.hpp:210`: one part more than "Max number of parts awaiting acknowledgement" |
| `Delivery` | parts 1 or more | `PartCounts = {0, 1}`, `FairSpec` | `EventuallyDelivered` | a message of no bytes is never sent and blocks its priority |
| `Delivery` | no silent loss with `FairSpec` | `PartCounts = {2}`, `MaxReroutes = 1`, `FairSpec` | `HandedOverIsConfirmed` | the last acknowledgement, lost under a surviving route, is never repeated (`delivery_controller.hpp:559`) |
| `Delivery` | no silent loss with `FairSpec` | `PartCounts = {3}`, `MaxReroutes = 2`, `FairSpec` | `LostPartsAreRepeated` | a repeated part that is lost again is not sent a third time once every later part is acknowledged (`multipart_tracker.hpp:237`) |
| `Routing` | no ring while all settle | `RingNodes`, `RingGateways`, `RingLinks`, `AtOnce` | `NoFalseDuplicate` | a gateway hears of itself under its neighbour's session and takes itself for a duplicate (`node.hpp:776`) |
| `Routing` | | `Long...` with `MiddleLast`, `MaxPending = 0` | `SettledKnowsAll` | only siblings are announced to a gateway that connects (`node.hpp:290`): networks joined in the middle last do not learn of each other's far ends |
| `Routing` | | `Square...`, `AtOnce`, `MaxBreaks = 1` | `OnlyBrokenRoutesRemoved` | `remove_routes` ignores the gateway of the notice (`routing_table.hpp:230`) and forgets routes that work |
| `Routing` | `Square...` | `Tailed...`, `AtOnce`, `MaxPending = 4`, `MaxBreaks = 3` (by `-simulate -depth 150`) | `SettledIsTrue` | requests, responses and notices go round a ring in both directions: a response that is still under way teaches the lost route again, even to a gateway the route goes through, and no notice follows |
| `Routing` | `MaxBreaks = 0` with data | `Detour...`, `MaxBreaks = 1`, `MaxData = 1` | (unbounded) | until the notices arrive a message goes back and forth between two gateways: an intersegment packet has no hop limit |
| `Peer` | `InOrder = TRUE` | `InOrder = FALSE` | `ToldIsChannel` | a node that has not met the end of the old connection refuses the new one and erases the old entry (`channel_map.hpp:64`): the application is never told of the loss |
| `Peer` | `FirstOutcomes` without it | `"unreachable"` in `FirstOutcomes` | `AssertionsHold` | `connect()` caches the host after a failure that already schedules its reconnection (`peer.hpp:641`) |
| `Peer` | | gateway, outcome `"failure"`, `MaxFailures = 1` | `StillTrying` | an attempt that fails outright ends the reconnection (`connecting_pool.hpp:184`) |
| `Peer` | `FreedReads = {"same"}` | `{"same", "other"}` | `ChannelAddedOnce` | `erase_by_first` reads its second key from a freed entry (`unordered_bimap.hpp:73`) |
| `Peer` | `BehindNat` = nobody | both connect, both or the one with the lesser ID in `BehindNat` | `ChannelAddedOnce`, `ToldIsChannel`, `OnOneConnection` | the requests of either node become channels; the error message names this case ("perhaps both peers are configured behind NAT", `peer.hpp:315`) |
| `Peer` | `OncePerStep = TRUE` | `FALSE` | `ChannelAddedOnce` | writer and reader report one socket in one step: two reconnections (`peer.hpp:898`) |
| `FrameStream` | `FrameSizes = {4}` | unlimited, `FrameSizes = {3, 5}` | `AssertionsHold` | the rest of a frame of 5, half sent, is asserted to fit the new size of 3 (`priority_writer_queue.hpp:125`) |
| `FrameStream` | adaptive, `RateLimit = 6` | adaptive, `RateLimit = 4`, `MaxRefusals = 2` | `AssertionsHold` | the same, by the adaptive rate, which only goes down (`writer_pool.hpp:486`) |
| `FrameStream` | `SlowSteps = FALSE` | `TRUE` | `StaysWatched` | a socket refused again half a second later is asked for and removed in the same step (`writer_poller.hpp:52`) |
| `FrameStream` | | custom, `RateLimit = 5` | `RateKept` | the maximum where the minimum was computed (`writer_pool.hpp:515`) |
| `FrameStream` | `PriorityCount = 2` | `1` | `AssertionsHold` | with one priority the front of an empty queue is taken (`priority_writer_queue.hpp:58`) |
| `Heartbeat` | | the constants of `heartbeats` | `expired \cap open \subseteq silent`, stronger than `NoFalseExpiry` | of two sockets due in one step only the first gets a heartbeat that is not empty (`heartbeat_controller.hpp:113`): a live connection is given up |
| `Heartbeat` | `CoarseClock = FALSE` | `TRUE` | `OneBeatEach` | items are compared by time alone: of two with one time the second is not inserted |

`StaysWatched` of `FrameStream` and `StillTrying` of `Peer` hold under the
constants of `stream_resized` and `peer_both`. What is left of `AssertionsHold`,
`ToldIsChannel` and the last claim about `Heartbeat` when the excluded cases are let in is
stated by `ThrowsOnlyWhenShrunk`, `ThrowsFromTwoCauses`, `ToldUntilRefused` and
`NoFalseExpiry`, checked by `stream_resized`, `peer_disorder` and `heartbeats`, and
proved without hypotheses.

## Proofs

`DeliveryProofs` proves, for every value of the constants that satisfies
`DistributionAssumption` (weights are positive), `WindowAssumption` and
`DeliveryAssumption` (each node has a peer, other than itself, whose peer it is;
bounds are naturals):

- `TypeCorrect`: `Spec => []TypeOK`. `TypeOK` is inductive as it stands, because
  the guards keep the ranges of serial numbers that the code asserts or checks.
  It rests on `MinOfNaturals` (a set of naturals has a least element),
  `FirstReadyIsReady` (the scan over priorities ends at one with a part to send),
  `NextPartIsSendable`, `TurnTypes`, `TrackerTypes` and `AssemblerTypes` (what the
  operators return), and on one lemma for each group of actions.
- `SendsOnlyWhileReachable`: `Spec => []ActiveIsReachable`. The invariant alone
  is not inductive: a controller without messages could be active after the
  application sends one. `SuspendedWhileUnreachable` adds that messages are
  queued in controllers only and that the controller of a node without route is
  suspended.
- `TurnIsBounded`: `Spec => []TurnWithinWeight`, by `TurnStaysWithinWeight`. It is
  about the round-robin as the controller uses it; no run checks it.

`DeliveryTruth` proves, from the same assumptions,

- `DeliveryIsInvariant`: `Spec => []DeliveryInvariant`;
- `DeliveryIsTrue`: `Spec => []DeliveredWasReceived`;
- `AcknowledgedIsHeld`: `Spec => []AckedIsHeld`.

`DeliveredWasReceived` says nothing of how an acknowledgement comes to be, so it
is far from inductive. `DeliveryInvariant` adds what the two ends of each flow
and the packets between them agree on:

- `LinkInOrder`: in a queue of the link messages follow one another, and the
  headings of a message come before its other parts. A SYN request or reply is
  there once. A broken link is empty.
- `SynExchange`: a SYN request or reply is in flight only while the requester
  waits for it, never both, and the reply says what the assembler holds *now*:
  nothing the sender sent can change the assembler while it waits.
- `QueueInOrder`, `HolderKnown`: trackers and the assembler carry the numbers of
  messages sent, in order; the assembler is never of a later message than the one
  being sent. Only the first tracker of a queue has parts acknowledged, and the
  heading among them.
- `DataKnown`: a part in flight is of the message being sent, with the heading
  acknowledged and not in flight behind it, or of one already delivered. That is
  why a part without a message id goes to the right assembler, and why a
  repeated heading, which starts the assembler anew, loses nothing that the
  sender counts on.
- `AcksKnown`: an acknowledgement in flight is of a part the receiver has, or of a
  message already delivered.
- `FrontHeld`: what the sender holds acknowledged the receiver holds.

The proof has one lemma for each action (`InitiateSynKeeps`, `SendPartKeeps`,
`AnswerKeeps` for both SYN requests, `SynReplyKeeps`, `AckKeeps`, `HeadingKeeps`,
`PartKeeps`, ...). They rest on frame lemmas: `KeptFlow` and `SameFlow` (a flow
whose ends are kept and whose packets are among those of before is kept),
`QuietStep` and `SilentStep` (steps that only lose packets, steps that leave the
link empty), and on lemmas about queues (`AppendPacket`, `DropPackets`,
`ReadPacket`). `SendPartKeeps`, `InitiateSynKeeps` and `RouteReadyKeeps` also use
`SuspendedWhileUnreachable`. The run `one_way` checks `DeliveryInvariant` on the
small instance.

`DeliveryPromise` proves, from the same assumptions,

- `AgreementHolds`: `Spec => []DeliveryAgreement`;
- `AssertionsAlwaysHold`: `Spec => []AssertionsHold`;
- `PartsAlwaysMatch`: `Spec => []PartsMatch`;
- `LostIsAbandoned`: `Spec => []LostWasAbandoned`;
- `ImplementsReliableTransfer`: `Spec => ImplementsTransfer`.

`DeliveryInvariant` speaks of what is received and not of what is being sent: it
allows an assembler of a message delivered long ago, or an earlier message that
is neither queued nor settled. `DeliveryAgreement` says which message both ends
of a flow are at:

- `QueueComplete`: the trackers of a flow are those of its unsettled messages, no
  fewer. With the order of the queue it gives the order of the flow: everything
  before the first tracker is settled.
- `HolderCurrent`: an unfinished assembler is of the message being sent, or of one
  whose sender has restarted. That is why a heading that replaces it loses
  nothing (`LostWasAbandoned`).
- `DataCurrent`: a heading of a longer message is in flight only while that message is
  being sent; another part, only while the receiver assembles that message or has
  handed it over. `PartsMatch` and two of the assertions follow.
- `AckCurrent`, `FrontCurrent` (by `HeldNow`): `AcksKnown` and `FrontHeld` without
  their way out, "the message is received": it is the message handed over *last*,
  so its completion leaves no assembler behind.
- `Forgotten`: until a new process has had its first SYN request answered, its peer
  assembles nothing of it but what an earlier life began.

The proof that `DeliveryAgreement` is inductive uses `DeliveryInvariant` before and after
the step, `CalmStep` for the actions that change no message, and one lemma for
each of the others (`EnqueueAgrees`, `SendPartAgrees`, `SynRstAgrees`,
`SynRepAgrees`, `AckAgrees`, `HeadingAgrees` and `PartAgrees` by `FiledAgrees`,
`RestartAgrees`).

The refinement maps the sequence of messages accepted to that of their flows, the
messages delivered to those confirmed and the lost to those reported. An enqueue is
`Accept`; the acknowledgement that completes a message is `Confirm` (`AckMaps`: it is
received, by `DeliveredWasReceived` after the step, and first of its flow, by
`FrontIsFirst` and `EarlierSettled`); a part that completes a message is `Receive`, or `ReportLost` when the
message had been handed over before (`FiledMaps`, `HandedOverInOrder`); a SYN
request that clears assemblers is `ReportLost`, a restart `Restart`; all else
leaves the history alone (`NextMaps`).

The number of nodes, priorities, parts, messages, breaks and restarts is arbitrary in
all of these, and so are the weights and the window.

`RoutingProofs` proves, for any finite set of nodes, any gateways among them and any
links between two different nodes (`RoutingAssumption`),

- `RoutingHolds`: `Spec => []RoutingInvariant`, and from it
- `TypesHold`: `Spec => []TypeOK`;
- `RoutesHold`: `Spec => []RoutesFollowLinks`;
- `ViewHolds`: `Spec => []ViewIsTable`;
- `RoutingAssertionsHold`: `Spec => []AssertionsHold`;
- `UndisturbedHolds`: `Spec => []UntilFailure`, and from it
- `NextHopHolds`: `Spec => []NextHopKnowsRest`;
- `DataHolds`: `Spec => []DataWithinRoute`.

A table says nothing of the packets it was learnt from, so none of these is
inductive. `RoutingInvariant` adds `Control`, what a packet on its way carries
(`PacketFits`):

- the route of a request runs over links from its initiator to the node that will
  read it, meets no node twice, and its last node is the sender; a request that no
  gateway has passed on goes to a gateway;
- the route of a response runs from the initiator to the responder, and sender and
  reader are next to each other on it.

That is why `After` finds a gateway in the chain it cuts (the assertion of
`process_response`), and why what is stored runs over links: reversed
(`ReverseRuns`), cut (`SuffixRuns`) or extended by a link (`AppendRuns`), a chain
that does still does. `ControlStep`, `ReadAdds` and `BothTypes` reduce an action to
the packets it adds, `TaughtFits`, `AnswerFits`, `ForwardFits` and
`AnnouncementFits` say that those fit. `RoutesFollowLinks` holds with breaks too:
it is about configured links, not about channels that are open.

`NextHopKnowsRest` and `DataWithinRoute` are claims about a mesh in which no channel
has been lost yet (`breaks = 0`); `UntilFailure` is the invariant for that case. A node
*knows* a chain to a destination when the destination is its neighbour or the
chain is in its table. `PacketsKnown`: what a packet teaches its reader its sender
knows, less one hop. `RoutesKnown`: the first gateway of a stored route knows the
rest. `MessagesWithin`: where a message is, a way to its receiver is known that is
no longer than the hops it has left. All three are kept because knowledge only
grows until a failure (`GrowthKeeps`: a new neighbour replaces routes to it by
something shorter), and a message is never sent a longer way than the node
before had (`HopReaches`, by `DistanceIsWay`: `Distance` is the length of the
shortest way).

After failures, and whatever packets they cross,

- `CredibleHolds`: `Spec => []Credible`, if `NoRings`, and from it
- `QuietIsTrue`: `Spec => []SettledIsTrue`, if `NoRings`.

`Behind(n, m)` is what n reaches by its neighbour m, from gateway to gateway.
`NoRings` says that no node reaches a gateway it is linked to by another one: the
gateways are trees, and an ordinary node joins each tree once. It is so in the
mesh of the run `routing_square` (where two ordinary nodes share two gateways that
are not linked) and in `Long...`, and not in that of `routing_detour`. The
theorem needs it: with a ring TLC finds `SettledIsTrue` violated, see the table
above. `Credible` is

- `PacketsStraight` and `RoutesStraight`: what a packet from m tells n of, and what
  n stores behind m, is behind m;
- `QueuesOpen` and `Heard`: packets are only where a channel is or will be, and over a
  live connection a node that was told something is a neighbour of the teller;
- `Backing`: over a live connection everything n claims to reach by m, stored or
  carried by a packet it has yet to read, m knows itself, or the notice that
  disables it is behind the claim in the same queue.

`Backing` is the argument. A gateway that loses a route sends the notice after
all it said before, in the same queue, so a claim that crosses the notice cannot
outlive it (`BackedStep`). It sends the notice to all but the neighbour it came from;
that one has no claim to lose, as what is behind the two ends of a link between
gateways is disjoint (`SidesApart`), which is where a ring fails. When no packet is
left and each end has met the end of its connections, every route is known to its
first gateway less one hop, so step by step the whole of it is a chain of live
connections (`SettledRoutes`, by the length of the route).

`PubSubProofs` proves, for any subscribers, sockets, capacity and number of messages
(`PubSubAssumption`),

- `FeedHolds`: `Spec => []FeedInvariant`, and from it
- `TypesHold`: `Spec => []TypeOK`;
- `PoolHolds`: `Spec => []PoolIsConsistent`;
- `FeedIsKept`: `Spec => ImplementsFeed`.

They hold with `ReuseAtOnce` as well: the defect of the poller keeps a subscriber
waiting, it never sends it the parts of another. `FeedInvariant` is, conjunct by
conjunct:

- `Pools`: places, free places and mapping of the socket pool agree (`Fits`, kept by
  `AddFits`, `LaterFits` and `ApplyFits`); socket pool and writer pool have the same
  sockets and will remove the same ones. `Steps`: between steps nothing is left to
  send or to remove, so no descriptor is given out while an account has it.
- `Owners`: every account belongs to one subscriber and no subscriber has two; one
  that was accepted and has not left has an account that stays.
- `Queued`: an account has the last parts of all that its owner was to be sent, even
  when the owner has left. `Flows`: while the connection lasts, what was received,
  what is left over of a frame, what is on its way and what the account has are,
  one behind the other, everything published since the subscriber was accepted.
  Positions (`IsPart`, `Goes`) say it without taking sequences apart.

A send takes from the front of a queue one part, or two when the first of them begins
a frame. `WholeSends` says that a frame that begins in a queue also ends there: by
`Queued` its first part stands at an odd position and the last position of all is
even. Without it a send could take more than there is, and the count of `Flows`
would be wrong. The steps of the refinement are
`PublishRefines` (`Broadcast` is `Publish`), `JoinRefines` (`OnAccepted` is `Join`)
and `ReadRefines` (`OnDataReady` is `Receive`, or nothing when no frame is complete);
every other action leaves the history alone.

`HeartbeatProofs` proves, from `HeartbeatAssumption`,

- `HeartbeatHolds`: `Spec => []HeartbeatInvariant`, and from it
- `TypesHold`: `Spec => []TypeOK`;
- `SilenceIsEnded`: `Spec => []SilenceEnds`;
- `PlaceForEach`: `Spec => []OneBeatEach`, if `CoarseClock` is FALSE;
- `LiveIsKept`: `Spec => []NoFalseExpiry`.

`SilenceEnds` bounds the silence alone; the invariant adds `LimitRunsDown`, that the
silence and what is left of the limit never exceed the limit as it was set, and
`Flight`, that nothing of a silent socket is on its way which could set it anew.
`NoFalseExpiry` looks back on what has expired; `InTime` looks ahead. Of a live connection
with a place in the queue and a limit one of three holds: its next item is due no later
than one interval for each heartbeat it missed, and one more, after the one that set the
limit (`Aged`); a heartbeat on its way comes before the limit (`OnItsWay`); or too many were
missed (`Late`). A step that serves the socket first turns the first into the second, unless
the third holds; one that serves it second leaves the first with one more missed; the
passing of time moves both sides of each alike. The sockets, the interval, the limit
and the delay are arbitrary, and so is what comes due together. That two never have
one time is assumed by `PlaceForEach` alone, and needed: TLC finds a socket without a
place in the queue otherwise. Both defects of the queue starve a live connection, neither
lets a dead one live on once it has been heard from.

`PeerProofs` has two parts. Of any two peers it proves, from `PeerAssumption` alone,

- `AlwaysStanding`: `Spec => []Standing`, and from it
- `ToldOfWhatThereIs`: `Spec => []ToldUntilRefused`;
- `CausesAreTwo`: `Spec => []ThrowsFromTwoCauses`.

These leave in a new connection that comes before the loss of the old one is known, a
socket reported by reader and writer in one step, an immediate refusal and anything
that is read from a freed entry, for any IDs, whoever connects and whoever is behind NAT.
Neither property is inductive: why a response throws depends on what the cache of the
handshakes has kept and on what was closed when one expired. `Standing` is, node by node,

- `SocketsKnown`: a socket has a number and is one end of its connection;
- `KeysSettled`: the bimaps agree on the socket of the peer; it is open, its handshake is
  over, and the application was told; what it was told of is in the map until a second
  channel is refused. All keys are of such sockets while `FreedReads` is without
  `"other"`;
- `ClosingAnswered`: a socket is to be closed when its handshake is over, or because that
  has taken too long, and the latter only in the last phase of a step, after which it is
  closed. So no packet is processed by a socket that is to be closed;
- `ResponseAwaited`: who waits for a response is in the cache of the handshakes, or is to
  be closed, or its number is a stale key of the map: then the expired handshake has
  destroyed another channel in its place (`WhatIsDestroyed`);
- `HostKnown`: a node that is connecting, has connected or will do so later has its host in
  the cache, whence a host that is scheduled again and unknown was refused at once;
- `CauseKnown`: `ThrowsFromTwoCauses`, for one node.

Most of a step is frame: `SameStands` and `OneStands` are about the nodes that do not act;
`DestroyedStands` is about `DestroyChannel` wherever it is
called, `CompletedStands` and `PacketProcessed` about the end of a handshake.

From `PeerAssumption` and `Orderly` it proves

- `PeerHolds`: `Spec => []PeerInvariant`, and from it
- `TypesHold`: `Spec => []TypeOK`;
- `OnOne`: `Spec => []OnOneConnection`;
- `LinkIsKept`: `Spec => ImplementsLink`.

The bounds are arbitrary, and so are the IDs, who connects, who is a gateway, who is
behind NAT and the limit of attempts, as far as `Orderly` leaves them. It has five
conjuncts and each is needed; the run `peer_both` satisfies it:

- `FreedReads = {"same"}`, `InOrder`, `OncePerStep` and `"unreachable" \notin
  FirstOutcomes` each exclude one known defect (table above);
- `OneKeeps`: the requests of one node at most become channels. That is so when one
  node connects, and when both do and neither is behind NAT, as the IDs decide. The
  case left out is that of a node behind NAT with another that connects to it, which
  NAT does not let through.

No property follows from itself: whether a channel is refused depends on what the
*other* node has closed, and when. `PeerInvariant` is, conjunct by conjunct:

- `SocksFit`: a socket is an end of its connection, the client's or the acceptor's,
  and a node has no two ends of one connection. Hence a socket number is always free
  within the bound (`FreeNumber`), and a new socket never takes the number of an open
  one.
- `StepFits`: every socket that is not about to be closed is polled by both pollers,
  and one is about to be closed only if its connection is dead, its handshake expired
  or its response said that it is not needed (`ToBeClosed`); between the end of a step
  and the writers of the next nothing is.
- `CacheFits`: a connected socket is in the cache of the handshakes until its response
  was read: the assertion of `process_exclusive` holds.
- `OneAttempt`: a node has one attempt to connect, be it deferred, under way or a
  connection it keeps. Hence `OneConnection`: of the connections of a client only the
  last may be alive.
- `ChannelFits`: the channel map is empty, or holds one socket, the same in both
  bimaps, that is open, past its handshake and of a connection that is kept.
- `AnsweredHas`: as long as a connection that is kept is alive, the acceptor that has
  answered has its channel on it.

A request finds the map empty (`RequestFindsNone`): the channel of the acceptor would
be on an earlier connection, which is dead, and by `InOrder` its end is met first. So
does a response (`ResponseFindsNone`), because the client has one attempt. In the
refinement, a request that becomes a channel is `EstablishFirst` (`RequestLinks`:
by `ClientOnLive` the client has no channel on another connection), a response
`EstablishSecond` (`ResponseLinks`, by `AnsweredHas`), the loss of a socket with the
channel `Destroy` (`DisconnectedLinks`); every other action is `Quiet`: it tells
nothing and at most breaks the wire.

`FrameStreamProofs` proves, from `DistributionAssumption` and `StreamAssumption`,

- `SoundAlways`: `Spec => []Sound`, and from it
- `TypeCorrect`: `Spec => []TypeOK`;
- `TurnsComeRound`: `Spec => []ServedInTurn`;
- `LimitIsKept`: `Spec => []RateWithinFrame`;
- `ThrowsAreKnown`: `Spec => []ThrowsOnlyWhenShrunk`;
- `StreamIsChannel`: `Spec => ImplementsChannel`.

Packets, their sizes, priorities, weights, frame sizes, the way of throttling, the
limit and the number of refusals are arbitrary. The set of frame sizes is finite, as
the code keeps them in an integer of fixed width; otherwise there is no largest frame.
All hold with `SlowSteps` and for the constants of the table above that make an assertion
throw: a queue that has thrown sends no more, so it breaks neither the order nor the
limit.

`Sound` is the types and three bounds they need: the front of the round-robin has not
used more than its weight (`TurnFits`), the unsent rest of a frame is no more than the
largest size, and the socket has been refused at least as often as
`writable_counter` says. Each theorem then has its own invariant:

- `TurnsOK`, for the turns. `waiting` alone may be at its bound with others still to
  come. A priority waits for what is left of the turn and for the weights of those
  *between* it and the turn: the sum of the three is within the bound. A packed frame
  adds one to the first and takes at least as much from the other two, whichever
  priorities are skipped for having nothing to send (`Nearer`).
- `RateWithinFrame` is inductive with `Sound`: a frame is asked for only while less than
  the rate of that moment has been sent, the rate is at most the limit, and no size is
  larger than the largest.
- `ThrowsOnlyWhenShrunk` is inductive with `Sound`, which has the rest of a frame no
  longer than `cut`. A step asks for no size below `SmallestSize` after it
  (`SmallestIsAsked`), so a rest that does not fit (`RestThrows`) is longer than that and no
  longer than what the frame was cut for. A new frame throws if it has no room for a
  byte, or if its priority has no packet, which the round-robin lets happen only if
  there is no other (`FrameThrows`). Once thrown nothing of this changes: `SetFrameSize`,
  writing and sending are of a queue that has not (`ThrowStep`). With several priorities
  and a rate and sizes that stay above every frame no assertion throws.
- `ChannelOK`, for the refinement. Laid one behind the other, what a priority has in its
  pool, in the frames on their way and in its queue are the bytes of its packets that
  are written and not read (`Unread`). A byte stands for the packet it belongs to, so this is an
  equation of sequences: a packed frame moves bytes from the front of the queue to the
  last frame (`FrameKeepsChannel`), one that arrives to the pool
  (`ReceiveKeepsChannel`), and parsing takes whole packets from the front of the pool
  as long as they are complete (`ParsedKeeps`). A step that
  reads is `Channel!Read`, one that enqueues `Channel!Write`, all else leaves the
  history alone.

The sums, the bytes of a queue and the parsing of a pool are folds of the community
modules. A fold is a function CHOSEN among those that satisfy a recursion; that one
exists is proved here by induction on naturals, in the form that a set of naturals
which has 0 and with each number the next has them all (`NatSetInduction`, by the least
element outside the set). `FoldExists` and `IndexFoldExists` state it for folds over
finite sets and over sequences.

## What is only model-checked

- Liveness, of every module: it is out of the proof system's reach.
- `ChannelAddedOnce` of `Peer`: it fails in cases the code meets, and the run that checks
  it leaves these out. `AssertionsHold` of `Peer` and of `FrameStream`, and
  `ToldIsChannel`, fail in such cases too; what is checked and proved is what holds in
  all of them, see above.
- `Routing`: `SettledKnowsAll`. That a quiet mesh knows everything is not a matter of
  one step but of how every link was announced, and holds only in networks that
  were not joined in the middle (see the table above).

They hold in the bounded runs. `SettledIsTrue` is proved where gateways form no ring;
with enough breaks in a ring it is false (see the table above), and no run checks it
there.

## What is not modelled

- report packets (`enqueue_report`): stateless, unacknowledged;
- a peer with a different number of priorities (the SYN reply is refused and the
  controller suspended);
- packets that survive a break inside a gateway, and packets of one priority
  that overtake each other on two routes: the link of `Delivery` is FIFO and
  loses all at a break;
- several peers of one node, the dual link handshake (disabled by `#if`), equal
  node IDs;
- the inside of listener, reader and TLS handshake pools; the pollers other than
  epoll's;
- serialization, logging, telemetry, locking;
- the components listed as not modelled in `PROJECT.json`, each with its reason.

Most lines of the repository are not the library's own logic and are left aside:
the UDT library (`src/src/udt`, about 12 000 lines) and ENet's binding, the
command line editors and test framework under `src/demo` and `src/tests`, the
deprecated `p2p` engines, and wrappers of system calls. The share of the
lines covered by `map` is accordingly small; of `patterns/delivery`,
`patterns/meshnet` and the pools nearly all state changes are modelled.

## Plan

1. Two peers per node and the forwarding between them; the dual link handshake
   when it comes into use.
2. `p2p/file_transporter.hpp`, if it outlives the rest of `p2p`.
