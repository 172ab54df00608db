------------------------------- MODULE PubSub -------------------------------
(***************************************************************************)
(* Publish and subscribe: one publisher (publisher.hpp) with its socket    *)
(* pool, its writer pool (writer_pool.hpp) and the poller of that          *)
(* (linux/writer_poller.cpp), and subscribers (subscriber.hpp) with their  *)
(* input controllers (pubsub/input_controller.hpp).                        *)
(*                                                                         *)
(* A subscriber stands for one connection.  The publisher knows it by the  *)
(* descriptor of the accepted socket, which is used again after the socket *)
(* is closed.  The frame of a message travels in two parts, of which a     *)
(* send takes one or both.                                                 *)
(***************************************************************************)
EXTENDS SocketPool, SequencesExt

CONSTANTS
    Subscribers,
    Sockets,        \* the descriptors the publisher's sockets may get
    NoOne,          \* no subscriber
    Capacity,       \* how many parts the buffers between two sockets hold
    ReuseAtOnce,    \* whether a descriptor may be used again in the next step
    MaxMessages     \* bound on broadcasts

ASSUME PubSubAssumption ==
    /\ Sockets \subseteq Nat \ {NoSocket} /\ NoOne \notin Subscribers
    /\ Capacity \in Nat \ {0} /\ MaxMessages \in Nat /\ ReuseAtOnce \in BOOLEAN

VARIABLES
    pool,       \* the publisher's _socket_pool
    owner,      \* whose connection a descriptor is
    queue,      \* the accounts of _writer_pool: the parts each has to send
    writable,   \* "no", "soon" (writable_time_point is to come) or "yes"
    removable,  \* _writer_pool._removable
    watched,    \* the sockets in epoll
    dropping,   \* the poller's own _removable
    todo,       \* the accounts this step has not looked at yet
    phase,      \* how far the publisher's step is
    stage,      \* of a subscriber: "new", "connecting", "accepted" or "closed"
    pipe,       \* the parts on their way to a subscriber
    raw,        \* _acc of a subscriber: the part of a frame that is incomplete
    published, joined, received  \* history, see Feed

writerVars == <<queue, writable, removable>>
pollerVars == <<watched, dropping>>
stepVars == <<todo, phase>>
subscriberVars == <<stage, pipe, raw>>
vars == <<pool, owner, writerVars, pollerVars, stepVars, subscriberVars,
          published, joined, received>>

Messages == 1 .. MaxMessages
Frame(m) == <<<<m, "begin">>, <<m, "end">>>>

-----------------------------------------------------------------------------
(* The publisher.                                                          *)

\* enqueue_broadcast: all accounts, those to be removed included.
ToAll(m) == [sid \in DOMAIN queue |-> queue[sid] \o Frame(m)]

\* The writer mutex keeps broadcasts out of a step.
Broadcast ==
    LET m == Len(published) + 1
    IN  /\ phase = "idle" /\ m <= MaxMessages
        /\ queue' = ToAll(m)
        /\ published' = Append(published, m)
        /\ UNCHANGED <<pool, owner, writable, removable, pollerVars, stepVars,
                       subscriberVars, joined, received>>

\* mutant
WaitForNobody(sid) == watched

WaitForWrite(sid) == watched \cup {sid}

\* Whether the listener's poll can accept a connection, and with which socket.
Acceptable(s, sid) ==
    /\ stage[s] = "connecting"
    /\ sid \notin DOMAIN pool.mapping
    /\ ReuseAtOnce \/ sid \notin dropping

\* A new connection gets an account and is watched from the start.
OnAccepted(s, sid) ==
    /\ phase = "idle"
    /\ Acceptable(s, sid)
    /\ pool' = AddSocket(pool, sid)
    /\ owner' = [owner EXCEPT ![sid] = s]
    /\ queue' = Put(queue, sid, <<>>)
    /\ writable' = Put(writable, sid, "no")
    /\ watched' = WaitForWrite(sid)
    /\ stage' = [stage EXCEPT ![s] = "accepted"]
    /\ joined' = Put(joined, s, Len(published))
    /\ todo' = DOMAIN queue'
    /\ phase' = "send"
    /\ UNCHANGED <<removable, dropping, pipe, raw, published, received>>

\* A step with nobody to accept.
StartStep ==
    /\ phase = "idle"
    /\ \A s \in Subscribers, sid \in Sockets : ~Acceptable(s, sid)
    /\ todo' = DOMAIN queue
    /\ phase' = "send"
    /\ UNCHANGED <<pool, owner, writerVars, pollerVars, subscriberVars,
                   published, joined, received>>

\* The writer pool drops the account, and close_socket the socket.
Failed(sid) ==
    /\ removable' = removable \cup {sid}
    /\ pool' = IF Located(pool, sid) THEN RemoveLater(pool, sid) ELSE pool

\* mutant
ShiftedFrame(parts, n) == IF parts[1][2] = "begin" THEN Tail(Tail(parts)) ELSE Tail(parts)

\* shift: what was sent leaves the frame.
Shifted(parts, n) == SubSeq(parts, n + 1, Len(parts))

\* The lengths a send may take: a frame is sent by itself.
Sendable(parts, room) == {n \in 1 .. IF parts[1][2] = "begin" THEN 2 ELSE 1 : n <= room}

DoSend(sid) ==
    LET s == owner[sid]
        room == Capacity - Len(pipe[s])
        due == writable[sid] = "yes" /\ queue[sid] # <<>>
    IN  /\ phase = "send" /\ sid \in todo
        /\ todo' = todo \ {sid}
        /\ \/ /\ ~due
              /\ UNCHANGED <<pool, writerVars, watched, pipe>>
           \/ /\ due /\ stage[s] = "closed"
              /\ Failed(sid)
              /\ UNCHANGED <<queue, writable, watched, pipe>>
           \/ /\ due /\ stage[s] = "closed"     \* the reset is not here yet
              /\ \E n \in Sendable(queue[sid], Capacity) :
                     queue' = [queue EXCEPT ![sid] = Shifted(@, n)]
              /\ UNCHANGED <<pool, writable, removable, watched, pipe>>
           \/ /\ due /\ stage[s] # "closed" /\ room <= 0
              /\ writable' = [writable EXCEPT ![sid] = "no"]
              /\ watched' = WaitForWrite(sid)
              /\ UNCHANGED <<pool, queue, removable, pipe>>
           \/ /\ due /\ stage[s] # "closed"
              /\ \E n \in Sendable(queue[sid], room) :
                     /\ pipe' = [pipe EXCEPT ![s] = @ \o SubSeq(queue[sid], 1, n)]
                     /\ queue' = [queue EXCEPT ![sid] = Shifted(@, n)]
              /\ UNCHANGED <<pool, writable, removable, watched>>
        /\ UNCHANGED <<owner, dropping, phase, stage, raw, published, joined, received>>

\* mutant
AccountsKept(gone) == queue

AccountsLeft(gone) == Restrict(queue, DOMAIN queue \ gone)

\* The poll forgets what the last one reported, reports sockets that were reset
\* (of those whose other end is closed) and writable ones, and the step ends with
\* the removals.
Poll ==
  \E dead \in SUBSET {sid \in watched \ dropping : stage[owner[sid]] = "closed"} :
    LET waiting == watched \ dropping
        ready == {sid \in waiting \ dead : Len(pipe[owner[sid]]) < Capacity}
        gone == removable \cup dead
        closing == [pool EXCEPT !.removable = @ \cup {sid \in dead : Located(pool, sid)}]
    IN  /\ phase = "send" /\ todo = {}
        /\ queue' = AccountsLeft(gone)
        /\ writable' = [sid \in DOMAIN queue' |->
                            IF sid \in ready THEN "soon" ELSE writable[sid]]
        /\ removable' = {}
        /\ watched' = waiting \ gone
        /\ dropping' = dead \cup ready
        /\ pool' = ApplyRemove(closing)
        /\ owner' = [sid \in Sockets |-> IF sid \in DOMAIN pool'.mapping THEN owner[sid] ELSE NoOne]
        /\ phase' = "idle"
        /\ UNCHANGED <<todo, subscriberVars, published, joined, received>>

\* Half a second has passed since the socket was reported writable.
Drained(sid) ==
    /\ sid \in DOMAIN writable
    /\ writable[sid] = "soon"
    /\ writable' = [writable EXCEPT ![sid] = "yes"]
    /\ UNCHANGED <<pool, owner, queue, removable, pollerVars, stepVars, subscriberVars,
                   published, joined, received>>

-----------------------------------------------------------------------------
(* A subscriber.                                                           *)

Connect(s) ==
    /\ stage[s] = "new"
    /\ stage' = [stage EXCEPT ![s] = "connecting"]
    /\ UNCHANGED <<pool, owner, writerVars, pollerVars, stepVars, pipe, raw,
                   published, joined, received>>

\* The connection ends, and what was on its way is lost.
Close(s) ==
    /\ stage[s] \in {"connecting", "accepted"}
    /\ stage' = [stage EXCEPT ![s] = "closed"]
    /\ pipe' = [pipe EXCEPT ![s] = <<>>]
    /\ UNCHANGED <<pool, owner, writerVars, pollerVars, stepVars, raw,
                   published, joined, received>>

\* parse: two parts make a frame, which ends with the second of them.
Frames(parts) == Len(parts) \div 2

MessagesOf(parts) == [i \in 1 .. Frames(parts) |-> parts[2 * i][1]]

\* process_input: what has arrived joins what was left over.
OnDataReady(s) ==
    /\ stage[s] = "accepted"
    /\ \E n \in 1 .. Len(pipe[s]) :
           LET parts == raw[s] \o SubSeq(pipe[s], 1, n)
           IN  /\ pipe' = [pipe EXCEPT ![s] = SubSeq(@, n + 1, Len(@))]
               /\ raw' = [raw EXCEPT ![s] = SubSeq(parts, 2 * Frames(parts) + 1, Len(parts))]
               /\ received' = [received EXCEPT ![s] = @ \o MessagesOf(parts)]
    /\ UNCHANGED <<pool, owner, writerVars, pollerVars, stepVars, stage, published, joined>>

-----------------------------------------------------------------------------

Init ==
    /\ pool = EmptyPool
    /\ owner = [sid \in Sockets |-> NoOne]
    /\ queue = <<>> /\ writable = <<>> /\ removable = {}
    /\ watched = {} /\ dropping = {}
    /\ todo = {} /\ phase = "idle"
    /\ stage = [s \in Subscribers |-> "new"]
    /\ pipe = [s \in Subscribers |-> <<>>]
    /\ raw = [s \in Subscribers |-> <<>>]
    /\ published = <<>> /\ joined = <<>>
    /\ received = [s \in Subscribers |-> <<>>]

Step ==
    \/ \E s \in Subscribers, sid \in Sockets : OnAccepted(s, sid)
    \/ StartStep
    \/ \E sid \in Sockets : DoSend(sid)
    \/ Poll

Next ==
    \/ Broadcast
    \/ Step
    \/ \E sid \in Sockets : Drained(sid)
    \/ \E s \in Subscribers : Connect(s) \/ Close(s) \/ OnDataReady(s)

Spec == Init /\ [][Next]_vars

\* Publisher and subscribers run their loops, and time passes.  Nothing is assumed of broadcasts and of connections.
Fairness ==
    /\ WF_vars(Step)
    /\ \A sid \in Sockets : WF_vars(Drained(sid))
    /\ \A s \in Subscribers : WF_vars(OnDataReady(s))

FairSpec == Spec /\ Fairness

-----------------------------------------------------------------------------
(* Properties.                                                             *)

TypeOK ==
    /\ DOMAIN pool.mapping \subseteq Sockets /\ pool.removable \subseteq Sockets
    /\ \A i \in DOMAIN pool.accounts : pool.accounts[i] \in Sockets \cup {NoSocket}
    /\ owner \in [Sockets -> Subscribers \cup {NoOne}]
    /\ DOMAIN queue \subseteq Sockets /\ DOMAIN writable = DOMAIN queue
    /\ removable \subseteq Sockets /\ todo \subseteq DOMAIN queue
    /\ watched \subseteq Sockets /\ dropping \subseteq Sockets
    /\ phase \in {"idle", "send"}
    /\ phase = "idle" => {sid \in Sockets : owner[sid] # NoOne} = DOMAIN queue
    /\ stage \in [Subscribers -> {"new", "connecting", "accepted", "closed"}]
    /\ \A s \in Subscribers : Len(pipe[s]) <= Capacity /\ Len(raw[s]) <= 1

\* No assertion of socket_pool::locate_account fails, between steps every
\* place of the array is a socket's or free, and every open socket is one
\* connection with an account in the writer pool.
PoolIsConsistent ==
    /\ \A sid \in DOMAIN pool.mapping : PlaceIsItsOwn(pool, sid)
    /\ phase = "idle" =>
           /\ DOMAIN pool.mapping = DOMAIN queue
           /\ Cardinality(DOMAIN pool.mapping) + Cardinality(pool.free) = Len(pool.accounts)

\* What the subscribers receive is what Feed promises.
Promise == INSTANCE Feed
ImplementsFeed == Promise!Spec

Missing(s) == s \in DOMAIN joined /\ Len(received[s]) < Len(published) - joined[s]

\* An accepted subscriber whose connection lasts receives everything broadcast
\* since.
EventuallyReceived ==
    \A s \in Subscribers : Missing(s) ~> (~Missing(s) \/ stage[s] = "closed")
=============================================================================
