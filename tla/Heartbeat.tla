----------------------------- MODULE Heartbeat -----------------------------
(***************************************************************************)
(* heartbeat_controller.hpp on both ends of the connections of a peer: the *)
(* sending side, with its queue of due times, and at the other end of each *)
(* connection the limit until which a heartbeat must have come.  Time goes *)
(* by in seconds.                                                          *)
(***************************************************************************)
EXTENDS Integers, FiniteSets, FiniteSetsExt

CONSTANTS
    Sockets,        \* the sockets the peer writes to its neighbours with
    Interval,       \* _interval
    Expiration,     \* _exp_timeout
    MaxDelay,       \* how many seconds a heartbeat is on its way at most
    CoarseClock     \* whether two sockets may get the same time

ASSUME HeartbeatAssumption ==
    /\ Interval \in Nat \ {0} /\ Expiration \in Nat \ {0} /\ MaxDelay \in Nat
    /\ CoarseClock \in BOOLEAN

Unheard == -1

VARIABLES
    q,          \* _q: the set of sockets with the seconds until each is due
    limit,      \* _limits at the other ends: the seconds left, or Unheard
    flight,     \* the heartbeats on their way, with the seconds they have been
    open,       \* the sockets with a channel
    silent,     \* what is written to these no longer arrives, and nobody is told
    silence,    \* history: for how many seconds
    expired,    \* history: on_expired has been called for these at the other end
    missed      \* history: the heartbeats that left the socket empty since the last that came

vars == <<q, limit, flight, open, silent, silence, expired, missed>>

Init ==
    /\ q = {} /\ flight = {} /\ open = {} /\ silent = {} /\ expired = {}
    /\ limit = [s \in Sockets |-> Unheard]
    /\ silence = [s \in Sockets |-> 0] /\ missed = [s \in Sockets |-> 0]

\* mutant
WithoutNone(s) == q

Without(s) == {e \in q : e.sid # s}

Item(s) == [sid |-> s, left |-> Interval]

\* _q orders by time alone: an item with the time of another one is not inserted.
Inserted(items, sids) ==
    LET OneIsThere(K) == K # {} \/ \E e \in items : e.left = Interval
    IN  {items \cup {Item(s) : s \in K} :
            K \in {L \in SUBSET sids : L = sids \/ (CoarseClock /\ OneIsThere(L))}}

\* The channel has been established.
Update(s) ==
    /\ s \notin open \cup expired
    /\ open' = open \cup {s}
    /\ q' \in Inserted(Without(s), {s})
    /\ UNCHANGED <<limit, flight, silent, silence, expired, missed>>

Due == {e \in q : e.left = 0}

\* A heartbeat leaves by the socket, and is lost when nothing arrives any more.
Sent(s) == IF s \in silent THEN flight ELSE flight \cup {[sid |-> s, age |-> 0]}

\* An empty heartbeat tells the other end nothing; it counts once that end waits.
MissedAfter(sids) == [s \in Sockets |->
    IF s \in sids /\ limit[s] # Unheard THEN missed[s] + 1 ELSE missed[s]]

\* step, the sending half: the packet is moved from for the first socket that is
\* due, and what the writer pool gets for the others is empty.
Beat(first, others) ==
    /\ q' \in Inserted(q \ (others \cup {first}), {e.sid : e \in others \cup {first}})
    /\ flight' = Sent(first.sid)
    /\ missed' = MissedAfter({e.sid : e \in others})
    /\ UNCHANGED <<limit, open, silent, silence, expired>>

\* mutant
ProcessAdding(h) ==
    /\ flight' = flight \ {h}
    /\ limit' = [limit EXCEPT ![h.sid] = Max({@, 0}) + Expiration]
    /\ missed' = [missed EXCEPT ![h.sid] = 0]
    /\ UNCHANGED <<q, open, silent, silence, expired>>

\* mutant
ProcessFirst(h) ==
    /\ flight' = flight \ {h}
    /\ limit' = IF h.sid \in open \ expired /\ limit[h.sid] = Unheard
                THEN [limit EXCEPT ![h.sid] = Expiration] ELSE limit
    /\ missed' = [missed EXCEPT ![h.sid] = 0]
    /\ UNCHANGED <<q, open, silent, silence, expired>>

\* process: a heartbeat has come.
Process(h) ==
    /\ flight' = flight \ {h}
    /\ IF h.sid \in open \ expired
       THEN /\ limit' = [limit EXCEPT ![h.sid] = Expiration]
            /\ missed' = [missed EXCEPT ![h.sid] = 0]
       ELSE UNCHANGED <<limit, missed>>
    /\ UNCHANGED <<q, open, silent, silence, expired>>

\* step, the other half, at the other end: the connection is given up.
Expire(s) ==
    /\ limit[s] = 0
    /\ limit' = [limit EXCEPT ![s] = Unheard]
    /\ expired' = expired \cup {s}
    /\ UNCHANGED <<q, flight, open, silent, silence, missed>>

\* remove: the socket is closed, by the other end or by this one.
RemoveSocket(s) ==
    /\ s \in open
    /\ open' = open \ {s}
    /\ q' = Without(s)
    /\ flight' = {h \in flight : h.sid # s}
    /\ limit' = [limit EXCEPT ![s] = Unheard]
    /\ silent' = silent \ {s} /\ silence' = [silence EXCEPT ![s] = 0]
    /\ missed' = [missed EXCEPT ![s] = 0]
    /\ UNCHANGED expired

\* The network.
FallSilent(s) ==
    /\ s \in open \ silent
    /\ silent' = silent \cup {s}
    /\ flight' = {h \in flight : h.sid # s}
    /\ UNCHANGED <<q, limit, open, silence, expired, missed>>

\* A second passes: the peers take their steps more often, and what has been on
\* its way for too long has arrived.
Tick ==
    /\ Due = {} /\ \A s \in Sockets : limit[s] # 0
    /\ \A h \in flight : h.age < MaxDelay
    /\ q' = {[e EXCEPT !.left = @ - 1] : e \in q}
    /\ limit' = [s \in Sockets |-> IF limit[s] = Unheard THEN Unheard ELSE limit[s] - 1]
    /\ flight' = {[h EXCEPT !.age = @ + 1] : h \in flight}
    /\ silence' = [s \in Sockets |->
                      IF s \in silent /\ limit[s] # Unheard THEN silence[s] + 1 ELSE silence[s]]
    /\ UNCHANGED <<open, silent, expired, missed>>

Next ==
    \/ \E s \in Sockets : Update(s) \/ Expire(s) \/ RemoveSocket(s) \/ FallSilent(s)
    \/ \E first \in Due : \E others \in SUBSET (Due \ {first}) : Beat(first, others)
    \/ \E h \in flight : Process(h)
    \/ Tick

Spec == Init /\ [][Next]_vars

-----------------------------------------------------------------------------
(* Properties.                                                             *)

TypeOK ==
    /\ q \subseteq [sid : Sockets, left : 0 .. Interval]
    /\ limit \in [Sockets -> Unheard .. Expiration]
    /\ flight \subseteq [sid : Sockets, age : 0 .. MaxDelay]
    /\ open \subseteq Sockets /\ silent \subseteq open /\ expired \subseteq Sockets
    /\ silence \in [Sockets -> Nat] /\ missed \in [Sockets -> Nat]

\* A connection with a channel has one place in the queue of heartbeats, and a
\* closed one has none (heartbeat_controller.hpp:70).
OneBeatEach ==
    \A s \in Sockets :
        Cardinality({e \in q : e.sid = s}) = IF s \in open THEN 1 ELSE 0

HasPlace(s) == \E e \in q : e.sid = s

\* A connection that is alive is given up for two reasons only: its item had the time
\* of another one and was not inserted, or so many of its heartbeats in a row were sent
\* empty, for another was due in the same step, that the next one could not come before
\* the limit any more.  With none missed the interval and the delay decide
\* (heartbeat_controller.hpp:68, :94, :113).
NoFalseExpiry ==
    \A s \in expired \cap open :
        \/ s \in silent
        \/ ~HasPlace(s)
        \/ (missed[s] + 1) * Interval + MaxDelay >= Expiration

\* A connection that has been heard from and has gone silent is given up when the
\* limit has passed (heartbeat_controller.hpp:129).
SilenceEnds == \A s \in open : silence[s] <= Expiration
=============================================================================
