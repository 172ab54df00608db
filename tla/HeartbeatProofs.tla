-------------------------- MODULE HeartbeatProofs --------------------------
(***************************************************************************)
(* The heartbeats of a peer, for any sockets, intervals, limits and        *)
(* delays, whatever is due together and whatever time items get: a         *)
(* connection that has gone silent is given up in time, and one that is    *)
(* alive only if it has lost its place in the queue or if so many of its   *)
(* heartbeats left empty that the next one could not come in time.  If no  *)
(* two get the same time, every connection has its one place.              *)
(***************************************************************************)
EXTENDS Heartbeat, FiniteSetTheorems, TLAPS

-----------------------------------------------------------------------------
(***************************************************************************)
(* The invariant.                                                          *)
(***************************************************************************)

\* Limits run for open sockets only, and only silence is counted.
Shapes ==
    /\ limit \in [Sockets -> Int] /\ silence \in [Sockets -> Nat] /\ missed \in [Sockets -> Nat]
    /\ open \subseteq Sockets /\ silent \subseteq open /\ expired \subseteq Sockets
    /\ \A s \in Sockets : limit[s] # Unheard => s \in open
    /\ \A s \in Sockets \ silent : silence[s] = 0

\* What is on its way is from an open socket that is not silent.
Flight ==
    \A h \in flight :
        /\ h = [sid |-> h.sid, age |-> h.age]
        /\ h.sid \in open \ silent /\ h.age \in 0 .. MaxDelay

\* The queue has open sockets, each at most once.
Queue ==
    /\ \A e \in q :
           e = [sid |-> e.sid, left |-> e.left] /\ e.sid \in open /\ e.left \in 0 .. Interval
    /\ \A e, f \in q : e.sid = f.sid => e = f

\* The silence and what is left of a limit never exceed the limit as it was set.
LimitRunsDown ==
    \A s \in Sockets :
        /\ silence[s] <= Expiration
        /\ limit[s] # Unheard => limit[s] \in 0 .. Expiration /\ silence[s] + limit[s] <= Expiration

\* If no two get the same time, no socket is left out of the queue.
EachHasPlace == ~CoarseClock => \A s \in open : HasPlace(s)

\* What is still to be sent by a live connection is due so many intervals after the
\* heartbeat that set the limit as there were heartbeats missed, and one more, ...
Aged(s) ==
    \E e \in q : e.sid = s /\ Expiration + e.left <= limit[s] + (missed[s] + 1) * Interval

\* ... or a heartbeat that comes before the limit passes is on its way, ...
OnItsWay(s) == \E h \in flight : h.sid = s /\ MaxDelay - h.age < limit[s]

\* ... or too many were missed.
Late(s) == (missed[s] + 1) * Interval + MaxDelay >= Expiration

InTime ==
    /\ \A s \in open \ silent :
           limit[s] # Unheard /\ HasPlace(s) => Aged(s) \/ OnItsWay(s) \/ Late(s)
    /\ NoFalseExpiry

HeartbeatInvariant == Shapes /\ Flight /\ Queue /\ LimitRunsDown /\ EachHasPlace /\ InTime

-----------------------------------------------------------------------------
(***************************************************************************)
(* What a step keeps.                                                      *)
(***************************************************************************)

\* The parts of the invariant follow one by one from the step.
LEMMA AllParts ==
    ASSUME Shapes', Flight', Queue', LimitRunsDown', EachHasPlace', InTime'
    PROVE  HeartbeatInvariant'
BY DEF HeartbeatInvariant

\* What is still to come by a socket comes after a step that does not touch it.
LEMMA SameInTime ==
    ASSUME NEW t, limit'[t] = limit[t], missed'[t] = missed[t],
           \A e \in q : e.sid = t => e \in q',
           \A h \in flight : h.sid = t => h \in flight',
           Aged(t) \/ OnItsWay(t) \/ Late(t)
    PROVE  Aged(t)' \/ OnItsWay(t)' \/ Late(t)'
<1>1. CASE Aged(t)
    BY <1>1 DEF Aged
<1>2. CASE OnItsWay(t)
    BY <1>2 DEF OnItsWay
<1>3. CASE Late(t)
    BY <1>3 DEF Late
<1> QED BY <1>1, <1>2, <1>3

\* The two parts of InTime for a socket that is given up, and after a step.
LEMMA GivenUp ==
    ASSUME NEW t \in expired \cap open, NoFalseExpiry
    PROVE  t \in silent \/ ~HasPlace(t) \/ Late(t)
BY DEF NoFalseExpiry, Late

LEMMA InTimeAfter ==
    ASSUME \A t \in open' \ silent' :
               limit'[t] # Unheard /\ HasPlace(t)' => Aged(t)' \/ OnItsWay(t)' \/ Late(t)',
           \A t \in expired' \cap open' : t \in silent' \/ ~HasPlace(t)' \/ Late(t)'
    PROVE  InTime'
BY DEF InTime, NoFalseExpiry, Late

\* What is inserted comes to what is there, and nothing is left out unless it has the
\* time of another.
LEMMA InsertedItems ==
    ASSUME NEW items, NEW sids, NEW new \in Inserted(items, sids)
    PROVE  /\ \A e \in items : e \in new
           /\ \A e \in new : e \in items \/ \E s \in sids : e = Item(s)
           /\ ~CoarseClock => \A s \in sids : Item(s) \in new
<1>1. PICK K \in SUBSET sids :
          /\ new = items \cup {Item(s) : s \in K}
          /\ K = sids \/ CoarseClock
    BY DEF Inserted
<1> QED BY <1>1

\* A queue to which sockets are added that it does not have.
LEMMA QueueAfter ==
    ASSUME Queue, NEW rest, rest \subseteq q, NEW sids, sids \subseteq open',
           \A e \in rest : e.sid \notin sids /\ e.sid \in open',
           q' \in Inserted(rest, sids)
    PROVE  Queue'
<1>1. \A e \in q' : e \in rest \/ \E s \in sids : e = Item(s)
    BY InsertedItems
<1>2. Interval \in 0 .. Interval
    BY HeartbeatAssumption DEF HeartbeatAssumption
<1>3. \A s \in sids : Item(s) = [sid |-> s, left |-> Interval] /\ Item(s).sid = s /\ Item(s).left = Interval
    BY DEF Item
<1>4. ASSUME NEW e \in q'
      PROVE  e = [sid |-> e.sid, left |-> e.left] /\ e.sid \in open' /\ e.left \in 0 .. Interval
    <2>1. CASE e \in rest
        BY <2>1 DEF Queue
    <2>2. CASE \E s \in sids : e = Item(s)
        BY <1>2, <1>3, <2>2
    <2> QED BY <1>1, <2>1, <2>2
<1>5. ASSUME NEW e \in q', NEW f \in q', e.sid = f.sid
      PROVE  e = f
    <2>1. CASE e \in rest /\ f \in rest
        BY <1>5, <2>1 DEF Queue
    <2>2. CASE e \notin rest \/ f \notin rest
        <3>1. e.sid \in sids
            BY <1>1, <1>3, <1>5, <2>2
        <3>2. e \notin rest /\ f \notin rest
            BY <1>5, <3>1
        <3>3. e = Item(e.sid) /\ f = Item(f.sid)
            BY <1>1, <1>3, <3>2
        <3> QED BY <1>5, <3>3
    <2> QED BY <2>1, <2>2
<1> QED BY <1>4, <1>5 DEF Queue

\* A new connection gets its place in the queue, and nothing has come by it yet.
LEMMA UpdateKeeps ==
    ASSUME HeartbeatInvariant, NEW s \in Sockets, Update(s)
    PROVE  HeartbeatInvariant'
<1>1. /\ s \notin open /\ open' = open \cup {s} /\ limit' = limit /\ flight' = flight
      /\ silent' = silent /\ silence' = silence /\ expired' = expired /\ missed' = missed
      /\ q' \in Inserted(Without(s), {s}) /\ s \notin expired
    BY DEF Update
<1>2. Shapes /\ Flight /\ Queue /\ LimitRunsDown /\ EachHasPlace /\ InTime
    BY DEF HeartbeatInvariant
<1>3. \A e \in q : e \in Without(s) /\ e.sid # s
    BY <1>1, <1>2 DEF Without, Queue
<1>4. (\A e \in q : e \in q') /\ (~CoarseClock => Item(s) \in q' /\ Item(s).sid = s)
    BY <1>1, <1>3, InsertedItems DEF Item
<1>5. Shapes'
    BY <1>1, <1>2 DEF Shapes
<1>6. Flight'
    BY <1>1, <1>2 DEF Flight
<1>7. Queue'
    <2>1. Without(s) \subseteq q /\ \A e \in Without(s) : e.sid \notin {s} /\ e.sid \in open'
        BY <1>1, <1>2 DEF Without, Queue
    <2>2. {s} \subseteq open'
        BY <1>1
    <2> QED BY <1>1, <1>2, <2>1, <2>2, QueueAfter
<1>8. LimitRunsDown'
    BY <1>1, <1>2 DEF LimitRunsDown
<1>9. EachHasPlace'
    BY <1>1, <1>2, <1>4 DEF EachHasPlace, HasPlace
<1>10. InTime'
    <2>1. ASSUME NEW t, HasPlace(t)', t # s PROVE HasPlace(t)
        <3>1. PICK e \in q' : e.sid = t
            BY <2>1 DEF HasPlace
        <3>2. e \in Without(s) \/ e = Item(s)
            BY <1>1, InsertedItems
        <3>3. Item(s).sid = s
            BY DEF Item
        <3>4. e \in q
            BY ONLY <2>1, <3>1, <3>2, <3>3 DEF Without
        <3> QED BY <3>1, <3>4 DEF HasPlace
    <2>2. ASSUME NEW t \in open' \ silent', limit'[t] # Unheard, HasPlace(t)'
          PROVE  Aged(t)' \/ OnItsWay(t)' \/ Late(t)'
        <3>1. t \in open \ silent /\ limit[t] # Unheard /\ t # s
            BY <1>1, <1>2, <2>2 DEF Shapes
        <3>2. Aged(t) \/ OnItsWay(t) \/ Late(t)
            BY <1>2, <2>1, <2>2, <3>1 DEF InTime
        <3> QED BY ONLY <1>1, <1>4, <3>2, SameInTime
    <2>3. ASSUME NEW t \in expired' \cap open'
          PROVE  t \in silent' \/ ~HasPlace(t)' \/ Late(t)'
        <3>1. t \in expired \cap open /\ t # s
            BY <1>1
        <3>2. t \in silent \/ ~HasPlace(t) \/ Late(t)
            BY <1>2, <3>1, GivenUp DEF InTime
        <3> QED BY <1>1, <2>1, <3>1, <3>2 DEF Late
    <2> QED BY ONLY <2>2, <2>3, InTimeAfter
<1> QED BY <1>5, <1>6, <1>7, <1>8, <1>9, <1>10, AllParts

\* Before its limit passes a live connection is heard from, so the limit that has
\* passed is that of a silent one.
LEMMA ExpireKeeps ==
    ASSUME HeartbeatInvariant, NEW s \in Sockets, Expire(s)
    PROVE  HeartbeatInvariant'
<1>1. /\ limit[s] = 0 /\ limit' = [limit EXCEPT ![s] = Unheard] /\ expired' = expired \cup {s}
      /\ q' = q /\ flight' = flight /\ open' = open /\ silent' = silent /\ silence' = silence
      /\ missed' = missed
    BY DEF Expire
<1>2. Shapes /\ Flight /\ Queue /\ LimitRunsDown /\ EachHasPlace /\ InTime
    BY DEF HeartbeatInvariant
<1>3. /\ limit' \in [Sockets -> Int] /\ limit'[s] = Unheard
      /\ \A t \in Sockets : t # s => limit'[t] = limit[t]
    BY <1>1, <1>2 DEF Shapes, Unheard
<1>4. s \in open /\ limit[s] # Unheard
    BY <1>1, <1>2 DEF Shapes, Unheard
<1>5. Shapes'
    BY <1>1, <1>2, <1>3 DEF Shapes
<1>6. Flight'
    BY <1>1, <1>2 DEF Flight
<1>7. Queue'
    BY <1>1, <1>2 DEF Queue
<1>8. LimitRunsDown'
    BY <1>1, <1>2, <1>3 DEF LimitRunsDown
<1>9. EachHasPlace'
    BY <1>1, <1>2 DEF EachHasPlace, HasPlace
<1>10. InTime'
    <2>1. MaxDelay \in Nat /\ Interval \in Nat /\ Expiration \in Nat
        BY HeartbeatAssumption DEF HeartbeatAssumption
    <2>2. \A t : (HasPlace(t)' <=> HasPlace(t)) /\ (Late(t)' <=> Late(t))
        BY <1>1 DEF HasPlace, Late
    <2>3. ~OnItsWay(s)
        BY <1>1, <1>2, <2>1 DEF OnItsWay, Flight
    <2>4. Aged(s) => Late(s)
        <3>1. SUFFICES ASSUME NEW e \in q, Expiration + e.left <= limit[s] + (missed[s] + 1) * Interval
                       PROVE  (missed[s] + 1) * Interval + MaxDelay >= Expiration
            BY DEF Aged, Late
        <3>2. missed[s] \in Nat /\ e.left \in 0 .. Interval
            BY <1>2 DEF Shapes, Queue
        <3>3. PICK run \in Int : run = (missed[s] + 1) * Interval
            BY ONLY <2>1, <3>2
        <3>4. Expiration + e.left <= run
            BY ONLY <1>1, <3>1, <3>3
        <3>5. run + MaxDelay >= Expiration
            BY ONLY <2>1, <3>2, <3>4
        <3> QED BY ONLY <3>3, <3>5
    <2>5. s \in silent \/ ~HasPlace(s) \/ Late(s)
        BY <1>2, <1>4, <2>3, <2>4 DEF InTime
    <2>6. ASSUME NEW t \in open' \ silent', limit'[t] # Unheard, HasPlace(t)'
          PROVE  Aged(t)' \/ OnItsWay(t)' \/ Late(t)'
        <3>1. t \in open \ silent /\ t # s /\ t \in Sockets
            BY <1>1, <1>2, <1>3, <2>6 DEF Shapes
        <3>2. limit'[t] = limit[t] /\ limit[t] # Unheard
            BY <1>3, <2>6, <3>1
        <3>3. Aged(t) \/ OnItsWay(t) \/ Late(t)
            BY <1>2, <2>2, <2>6, <3>1, <3>2 DEF InTime
        <3> QED BY ONLY <1>1, <3>2, <3>3, SameInTime
    <2>7. ASSUME NEW t \in expired' \cap open'
          PROVE  t \in silent' \/ ~HasPlace(t)' \/ Late(t)'
        <3>1. CASE t = s
            BY <1>1, <2>2, <2>5, <3>1
        <3>2. CASE t # s
            <4>1. t \in expired \cap open
                BY <1>1, <3>2
            <4>2. t \in silent \/ ~HasPlace(t) \/ Late(t)
                BY <1>2, <4>1, GivenUp DEF InTime
            <4> QED BY <1>1, <2>2, <4>2
        <3> QED BY <3>1, <3>2
    <2> QED BY ONLY <2>6, <2>7, InTimeAfter
<1> QED BY <1>5, <1>6, <1>7, <1>8, <1>9, <1>10, AllParts

\* A closed socket leaves nothing behind.
LEMMA RemoveKeeps ==
    ASSUME HeartbeatInvariant, NEW s \in Sockets, RemoveSocket(s)
    PROVE  HeartbeatInvariant'
<1>1. /\ s \in open /\ open' = open \ {s} /\ q' = {e \in q : e.sid # s}
      /\ flight' = {h \in flight : h.sid # s} /\ limit' = [limit EXCEPT ![s] = Unheard]
      /\ silent' = silent \ {s} /\ silence' = [silence EXCEPT ![s] = 0]
      /\ expired' = expired /\ missed' = [missed EXCEPT ![s] = 0]
    BY DEF RemoveSocket, Without
<1>2. Shapes /\ Flight /\ Queue /\ LimitRunsDown /\ EachHasPlace /\ InTime
    BY DEF HeartbeatInvariant
<1>3. /\ limit' \in [Sockets -> Int] /\ limit'[s] = Unheard
      /\ \A t \in Sockets : t # s => limit'[t] = limit[t]
    BY <1>1, <1>2 DEF Shapes, Unheard
<1>4. /\ silence' \in [Sockets -> Nat] /\ silence'[s] = 0
      /\ \A t \in Sockets : t # s => silence'[t] = silence[t]
      /\ missed' \in [Sockets -> Nat]
      /\ \A t \in Sockets : t # s => missed'[t] = missed[t]
    BY <1>1, <1>2 DEF Shapes
<1>5. Shapes'
    BY <1>1, <1>2, <1>3, <1>4 DEF Shapes
<1>6. Flight'
    BY <1>1, <1>2 DEF Flight
<1>7. Queue'
    BY <1>1, <1>2 DEF Queue
<1>8. LimitRunsDown'
    <2>1. Expiration \in Nat
        BY HeartbeatAssumption DEF HeartbeatAssumption
    <2> QED BY <1>2, <1>3, <1>4, <2>1 DEF LimitRunsDown
<1>9. EachHasPlace'
    <2>1. ASSUME NEW t \in open', HasPlace(t) PROVE HasPlace(t)'
        BY <1>1, <2>1 DEF HasPlace
    <2> QED BY <1>1, <1>2, <2>1 DEF EachHasPlace
<1>10. InTime'
    <2>1. ASSUME NEW t, HasPlace(t)' PROVE HasPlace(t)
        BY <1>1, <2>1 DEF HasPlace
    <2>2. ASSUME NEW t \in open' \ silent', limit'[t] # Unheard, HasPlace(t)'
          PROVE  Aged(t)' \/ OnItsWay(t)' \/ Late(t)'
        <3>1. t \in open \ silent /\ t # s /\ limit'[t] = limit[t] /\ limit[t] # Unheard
            BY <1>1, <1>2, <1>3, <2>2 DEF Shapes
        <3>2. missed'[t] = missed[t]
            BY <1>2, <1>4, <3>1 DEF Shapes
        <3>3. Aged(t) \/ OnItsWay(t) \/ Late(t)
            BY <1>2, <2>1, <2>2, <3>1 DEF InTime
        <3>4. (\A e \in q : e.sid = t => e \in q') /\ (\A h \in flight : h.sid = t => h \in flight')
            BY ONLY <1>1, <3>1
        <3> QED BY ONLY <3>1, <3>2, <3>3, <3>4, SameInTime
    <2>3. ASSUME NEW t \in expired' \cap open'
          PROVE  t \in silent' \/ ~HasPlace(t)' \/ Late(t)'
        <3>1. t \in expired \cap open /\ t # s /\ t \in Sockets
            BY <1>1, <1>2 DEF Shapes
        <3>2. t \in silent \/ ~HasPlace(t) \/ Late(t)
            BY <1>2, <3>1, GivenUp DEF InTime
        <3>3. missed'[t] = missed[t] /\ (t \in silent => t \in silent')
            BY <1>1, <1>4, <3>1
        <3> QED BY <2>1, <3>2, <3>3 DEF Late
    <2> QED BY ONLY <2>2, <2>3, InTimeAfter
<1> QED BY <1>5, <1>6, <1>7, <1>8, <1>9, <1>10, AllParts

\* Of a connection that falls silent nothing is on its way any more.
LEMMA FallSilentKeeps ==
    ASSUME HeartbeatInvariant, NEW s \in Sockets, FallSilent(s)
    PROVE  HeartbeatInvariant'
<1>1. /\ s \in open \ silent /\ silent' = silent \cup {s} /\ flight' = {h \in flight : h.sid # s}
      /\ q' = q /\ limit' = limit /\ open' = open /\ silence' = silence /\ expired' = expired
      /\ missed' = missed
    BY DEF FallSilent
<1>2. Shapes /\ Flight /\ Queue /\ LimitRunsDown /\ EachHasPlace /\ InTime
    BY DEF HeartbeatInvariant
<1>3. Shapes'
    BY <1>1, <1>2 DEF Shapes
<1>4. Flight'
    BY <1>1, <1>2 DEF Flight
<1>5. Queue'
    BY <1>1, <1>2 DEF Queue
<1>6. LimitRunsDown'
    BY <1>1, <1>2 DEF LimitRunsDown
<1>7. EachHasPlace'
    BY <1>1, <1>2 DEF EachHasPlace, HasPlace
<1>8. InTime'
    <2>1. \A t : (HasPlace(t)' <=> HasPlace(t)) /\ (Late(t)' <=> Late(t))
        BY <1>1 DEF HasPlace, Late
    <2>2. ASSUME NEW t \in open' \ silent', limit'[t] # Unheard, HasPlace(t)'
          PROVE  Aged(t)' \/ OnItsWay(t)' \/ Late(t)'
        <3>1. t \in open \ silent /\ t # s /\ limit[t] # Unheard
            BY <1>1, <2>2
        <3>2. Aged(t) \/ OnItsWay(t) \/ Late(t)
            BY <1>2, <2>1, <2>2, <3>1 DEF InTime
        <3>3. (\A e \in q : e.sid = t => e \in q') /\ (\A h \in flight : h.sid = t => h \in flight')
            BY ONLY <1>1, <3>1
        <3> QED BY ONLY <1>1, <3>2, <3>3, SameInTime
    <2>3. ASSUME NEW t \in expired' \cap open'
          PROVE  t \in silent' \/ ~HasPlace(t)' \/ Late(t)'
        <3>1. t \in silent \/ ~HasPlace(t) \/ Late(t)
            BY <1>1, <1>2, GivenUp DEF InTime
        <3> QED BY <1>1, <2>1, <3>1
    <2> QED BY ONLY <2>2, <2>3, InTimeAfter
<1> QED BY <1>3, <1>4, <1>5, <1>6, <1>7, <1>8, AllParts

\* The sockets that were due have their place again, one interval later.  The heartbeat
\* of the first is on its way with all of the delay before it; the others have missed
\* one more.  By what was not due the same is to be sent as before.
LEMMA BeatKeeps ==
    ASSUME HeartbeatInvariant, NEW first \in Due, NEW others \in SUBSET (Due \ {first}),
           Beat(first, others)
    PROVE  HeartbeatInvariant'
<1> DEFINE due == others \cup {first}
           sids == {e.sid : e \in due}
<1>1. /\ q' \in Inserted(q \ due, sids) /\ flight' = Sent(first.sid)
      /\ limit' = limit /\ open' = open /\ silent' = silent /\ silence' = silence
      /\ expired' = expired /\ missed' = MissedAfter({e.sid : e \in others})
    BY DEF Beat
<1>2. Shapes /\ Flight /\ Queue /\ LimitRunsDown /\ EachHasPlace /\ InTime
    BY DEF HeartbeatInvariant
<1>3. \A e \in due : e \in q /\ e.left = 0 /\ e.sid \in open
    BY <1>2 DEF Due, Queue
<1>4. \A e \in q \ due : e.sid \notin sids
    BY <1>2, <1>3 DEF Queue
<1>5. /\ \A e \in q \ due : e \in q'
      /\ ~CoarseClock => \A s \in sids : Item(s) \in q'
    BY <1>1, InsertedItems
<1>6. first.sid \in open
    BY <1>3
<1>7. /\ \A h \in flight : h \in flight'
      /\ \A h \in flight' :
             h \in flight \/ (h = [sid |-> first.sid, age |-> 0] /\ first.sid \notin silent)
      /\ first.sid \notin silent => [sid |-> first.sid, age |-> 0] \in flight'
    BY <1>1 DEF Sent
<1>8. Shapes'
    <2>1. missed' \in [Sockets -> Nat]
        BY ONLY <1>1, <1>2 DEF MissedAfter, Shapes
    <2> QED BY <1>1, <1>2, <2>1 DEF Shapes
<1>9. Flight'
    <2>1. 0 \in 0 .. MaxDelay
        BY HeartbeatAssumption DEF HeartbeatAssumption
    <2> SUFFICES ASSUME NEW h \in flight'
                 PROVE  /\ h = [sid |-> h.sid, age |-> h.age]
                        /\ h.sid \in open \ silent /\ h.age \in 0 .. MaxDelay
        BY <1>1 DEF Flight
    <2>2. CASE h \in flight
        BY <1>2, <2>2 DEF Flight
    <2>3. CASE h \notin flight
        <3>1. h = [sid |-> first.sid, age |-> 0] /\ first.sid \notin silent
            BY <1>7, <2>3
        <3> QED BY <1>6, <2>1, <3>1
    <2> QED BY <2>2, <2>3
<1>10. Queue'
    <2>1. q \ due \subseteq q /\ sids \subseteq open'
        BY <1>1, <1>3
    <2>2. \A e \in q \ due : e.sid \notin sids /\ e.sid \in open'
        BY <1>1, <1>2, <1>4 DEF Queue
    <2> HIDE DEF due, sids
    <2> QED BY <1>1, <1>2, <2>1, <2>2, QueueAfter
<1>11. LimitRunsDown'
    BY <1>1, <1>2 DEF LimitRunsDown
<1>12. EachHasPlace'
    <2> SUFFICES ASSUME ~CoarseClock, NEW s \in open PROVE HasPlace(s)'
        BY <1>1 DEF EachHasPlace
    <2>1. PICK e \in q : e.sid = s
        BY <1>2 DEF EachHasPlace, HasPlace
    <2>2. CASE e \in due
        <3>1. s \in sids
            BY <2>1, <2>2
        <3>2. Item(s) \in q' /\ Item(s).sid = s
            BY <1>5, <3>1 DEF Item
        <3> QED BY <3>2 DEF HasPlace
    <2>3. CASE e \notin due
        BY <1>5, <2>1, <2>3 DEF HasPlace
    <2> QED BY <2>2, <2>3
<1>13. InTime'
    <2> DEFINE empty == {e.sid : e \in others}
    <2>1. /\ \A t \in Sockets : missed[t] \in Nat /\ (t \notin empty => missed'[t] = missed[t])
          /\ \A t \in Sockets : t \in empty /\ limit[t] # Unheard => missed'[t] = missed[t] + 1
          /\ \A t \in Sockets : missed'[t] \in {missed[t], missed[t] + 1}
        BY ONLY <1>1, <1>2 DEF MissedAfter, Shapes
    <2>2. Interval \in Nat /\ MaxDelay \in Nat /\ Expiration \in Nat
        BY HeartbeatAssumption DEF HeartbeatAssumption
    <2>3. ASSUME NEW t, HasPlace(t)' PROVE HasPlace(t) /\ (t \in sids => Item(t) \in q')
        <3>1. PICK f \in q' : f.sid = t
            BY <2>3 DEF HasPlace
        <3>2. f \in q \ due \/ \E r \in sids : f = Item(r)
            BY ONLY <1>1, InsertedItems
        <3>3. CASE f \in q \ due
            BY <1>4, <3>1, <3>3 DEF HasPlace
        <3>4. CASE \E r \in sids : f = Item(r)
            <4>1. t \in sids /\ f = Item(t)
                BY ONLY <3>1, <3>4 DEF Item
            <4>2. HasPlace(t)
                BY <1>3, <4>1 DEF HasPlace
            <4> QED BY <3>1, <4>1, <4>2
        <3> QED BY <3>2, <3>3, <3>4
    <2>4. ASSUME NEW t \in Sockets, Late(t) PROVE Late(t)'
        <3>1. missed[t] \in Nat /\ missed'[t] \in {missed[t], missed[t] + 1}
            BY ONLY <2>1
        <3>2. PICK run \in Int : run = (missed[t] + 1) * Interval
            BY ONLY <2>2, <3>1
        <3>3. PICK more \in Int : more = (missed'[t] + 1) * Interval
            BY ONLY <2>2, <3>1
        <3>4. more = run \/ more = run + Interval
            BY ONLY <2>2, <3>1, <3>2, <3>3
        <3>5. run + MaxDelay >= Expiration
            BY ONLY <2>4, <3>2 DEF Late
        <3>6. more + MaxDelay >= Expiration
            BY ONLY <2>2, <3>4, <3>5
        <3> QED BY ONLY <3>3, <3>6 DEF Late
    <2>5. ASSUME NEW t \in open' \ silent', limit'[t] # Unheard, HasPlace(t)'
          PROVE  Aged(t)' \/ OnItsWay(t)' \/ Late(t)'
        <3>1. t \in open \ silent /\ t \in Sockets /\ limit[t] # Unheard /\ limit[t] \in Int
            BY <1>1, <1>2, <2>5 DEF Shapes
        <3>2. Aged(t) \/ OnItsWay(t) \/ Late(t)
            BY <1>2, <2>3, <2>5, <3>1 DEF InTime
        <3>3. OnItsWay(t) => OnItsWay(t)'
            BY ONLY <1>1, <1>7 DEF OnItsWay
        <3>4. Late(t) => Late(t)'
            BY ONLY <2>4, <3>1
        <3>5. ASSUME Aged(t) PROVE Aged(t)' \/ OnItsWay(t)' \/ Late(t)'
            <4>1. PICK e \in q : e.sid = t /\ Expiration + e.left <= limit[t] + (missed[t] + 1) * Interval
                BY ONLY <3>5 DEF Aged
            <4>2. PICK run \in Int : run = (missed[t] + 1) * Interval
                BY ONLY <2>1, <2>2, <3>1
            <4>3. CASE e \in others
                <5>1. t \in empty /\ t \in sids /\ e.left = 0
                    BY ONLY <1>3, <4>1, <4>3
                <5>2. missed[t] \in Nat /\ missed'[t] = missed[t] + 1
                    BY ONLY <2>1, <3>1, <5>1
                <5>3. Item(t) \in q' /\ Item(t).sid = t /\ Item(t).left = Interval
                    BY ONLY <2>3, <2>5, <5>1 DEF Item
                <5>4. (missed'[t] + 1) * Interval = run + Interval
                    BY ONLY <2>2, <4>2, <5>2
                <5>5. Expiration + Interval <= limit[t] + (run + Interval)
                    BY ONLY <2>2, <3>1, <4>1, <4>2, <5>1
                <5>6. Expiration + Item(t).left <= limit'[t] + (missed'[t] + 1) * Interval
                    BY ONLY <1>1, <5>3, <5>4, <5>5
                <5> QED BY ONLY <5>3, <5>6 DEF Aged
            <4>4. CASE e = first
                <5>1. first.left = 0 /\ first.sid = t
                    BY ONLY <1>3, <4>1, <4>4
                <5>2. t \notin empty
                    BY <1>2, <1>3, <5>1 DEF Queue
                <5>3. missed'[t] = missed[t]
                    BY ONLY <2>1, <3>1, <5>2
                <5>4. Expiration <= limit[t] + run
                    BY ONLY <2>2, <3>1, <4>1, <4>2, <4>4, <5>1
                <5>5. CASE run + MaxDelay >= Expiration
                    <6>1. (missed[t] + 1) * Interval + MaxDelay >= Expiration
                        BY ONLY <4>2, <5>5
                    <6> QED BY ONLY <5>3, <6>1 DEF Late
                <5>6. CASE MaxDelay < limit[t]
                    <6>1. PICK h : h = [sid |-> first.sid, age |-> 0]
                        OBVIOUS
                    <6>2. h.sid = t /\ h.age = 0
                        BY ONLY <5>1, <6>1
                    <6>3. h \in flight'
                        BY ONLY <1>7, <3>1, <5>1, <6>1
                    <6>4. MaxDelay - h.age < limit'[t]
                        BY ONLY <1>1, <2>2, <5>6, <6>2
                    <6> QED BY ONLY <6>2, <6>3, <6>4 DEF OnItsWay
                <5> QED BY ONLY <2>2, <3>1, <5>4, <5>5, <5>6
            <4>5. CASE e \notin due
                <5>1. e \in q'
                    BY ONLY <1>5, <4>5
                <5>2. t \notin sids
                    BY ONLY <1>4, <4>1, <4>5
                <5>3. missed'[t] = missed[t]
                    BY ONLY <2>1, <3>1, <5>2
                <5> QED BY ONLY <1>1, <4>1, <5>1, <5>3 DEF Aged
            <4> QED BY ONLY <4>3, <4>4, <4>5
        <3> QED BY ONLY <3>2, <3>3, <3>4, <3>5
    <2>6. ASSUME NEW t \in expired' \cap open'
          PROVE  t \in silent' \/ ~HasPlace(t)' \/ Late(t)'
        <3>1. t \in Sockets /\ (t \in silent \/ ~HasPlace(t) \/ Late(t))
            BY <1>1, <1>2, GivenUp DEF InTime, Shapes
        <3> QED BY <1>1, <2>3, <2>4, <3>1
    <2> QED BY ONLY <2>5, <2>6, InTimeAfter
<1> QED BY <1>8, <1>9, <1>10, <1>11, <1>12, <1>13, AllParts

\* A heartbeat sets the limit anew, and the next one is due within an interval.
LEMMA ProcessKeeps ==
    ASSUME HeartbeatInvariant, NEW h \in flight, Process(h)
    PROVE  HeartbeatInvariant'
<1>1. /\ flight' = flight \ {h}
      /\ IF h.sid \in open \ expired
         THEN /\ limit' = [limit EXCEPT ![h.sid] = Expiration]
              /\ missed' = [missed EXCEPT ![h.sid] = 0]
         ELSE limit' = limit /\ missed' = missed
      /\ q' = q /\ open' = open /\ silent' = silent /\ silence' = silence /\ expired' = expired
    BY DEF Process
<1>2. Shapes /\ Flight /\ Queue /\ LimitRunsDown /\ EachHasPlace /\ InTime
    BY DEF HeartbeatInvariant
<1>3. PICK s : s = h.sid /\ s \in open \ silent /\ s \in Sockets
    BY <1>2 DEF Flight, Shapes
<1>4. /\ limit' \in [Sockets -> Int] /\ missed' \in [Sockets -> Nat]
      /\ IF s \in expired
         THEN limit'[s] = limit[s] /\ missed'[s] = missed[s]
         ELSE limit'[s] = Expiration /\ missed'[s] = 0
      /\ \A t \in Sockets : t # s => limit'[t] = limit[t] /\ missed'[t] = missed[t]
    BY <1>1, <1>2, <1>3, HeartbeatAssumption DEF Shapes, HeartbeatAssumption
<1>5. Shapes'
    BY <1>1, <1>2, <1>3, <1>4 DEF Shapes
<1>6. Flight'
    BY <1>1, <1>2 DEF Flight
<1>7. Queue'
    BY <1>1, <1>2 DEF Queue
<1>8. LimitRunsDown'
    <2>1. Expiration \in Nat /\ silence[s] = 0
        BY <1>2, <1>3, HeartbeatAssumption DEF Shapes, HeartbeatAssumption
    <2> SUFFICES ASSUME NEW t \in Sockets
                 PROVE  /\ silence[t] <= Expiration
                        /\ limit'[t] # Unheard =>
                               limit'[t] \in 0 .. Expiration /\ silence[t] + limit'[t] <= Expiration
        BY <1>1 DEF LimitRunsDown
    <2>2. CASE t = s /\ limit'[t] = Expiration
        BY <2>1, <2>2
    <2>3. CASE limit'[t] = limit[t]
        BY <1>2, <2>3 DEF LimitRunsDown
    <2> QED BY <1>4, <2>2, <2>3
<1>9. EachHasPlace'
    BY <1>1, <1>2 DEF EachHasPlace, HasPlace
<1>10. InTime'
    <2>1. \A t : HasPlace(t)' <=> HasPlace(t)
        BY <1>1 DEF HasPlace
    <2>2. ASSUME NEW t \in Sockets, t # s \/ s \in expired, Late(t)
          PROVE  Late(t)'
        BY <1>4, <2>2 DEF Late
    <2>3. ASSUME NEW t \in open' \ silent', limit'[t] # Unheard, HasPlace(t)', t # s
          PROVE  Aged(t)' \/ OnItsWay(t)' \/ Late(t)'
        <3>1. t \in open \ silent /\ t \in Sockets
            BY <1>1, <1>2, <2>3 DEF Shapes
        <3>2. limit'[t] = limit[t] /\ missed'[t] = missed[t] /\ limit[t] # Unheard
            BY <1>4, <2>3, <3>1
        <3>3. Aged(t) \/ OnItsWay(t) \/ Late(t)
            BY <1>2, <2>1, <2>3, <3>1, <3>2 DEF InTime
        <3>4. (\A e \in q : e.sid = t => e \in q') /\ (\A k \in flight : k.sid = t => k \in flight')
            BY ONLY <1>1, <1>3, <2>3
        <3> QED BY ONLY <3>2, <3>3, <3>4, SameInTime
    <2>4. ASSUME HasPlace(s) PROVE Aged(s)' \/ Late(s)'
        <3>1. CASE s \in expired
            <4>1. Late(s)
                BY <1>2, <1>3, <2>4, <3>1, GivenUp DEF InTime
            <4> QED BY <1>3, <2>2, <3>1, <4>1
        <3>2. CASE s \notin expired
            <4>1. PICK e \in q : e.sid = s
                BY <2>4 DEF HasPlace
            <4>2. e.left \in 0 .. Interval /\ Interval \in Nat /\ Expiration \in Nat
                BY <1>2, HeartbeatAssumption DEF Queue, HeartbeatAssumption
            <4>3. limit'[s] = Expiration /\ missed'[s] = 0
                BY <1>4, <3>2
            <4>4. (missed'[s] + 1) * Interval = Interval
                BY ONLY <4>2, <4>3
            <4>5. Expiration + e.left <= limit'[s] + (missed'[s] + 1) * Interval
                BY ONLY <4>2, <4>3, <4>4
            <4> QED BY <1>1, <4>1, <4>5 DEF Aged
        <3> QED BY <3>1, <3>2
    <2>5. ASSUME NEW t \in expired' \cap open'
          PROVE  t \in silent' \/ ~HasPlace(t)' \/ Late(t)'
        <3>1. t \in expired \cap open /\ t \in Sockets
            BY <1>1, <1>2 DEF Shapes
        <3>2. t \in silent \/ ~HasPlace(t) \/ Late(t)
            BY <1>2, <3>1, GivenUp DEF InTime
        <3> QED BY <1>1, <2>1, <2>2, <3>1, <3>2
    <2>6. \A t \in open' \ silent' :
              limit'[t] # Unheard /\ HasPlace(t)' => Aged(t)' \/ OnItsWay(t)' \/ Late(t)'
        BY ONLY <2>1, <2>3, <2>4
    <2> QED BY ONLY <2>5, <2>6, InTimeAfter
<1> QED BY <1>5, <1>6, <1>7, <1>8, <1>9, <1>10, AllParts

\* What is left of every time runs down together.
LEMMA TickKeeps ==
    ASSUME HeartbeatInvariant, Tick
    PROVE  HeartbeatInvariant'
<1>1. /\ Due = {} /\ \A s \in Sockets : limit[s] # 0
      /\ \A h \in flight : h.age < MaxDelay
      /\ q' = {[e EXCEPT !.left = @ - 1] : e \in q}
      /\ flight' = {[h EXCEPT !.age = @ + 1] : h \in flight}
      /\ open' = open /\ silent' = silent /\ expired' = expired /\ missed' = missed
    BY DEF Tick
<1>2. /\ limit' = [s \in Sockets |-> IF limit[s] = Unheard THEN Unheard ELSE limit[s] - 1]
      /\ silence' = [s \in Sockets |->
                        IF s \in silent /\ limit[s] # Unheard THEN silence[s] + 1 ELSE silence[s]]
    BY DEF Tick
<1>3. Shapes /\ Flight /\ Queue /\ LimitRunsDown /\ EachHasPlace /\ InTime
    BY DEF HeartbeatInvariant
<1>4. /\ Interval \in Nat /\ Expiration \in Nat /\ MaxDelay \in Nat
    BY HeartbeatAssumption DEF HeartbeatAssumption
<1>5. ASSUME NEW e \in q
      PROVE  /\ [sid |-> e.sid, left |-> e.left - 1] \in q'
             /\ [e EXCEPT !.left = @ - 1] = [sid |-> e.sid, left |-> e.left - 1]
             /\ e.left \in 1 .. Interval
    <2>1. e = [sid |-> e.sid, left |-> e.left] /\ e.left \in 0 .. Interval /\ e.left # 0
        BY <1>1, <1>3 DEF Queue, Due
    <2>2. [e EXCEPT !.left = @ - 1] = [sid |-> e.sid, left |-> e.left - 1]
        BY <2>1
    <2>3. e.left \in 1 .. Interval
        BY <1>4, <2>1
    <2> QED BY <1>1, <2>2, <2>3
<1>6. ASSUME NEW f \in q'
      PROVE  \E e \in q : f = [sid |-> e.sid, left |-> e.left - 1]
    <2>1. PICK e \in q : f = [e EXCEPT !.left = @ - 1]
        BY <1>1
    <2> QED BY <1>5, <2>1
<1>7. ASSUME NEW h \in flight
      PROVE  /\ [sid |-> h.sid, age |-> h.age + 1] \in flight'
             /\ [h EXCEPT !.age = @ + 1] = [sid |-> h.sid, age |-> h.age + 1]
             /\ h.age + 1 \in 0 .. MaxDelay
    <2>1. h = [sid |-> h.sid, age |-> h.age] /\ h.age \in 0 .. MaxDelay /\ h.age < MaxDelay
        BY <1>1, <1>3 DEF Flight
    <2>2. [h EXCEPT !.age = @ + 1] = [sid |-> h.sid, age |-> h.age + 1]
        BY <2>1
    <2>3. h.age + 1 \in 0 .. MaxDelay
        BY <1>4, <2>1
    <2> QED BY <1>1, <2>2, <2>3
<1>8. Shapes'
    <2>1. ASSUME NEW s \in Sockets
          PROVE  /\ limit'[s] \in Int /\ (limit'[s] # Unheard => limit[s] # Unheard)
                 /\ silence'[s] \in Nat /\ (s \notin silent => silence'[s] = silence[s])
        BY <1>2, <1>3 DEF Shapes, Unheard
    <2>2. limit' \in [Sockets -> Int] /\ silence' \in [Sockets -> Nat]
        BY <1>2, <2>1
    <2> QED BY <1>1, <1>3, <2>1, <2>2 DEF Shapes
<1>9. Flight'
    <2> SUFFICES ASSUME NEW k \in flight'
                 PROVE  /\ k = [sid |-> k.sid, age |-> k.age]
                        /\ k.sid \in open \ silent /\ k.age \in 0 .. MaxDelay
        BY <1>1 DEF Flight
    <2>1. PICK h \in flight : k = [h EXCEPT !.age = @ + 1]
        BY <1>1
    <2>2. k = [sid |-> h.sid, age |-> h.age + 1] /\ h.age + 1 \in 0 .. MaxDelay
        BY <1>7, <2>1
    <2>3. h.sid \in open \ silent
        BY <1>3 DEF Flight
    <2> QED BY <2>2, <2>3
<1>10. Queue'
    <2>1. ASSUME NEW f \in q'
          PROVE  f = [sid |-> f.sid, left |-> f.left] /\ f.sid \in open' /\ f.left \in 0 .. Interval
        <3>1. PICK e \in q : f = [sid |-> e.sid, left |-> e.left - 1]
            BY <1>6
        <3>2. e.left \in 1 .. Interval
            BY <1>5
        <3>3. e.left - 1 \in 0 .. Interval
            BY ONLY <1>4, <3>2
        <3>4. e.sid \in open'
            BY <1>1, <1>3 DEF Queue
        <3> QED BY <3>1, <3>3, <3>4
    <2>2. ASSUME NEW f \in q', NEW g \in q', f.sid = g.sid
          PROVE  f = g
        <3>1. PICK e \in q : f = [sid |-> e.sid, left |-> e.left - 1]
            BY <1>6
        <3>2. PICK d \in q : g = [sid |-> d.sid, left |-> d.left - 1]
            BY <1>6
        <3>3. e = d
            BY <1>3, <2>2, <3>1, <3>2 DEF Queue
        <3> QED BY <3>1, <3>2, <3>3
    <2> QED BY <2>1, <2>2 DEF Queue
<1>11. LimitRunsDown'
    <2> SUFFICES ASSUME NEW s \in Sockets
                 PROVE  /\ silence'[s] <= Expiration
                        /\ limit'[s] # Unheard =>
                               limit'[s] \in 0 .. Expiration /\ silence'[s] + limit'[s] <= Expiration
        BY DEF LimitRunsDown
    <2>1. /\ limit[s] \in Int /\ silence[s] \in Nat /\ limit[s] # 0 /\ silence[s] <= Expiration
          /\ limit[s] # Unheard => limit[s] \in 0 .. Expiration /\ silence[s] + limit[s] <= Expiration
        BY <1>1, <1>3 DEF Shapes, LimitRunsDown
    <2>2. CASE limit[s] = Unheard
        <3>1. limit'[s] = Unheard /\ silence'[s] = silence[s]
            BY <1>2, <2>2
        <3> QED BY <2>1, <3>1
    <2>3. CASE limit[s] # Unheard
        <3>1. limit'[s] = limit[s] - 1 /\ silence'[s] \in {silence[s], silence[s] + 1}
            BY <1>2, <2>3
        <3> QED BY <1>4, <2>1, <2>3, <3>1
    <2> QED BY <2>2, <2>3
<1>12. EachHasPlace'
    <2>1. ASSUME NEW s \in open, HasPlace(s) PROVE HasPlace(s)'
        <3>1. PICK e \in q : e.sid = s
            BY <2>1 DEF HasPlace
        <3>2. PICK f : f = [sid |-> e.sid, left |-> e.left - 1]
            OBVIOUS
        <3>3. f \in q'
            BY <1>5, <3>2
        <3>4. f.sid = s
            BY ONLY <3>1, <3>2
        <3> QED BY <3>3, <3>4 DEF HasPlace
    <2> QED BY <1>1, <1>3, <2>1 DEF EachHasPlace
<1>13. InTime'
    <2>1. ASSUME NEW t, HasPlace(t)' PROVE HasPlace(t)
        <3>1. PICK f \in q' : f.sid = t
            BY <2>1 DEF HasPlace
        <3>2. PICK e \in q : f = [sid |-> e.sid, left |-> e.left - 1]
            BY ONLY <1>6
        <3>3. e.sid = t
            BY ONLY <3>1, <3>2
        <3> QED BY <3>3 DEF HasPlace
    <2>2. \A t : Late(t)' <=> Late(t)
        BY <1>1 DEF Late
    <2>3. ASSUME NEW t \in open' \ silent', limit'[t] # Unheard, HasPlace(t)'
          PROVE  Aged(t)' \/ OnItsWay(t)' \/ Late(t)'
        <3>1. t \in open \ silent /\ t \in Sockets /\ limit[t] \in Int /\ missed[t] \in Nat
            BY <1>1, <1>3, <2>3 DEF Shapes
        <3>2. limit[t] # Unheard /\ limit'[t] = limit[t] - 1
            BY <1>2, <2>3, <3>1
        <3>3. ASSUME Aged(t) PROVE Aged(t)'
            <4>1. PICK e \in q : e.sid = t /\ Expiration + e.left <= limit[t] + (missed[t] + 1) * Interval
                BY ONLY <3>3 DEF Aged
            <4>2. PICK run \in Int : run = (missed[t] + 1) * Interval
                BY ONLY <1>4, <3>1
            <4>3. PICK f : f = [sid |-> e.sid, left |-> e.left - 1]
                OBVIOUS
            <4>4. f \in q' /\ e.left \in 1 .. Interval
                BY ONLY <1>5, <4>3
            <4>5. f.sid = t /\ f.left = e.left - 1
                BY ONLY <4>1, <4>3
            <4>6. e.left \in Int
                BY ONLY <1>4, <4>4
            <4>7. Expiration + f.left <= limit'[t] + run
                BY ONLY <1>4, <3>1, <3>2, <4>1, <4>2, <4>5, <4>6
            <4>8. Expiration + f.left <= limit'[t] + (missed'[t] + 1) * Interval
                BY ONLY <1>1, <4>2, <4>7
            <4> QED BY ONLY <4>4, <4>5, <4>8 DEF Aged
        <3>4. ASSUME OnItsWay(t) PROVE OnItsWay(t)'
            <4>1. PICK h \in flight : h.sid = t /\ MaxDelay - h.age < limit[t]
                BY <3>4 DEF OnItsWay
            <4>2. PICK k : k = [sid |-> h.sid, age |-> h.age + 1]
                OBVIOUS
            <4>3. k \in flight'
                BY <1>7, <4>2
            <4>4. h.age \in 0 .. MaxDelay
                BY <1>3 DEF Flight
            <4>5. k.sid = t /\ k.age = h.age + 1
                BY ONLY <4>1, <4>2
            <4>6. MaxDelay - k.age < limit'[t]
                BY ONLY <1>4, <3>1, <3>2, <4>1, <4>4, <4>5
            <4> QED BY <4>3, <4>5, <4>6 DEF OnItsWay
        <3>5. Aged(t) \/ OnItsWay(t) \/ Late(t)
            BY <1>3, <2>1, <2>3, <3>1, <3>2 DEF InTime
        <3> QED BY ONLY <2>2, <3>3, <3>4, <3>5
    <2>4. ASSUME NEW t \in expired' \cap open'
          PROVE  t \in silent' \/ ~HasPlace(t)' \/ Late(t)'
        <3>1. t \in silent \/ ~HasPlace(t) \/ Late(t)
            BY <1>1, <1>3, GivenUp DEF InTime
        <3> QED BY <1>1, <2>1, <2>2, <3>1
    <2> QED BY ONLY <2>3, <2>4, InTimeAfter
<1> QED BY <1>8, <1>9, <1>10, <1>11, <1>12, <1>13, AllParts

\* Nothing is open, silent or on its way at the start.
LEMMA InitHeartbeat == Init => HeartbeatInvariant
<1> SUFFICES ASSUME Init PROVE HeartbeatInvariant
    OBVIOUS
<1>1. /\ q = {} /\ flight = {} /\ open = {} /\ silent = {} /\ expired = {}
      /\ limit = [s \in Sockets |-> Unheard] /\ silence = [s \in Sockets |-> 0]
      /\ missed = [s \in Sockets |-> 0]
    BY DEF Init
<1>2. Shapes
    BY <1>1 DEF Shapes, Unheard
<1>3. Flight /\ Queue /\ EachHasPlace
    BY <1>1 DEF Flight, Queue, EachHasPlace
<1>4. LimitRunsDown
    BY <1>1, HeartbeatAssumption DEF LimitRunsDown, HeartbeatAssumption
<1>5. InTime
    BY <1>1 DEF InTime, NoFalseExpiry
<1> QED BY <1>2, <1>3, <1>4, <1>5 DEF HeartbeatInvariant

\* Every step of the peer, of the other ends and of the network keeps it.
LEMMA NextHeartbeat == HeartbeatInvariant /\ [Next]_vars => HeartbeatInvariant'
<1> SUFFICES ASSUME HeartbeatInvariant, [Next]_vars PROVE HeartbeatInvariant'
    OBVIOUS
<1>1. CASE \E s \in Sockets : Update(s) \/ Expire(s) \/ RemoveSocket(s) \/ FallSilent(s)
    BY <1>1, UpdateKeeps, ExpireKeeps, RemoveKeeps, FallSilentKeeps
<1>2. CASE \E first \in Due : \E others \in SUBSET (Due \ {first}) : Beat(first, others)
    BY <1>2, BeatKeeps
<1>3. CASE \E h \in flight : Process(h)
    BY <1>3, ProcessKeeps
<1>4. CASE Tick
    BY <1>4, TickKeeps
<1>5. CASE UNCHANGED vars
    BY <1>5 DEF vars, HeartbeatInvariant, Shapes, Flight, Queue, LimitRunsDown, EachHasPlace, HasPlace,
                InTime, NoFalseExpiry, Aged, OnItsWay, Late
<1> QED BY <1>1, <1>2, <1>3, <1>4, <1>5 DEF Next

-----------------------------------------------------------------------------
(***************************************************************************)
(* What follows from it.                                                   *)
(***************************************************************************)

\* The invariant holds, whatever is due together and whatever time items get.
THEOREM HeartbeatHolds == Spec => []HeartbeatInvariant
BY InitHeartbeat, NextHeartbeat, PTL DEF Spec

\* Times stay within the interval, the limit and the delay.
THEOREM TypesHold == Spec => []TypeOK
<1>1. ASSUME HeartbeatInvariant PROVE TypeOK
    <2>1. Shapes /\ Flight /\ Queue /\ LimitRunsDown
        BY <1>1 DEF HeartbeatInvariant
    <2>2. q \subseteq [sid : Sockets, left : 0 .. Interval]
        BY <2>1 DEF Queue, Shapes
    <2>3. flight \subseteq [sid : Sockets, age : 0 .. MaxDelay]
        BY <2>1 DEF Flight, Shapes
    <2>4. limit \in [Sockets -> Unheard .. Expiration]
        <3>1. ASSUME NEW s \in Sockets PROVE limit[s] \in Unheard .. Expiration
            BY <2>1, HeartbeatAssumption DEF LimitRunsDown, Shapes, Unheard, HeartbeatAssumption
        <3> QED BY <2>1, <3>1 DEF Shapes
    <2> QED BY <2>1, <2>2, <2>3, <2>4 DEF TypeOK, Shapes
<1> QED BY <1>1, HeartbeatHolds, PTL

\* No open connection stays silent for longer than the limit after it has been
\* heard from (heartbeat_controller.hpp:129), whatever comes late and whichever
\* sockets are due together.
THEOREM SilenceIsEnded == Spec => []SilenceEnds
<1>1. HeartbeatInvariant => SilenceEnds
    BY DEF HeartbeatInvariant, Shapes, LimitRunsDown, SilenceEnds
<1> QED BY <1>1, HeartbeatHolds, PTL

\* If no two sockets get the same time, every open connection has one place in the
\* queue of heartbeats and a closed one none (heartbeat_controller.hpp:68): remove
\* and insert in update, erase and insert in step never lose or double one.
THEOREM PlaceForEach ==
    ASSUME ~CoarseClock
    PROVE  Spec => []OneBeatEach
<1>1. ASSUME HeartbeatInvariant PROVE OneBeatEach
    <2>1. Queue /\ EachHasPlace
        BY <1>1 DEF HeartbeatInvariant
    <2> SUFFICES ASSUME NEW s \in Sockets
                 PROVE  Cardinality({e \in q : e.sid = s}) = IF s \in open THEN 1 ELSE 0
        BY DEF OneBeatEach
    <2>2. CASE s \in open
        <3>1. PICK e \in q : e.sid = s
            BY <2>1, <2>2 DEF EachHasPlace, HasPlace
        <3>2. {f \in q : f.sid = s} = {e}
            BY <2>1, <3>1 DEF Queue
        <3> QED BY <2>2, <3>2, FS_Singleton
    <2>3. CASE s \notin open
        <3>1. {e \in q : e.sid = s} = {}
            BY <2>1, <2>3 DEF Queue
        <3> QED BY <2>3, <3>1, FS_EmptySet
    <2> QED BY <2>2, <2>3
<1> QED BY <1>1, HeartbeatHolds, PTL

\* A connection that is alive is given up only without a place in the queue, or after
\* so many heartbeats that left empty that the next one could not come before the limit
\* (heartbeat_controller.hpp:68, :94, :113), however late heartbeats are, whatever is
\* due together and whatever time items get.  With no two due at once none is missed,
\* and an interval and the longest delay that end before the limit keep every live one.
THEOREM LiveIsKept == Spec => []NoFalseExpiry
<1>1. HeartbeatInvariant => NoFalseExpiry
    BY DEF HeartbeatInvariant, InTime
<1> QED BY <1>1, HeartbeatHolds, PTL
=============================================================================
