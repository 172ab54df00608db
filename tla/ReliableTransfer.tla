-------------------------- MODULE ReliableTransfer --------------------------
(***************************************************************************)
(* What reliable delivery promises the application, without serial         *)
(* numbers, acknowledgements or links.  Messages are numbered in the order *)
(* they are accepted.  The messages of one sender and priority form a      *)
(* flow; a flow advances one message at a time, in order:                  *)
(*   - a message is handed to the receiver only once every earlier one of  *)
(*     its flow is settled (confirmed to the sender, or abandoned);        *)
(*   - a message is confirmed only after it has been handed over;          *)
(*   - only a restart of the sender abandons a message.                    *)
(* Handing a message over twice is allowed: delivery is at least once.     *)
(***************************************************************************)
EXTENDS Integers, Sequences

CONSTANTS Nodes, Priorities

VARIABLES
    accepted,   \* sequence of [from, priority]
    received,   \* messages handed to the receiving application
    confirmed,  \* messages reported delivered to the sending application
    abandoned,  \* messages forgotten by a restart of their sender
    reported    \* messages reported lost to the receiving application

vars == <<accepted, received, confirmed, abandoned, reported>>

Init ==
    /\ accepted = <<>>
    /\ received = {}
    /\ confirmed = {}
    /\ abandoned = {}
    /\ reported = {}

Settled == confirmed \cup abandoned

Earlier(i) == {j \in 1 .. (i - 1) : accepted[j] = accepted[i]}

Accept(n, p) ==
    /\ accepted' = Append(accepted, [from |-> n, priority |-> p])
    /\ UNCHANGED <<received, confirmed, abandoned, reported>>

\* The heading that hands over a message of one part may also report the
\* unfinished message it replaces.
Receive(i, lost) ==
    /\ i \notin received \cup abandoned
    /\ Earlier(i) \subseteq Settled
    /\ received' = received \cup {i}
    /\ reported' = reported \cup lost
    /\ UNCHANGED <<accepted, confirmed, abandoned>>

Confirm(i) ==
    /\ i \in received \ Settled
    /\ Earlier(i) \subseteq Settled
    /\ confirmed' = confirmed \cup {i}
    /\ UNCHANGED <<accepted, received, abandoned, reported>>

Restart(n) ==
    /\ abandoned' = abandoned \cup
          {i \in DOMAIN accepted : accepted[i].from = n /\ i \notin confirmed}
    /\ UNCHANGED <<accepted, received, confirmed, reported>>

ReportLost(lost) ==
    /\ reported' = reported \cup lost
    /\ UNCHANGED <<accepted, received, confirmed, abandoned>>

\* A message is reported lost only after its sender has forgotten it.
Next ==
    \/ \E n \in Nodes, p \in Priorities : Accept(n, p)
    \/ \E i \in DOMAIN accepted : Confirm(i)
    \/ \E i \in DOMAIN accepted, lost \in SUBSET abandoned : Receive(i, lost)
    \/ \E lost \in SUBSET abandoned : ReportLost(lost)
    \/ \E n \in Nodes : Restart(n)

Spec == Init /\ [][Next]_vars
=============================================================================
