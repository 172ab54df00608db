-------------------------------- MODULE Feed --------------------------------
(***************************************************************************)
(* What publish and subscribe promises: a subscriber receives, from its    *)
(* acceptance on, every message that is broadcast, once and in order, up   *)
(* to the end of its connection.                                           *)
(***************************************************************************)
EXTENDS Naturals, Sequences

CONSTANTS Subscribers, Messages

VARIABLES
    published,      \* the messages broadcast so far
    joined,         \* the accepted subscribers
    received        \* what each subscriber's application was given

vars == <<published, joined, received>>

Init ==
    /\ published = <<>>
    /\ joined = [s \in {} |-> 0]
    /\ received = [s \in Subscribers |-> <<>>]

Publish(m) ==
    /\ published' = Append(published, m)
    /\ UNCHANGED <<joined, received>>

\* joined[s] is how many messages s has missed.
Join(s) ==
    /\ s \notin DOMAIN joined
    /\ joined' = [t \in DOMAIN joined \cup {s} |->
                      IF t = s THEN Len(published) ELSE joined[t]]
    /\ UNCHANGED <<published, received>>

\* One read may complete several messages.
Receive(s) ==
    /\ s \in DOMAIN joined
    /\ \E n \in joined[s] + Len(received[s]) + 1 .. Len(published) :
           received' = [received EXCEPT ![s] = SubSeq(published, joined[s] + 1, n)]
    /\ UNCHANGED <<published, joined>>

Next ==
    \/ \E m \in Messages : Publish(m)
    \/ \E s \in Subscribers : Join(s) \/ Receive(s)

Spec == Init /\ [][Next]_vars
=============================================================================
