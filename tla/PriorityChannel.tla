-------------------------- MODULE PriorityChannel --------------------------
(***************************************************************************)
(* What a stream of frames promises to the two ends of a connection: every *)
(* packet written with a priority is handed over once, whole, in the order *)
(* of the packets of its priority.  Delivery is written over it.           *)
(***************************************************************************)
EXTENDS Sequences, SequencesExt

CONSTANTS
    Packets,
    Priorities

VARIABLES
    written,    \* written[p]: the packets written with priority p
    read        \* read[p]: those handed over

vars == <<written, read>>

Init ==
    /\ written = [p \in Priorities |-> <<>>]
    /\ read = [p \in Priorities |-> <<>>]

Write(p, packet) ==
    /\ written' = [written EXCEPT ![p] = Append(@, packet)]
    /\ UNCHANGED read

\* Packets of several priorities are handed over at once.
Read ==
    /\ read' # read
    /\ \A p \in Priorities : IsPrefix(read[p], read'[p]) /\ IsPrefix(read'[p], written[p])
    /\ DOMAIN read' = Priorities
    /\ UNCHANGED written

Next ==
    \/ \E p \in Priorities, packet \in Packets : Write(p, packet)
    \/ Read

Spec == Init /\ [][Next]_vars
=============================================================================
