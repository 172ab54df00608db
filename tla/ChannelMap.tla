----------------------------- MODULE ChannelMap -----------------------------
(***************************************************************************)
(* channel_map.hpp for one peer: two unordered_bimaps, of the sockets the  *)
(* peer is read from and written to.  A bimap keeps the two directions in  *)
(* two maps, which its operations do not always leave in agreement.        *)
(***************************************************************************)
EXTENDS Integers

CONSTANTS
    FreedReads      \* what erase_by_first reads from the entry it has just
                    \* freed: "same", what was there, or "other"

ASSUME FreedReadsAssumption == FreedReads # {} /\ FreedReads \subseteq {"same", "other"}

NoSid == 0

\* The socket of the peer, and the sockets that lead to the peer.
EmptyBimap == [first |-> NoSid, second |-> {}]

CanInsert(b, sid) == b.first = NoSid /\ sid \notin b.second

\* A refused insertion erases both keys, whichever of them was there before.
BimapInsert(b, sid) ==
    IF CanInsert(b, sid)
    THEN [first |-> sid, second |-> b.second \cup {sid}]
    ELSE [first |-> NoSid, second |-> b.second \ {sid}]

\* The key of the second map is read through a pointer into the freed entry.
EraseByFirst(b) ==
    IF b.first = NoSid THEN {b}
    ELSE {[first |-> NoSid,
           second |-> IF read = "same" THEN b.second \ {b.first} ELSE b.second] :
              read \in FreedReads}

EmptyMap == [readers |-> EmptyBimap, writers |-> EmptyBimap]

Maps(readers, writers) ==
    {[readers |-> r, writers |-> w] : r \in readers, w \in writers}

\* One socket serves both directions.
CanInsertChannel(ch, sid) == CanInsert(ch.readers, sid) /\ CanInsert(ch.writers, sid)

InsertChannel(ch, sid) ==
    LET r == BimapInsert(ch.readers, sid)
        w == IF CanInsert(ch.readers, sid) THEN BimapInsert(ch.writers, sid) ELSE ch.writers
    IN  IF CanInsertChannel(ch, sid) THEN Maps({r}, {w})
        ELSE Maps(EraseByFirst(r), EraseByFirst(w))

HasChannel(ch, sid) == sid \in ch.readers.second \/ sid \in ch.writers.second

IsOpen(ch) == ch.readers.first # NoSid /\ ch.writers.first # NoSid

\* close_channel throws if only one of the directions is there.
IsBroken(ch) == (ch.readers.first = NoSid) # (ch.writers.first = NoSid)

CloseChannel(ch) ==
    IF IsOpen(ch) THEN Maps(EraseByFirst(ch.readers), EraseByFirst(ch.writers)) ELSE {ch}

\* The sockets close_channel hands to close_socket.
ClosedSockets(ch) == IF IsOpen(ch) THEN {ch.readers.first, ch.writers.first} ELSE {}
=============================================================================
