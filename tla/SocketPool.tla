----------------------------- MODULE SocketPool -----------------------------
(***************************************************************************)
(* The pool of sockets of socket_pool.hpp, as operators on records: an     *)
(* array of accounts, the free places in it, the place of every socket ID  *)
(* and the IDs to be removed at the end of the step.                       *)
(***************************************************************************)
EXTENDS Integers, Sequences, FiniteSets, FiniteSetsExt, Functions

\* A place whose socket was removed: socket_type{}.
NoSocket == 0

EmptyPool == [accounts |-> <<>>, free |-> {}, mapping |-> <<>>, removable |-> {}]

\* A map with a key set.
Put(map, key, value) == [k \in DOMAIN map \cup {key} |-> IF k = key THEN value ELSE map[k]]

\* mutant
AddAtFreePlace(pool, sid) ==
    IF pool.free = {}
    THEN [pool EXCEPT !.mapping = Put(@, sid, Len(pool.accounts) + 1),
                      !.accounts = Append(@, sid)]
    ELSE [pool EXCEPT !.mapping = Put(@, sid, Min(pool.free)),
                      !.accounts[Min(pool.free)] = sid]

\* The lowest free place is taken first.
AddSocket(pool, sid) ==
    IF pool.free = {}
    THEN [pool EXCEPT !.mapping = Put(@, sid, Len(pool.accounts) + 1),
                      !.accounts = Append(@, sid)]
    ELSE [pool EXCEPT !.mapping = Put(@, sid, Min(pool.free)),
                      !.accounts[Min(pool.free)] = sid,
                      !.free = @ \ {Min(pool.free)}]

RemoveLater(pool, sid) == [pool EXCEPT !.removable = @ \cup {sid}]

ApplyRemove(pool) ==
    LET gone == pool.removable \cap DOMAIN pool.mapping
        places == {pool.mapping[sid] : sid \in gone}
    IN  [accounts |-> [i \in DOMAIN pool.accounts |->
                           IF i \in places THEN NoSocket ELSE pool.accounts[i]],
         free |-> pool.free \cup places,
         mapping |-> Restrict(pool.mapping, DOMAIN pool.mapping \ gone),
         removable |-> {}]

\* What a callback can find: candidates for removal are excluded.
Located(pool, sid) == sid \in DOMAIN pool.mapping \ pool.removable

\* What locate_account asserts of the place of a socket.
PlaceIsItsOwn(pool, sid) ==
    LET index == pool.mapping[sid]
    IN  index \in DOMAIN pool.accounts \ pool.free /\ pool.accounts[index] = sid
=============================================================================
