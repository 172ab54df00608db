---------------------------- MODULE PubSubProofs ----------------------------
(***************************************************************************)
(* The publisher and its subscribers, for any numbers of them, of sockets  *)
(* and of messages: the socket pool, the accounts of the writer pool and   *)
(* the connections agree, and what a subscriber receives is what Feed      *)
(* promises.                                                               *)
(***************************************************************************)
EXTENDS PubSub, SequenceTheorems, FunctionTheorems, FiniteSetTheorems, WellFoundedInduction, TLAPS
-----------------------------------------------------------------------------
(***************************************************************************)
(* The socket pool.                                                        *)
(***************************************************************************)

\* Every place of the array is free or has a socket that is mapped to it.
Fits(p) ==
    /\ p = [accounts |-> p.accounts, free |-> p.free, mapping |-> p.mapping,
            removable |-> p.removable]
    /\ p.accounts \in Seq(Sockets \cup {NoSocket})
    /\ p.free \subseteq DOMAIN p.accounts
    /\ DOMAIN p.mapping \subseteq Sockets
    /\ p.mapping \in [DOMAIN p.mapping -> DOMAIN p.accounts \ p.free]
    /\ \A sid \in DOMAIN p.mapping : p.accounts[p.mapping[sid]] = sid
    /\ \A i \in DOMAIN p.accounts \ p.free :
           p.accounts[i] \in DOMAIN p.mapping /\ p.mapping[p.accounts[i]] = i

\* The order on the naturals as a relation.
Below == {ss \in Nat \X Nat : ss[1] < ss[2]}

\* There is a lowest free place if there is one, and Min chooses it.
LEMMA LowestPlace ==
    ASSUME NEW S, S \subseteq Nat, S # {}
    PROVE  Min(S) \in S
<1>1. IsWellFoundedOn(Below, Nat)
    BY NatLessThanWellFounded DEF OpToRel, Below
<1>2. PICK lowest \in S : \A x \in S : ~(<<x, lowest>> \in Below)
    BY <1>1, WFMin
<1>3. ASSUME NEW x \in S PROVE lowest <= x
    <2>1. lowest \in Nat /\ x \in Nat /\ ~(<<x, lowest>> \in Below)
        BY <1>2
    <2> QED BY <2>1 DEF Below
<1> QED BY <1>3 DEF Min

\* A pool without sockets.
LEMMA EmptyFits == Fits(EmptyPool)
<1>1. PICK none : none = <<>> /\ none \in Seq(Sockets \cup {NoSocket}) /\ DOMAIN none = {}
    <2>1. <<>> \in Seq(Sockets \cup {NoSocket}) /\ DOMAIN <<>> = {}
        OBVIOUS
    <2> QED BY <2>1
<1>2. EmptyPool = [accounts |-> none, free |-> {}, mapping |-> none, removable |-> {}]
    BY <1>1 DEF EmptyPool
<1>3. none \in [DOMAIN none -> DOMAIN none \ {}]
    BY <1>1
<1> QED BY <1>1, <1>2, <1>3 DEF Fits

\* A socket takes a free place, or a new one behind all others.
LEMMA AddFits ==
    ASSUME NEW p, Fits(p), NEW sid \in Sockets, sid \notin DOMAIN p.mapping,
           NEW q, q = AddSocket(p, sid)
    PROVE  Fits(q) /\ DOMAIN q.mapping = DOMAIN p.mapping \cup {sid} /\ q.removable = p.removable
<1>1. /\ p = [accounts |-> p.accounts, free |-> p.free, mapping |-> p.mapping,
              removable |-> p.removable]
      /\ p.accounts \in Seq(Sockets \cup {NoSocket}) /\ Len(p.accounts) \in Nat
      /\ DOMAIN p.accounts = 1 .. Len(p.accounts)
      /\ p.free \subseteq 1 .. Len(p.accounts) /\ DOMAIN p.mapping \subseteq Sockets
      /\ \A s \in DOMAIN p.mapping :
             p.mapping[s] \in (1 .. Len(p.accounts)) \ p.free /\ p.accounts[p.mapping[s]] = s
      /\ \A i \in (1 .. Len(p.accounts)) \ p.free :
             p.accounts[i] \in DOMAIN p.mapping /\ p.mapping[p.accounts[i]] = i
    BY LenProperties DEF Fits
<1>2. CASE p.free = {}
    <2>1. PICK place : place = Len(p.accounts) + 1
        OBVIOUS
    <2>2. PICK longer : longer = Append(p.accounts, sid)
        OBVIOUS
    <2>3. /\ longer \in Seq(Sockets \cup {NoSocket}) /\ Len(longer) = place
          /\ DOMAIN longer = 1 .. place /\ longer[place] = sid
          /\ \A i \in 1 .. Len(p.accounts) : longer[i] = p.accounts[i]
        BY <1>1, <2>1, <2>2, AppendProperties, LenProperties
    <2>4. PICK mapping : mapping = Put(p.mapping, sid, place)
        OBVIOUS
    <2>5. /\ mapping = [s \in DOMAIN p.mapping \cup {sid} |-> IF s = sid THEN place ELSE p.mapping[s]]
          /\ DOMAIN mapping = DOMAIN p.mapping \cup {sid}
          /\ \A s \in DOMAIN mapping : mapping[s] = IF s = sid THEN place ELSE p.mapping[s]
        BY <2>4 DEF Put
    <2>6. q = [accounts |-> longer, free |-> p.free, mapping |-> mapping, removable |-> p.removable]
        BY <1>1, <1>2, <2>1, <2>2, <2>4 DEF AddSocket
    <2>7. /\ q.accounts = longer /\ q.free = {} /\ q.mapping = mapping /\ q.removable = p.removable
          /\ q = [accounts |-> q.accounts, free |-> q.free, mapping |-> q.mapping,
                  removable |-> q.removable]
        BY <1>2, <2>6
    <2>8. mapping \in [DOMAIN mapping -> 1 .. place]
        BY <1>1, <2>1, <2>5
    <2>9. \A s \in DOMAIN mapping : longer[mapping[s]] = s
        BY <1>1, <2>3, <2>5
    <2>10. \A i \in 1 .. place : longer[i] \in DOMAIN mapping /\ mapping[longer[i]] = i
        BY <1>1, <1>2, <2>1, <2>3, <2>5
    <2>11. /\ longer \in Seq(Sockets \cup {NoSocket}) /\ DOMAIN longer = 1 .. place
           /\ DOMAIN mapping = DOMAIN p.mapping \cup {sid} /\ DOMAIN mapping \subseteq Sockets
           /\ (1 .. place) \ {} = 1 .. place
        BY <1>1, <2>3, <2>5
    <2>12. Fits(q)
        BY ONLY <2>7, <2>8, <2>9, <2>10, <2>11 DEF Fits
    <2> QED BY <2>7, <2>11, <2>12
<1>3. CASE p.free # {}
    <2>1. PICK place : place = Min(p.free)
        OBVIOUS
    <2>2. place \in p.free /\ place \in 1 .. Len(p.accounts)
        BY <1>1, <1>3, <2>1, LowestPlace
    <2>3. PICK accounts : accounts = [p.accounts EXCEPT ![place] = sid]
        OBVIOUS
    <2>4. /\ accounts \in Seq(Sockets \cup {NoSocket}) /\ DOMAIN accounts = 1 .. Len(p.accounts)
          /\ \A i \in 1 .. Len(p.accounts) : accounts[i] = IF i = place THEN sid ELSE p.accounts[i]
        BY <1>1, <2>2, <2>3, ExceptSeq, LenProperties
    <2>5. PICK mapping : mapping = Put(p.mapping, sid, place)
        OBVIOUS
    <2>6. /\ DOMAIN mapping = DOMAIN p.mapping \cup {sid}
          /\ mapping = [s \in DOMAIN mapping |-> mapping[s]]
          /\ \A s \in DOMAIN mapping : mapping[s] = IF s = sid THEN place ELSE p.mapping[s]
        BY <2>5 DEF Put
    <2>7. q = [accounts |-> accounts, free |-> p.free \ {place}, mapping |-> mapping,
               removable |-> p.removable]
        BY <1>1, <1>3, <2>1, <2>3, <2>5 DEF AddSocket
    <2>8. /\ q.accounts = accounts /\ q.free = p.free \ {place} /\ q.mapping = mapping
          /\ q.removable = p.removable
          /\ q = [accounts |-> q.accounts, free |-> q.free, mapping |-> q.mapping,
                  removable |-> q.removable]
        BY <2>7
    <2>9. mapping \in [DOMAIN mapping -> (1 .. Len(p.accounts)) \ (p.free \ {place})]
        BY <1>1, <2>2, <2>6
    <2>10. ASSUME NEW s \in DOMAIN mapping PROVE accounts[mapping[s]] = s
        <3>1. CASE s = sid
            BY ONLY <2>2, <2>4, <2>6, <3>1
        <3>2. CASE s # sid
            <4>1. mapping[s] = p.mapping[s] /\ s \in DOMAIN p.mapping
                BY ONLY <2>6, <2>10, <3>2
            <4>2. mapping[s] \in 1 .. Len(p.accounts) /\ mapping[s] # place /\ p.accounts[mapping[s]] = s
                BY ONLY <1>1, <2>2, <4>1
            <4> QED BY ONLY <2>4, <4>2
        <3> QED BY ONLY <3>1, <3>2
    <2>11. ASSUME NEW i \in (1 .. Len(p.accounts)) \ (p.free \ {place})
           PROVE  accounts[i] \in DOMAIN mapping /\ mapping[accounts[i]] = i
        <3>1. CASE i = place
            BY ONLY <2>2, <2>4, <2>6, <3>1
        <3>2. CASE i # place
            <4>1. accounts[i] = p.accounts[i] /\ i \in (1 .. Len(p.accounts)) \ p.free
                BY ONLY <2>4, <2>11, <3>2
            <4>2. accounts[i] \in DOMAIN p.mapping /\ p.mapping[accounts[i]] = i
                BY ONLY <1>1, <4>1
            <4> QED BY ONLY <2>6, <4>2, sid \notin DOMAIN p.mapping
        <3> QED BY ONLY <3>1, <3>2
    <2> QED BY <1>1, <2>4, <2>6, <2>8, <2>9, <2>10, <2>11 DEF Fits
<1> QED BY <1>2, <1>3

\* A socket to be removed keeps its place until the end of the step.
LEMMA LaterFits ==
    ASSUME NEW p, Fits(p), NEW more, NEW q, q = [p EXCEPT !.removable = @ \cup more]
    PROVE  Fits(q) /\ q.mapping = p.mapping /\ q.removable = p.removable \cup more
<1>1. q = [accounts |-> p.accounts, free |-> p.free, mapping |-> p.mapping,
           removable |-> p.removable \cup more]
    BY DEF Fits
<1> QED BY <1>1 DEF Fits

\* The places of the removed sockets become free.
LEMMA ApplyFits ==
    ASSUME NEW p, Fits(p), NEW q, q = ApplyRemove(p)
    PROVE  Fits(q) /\ DOMAIN q.mapping = DOMAIN p.mapping \ p.removable /\ q.removable = {}
<1> DEFINE gone == p.removable \cap DOMAIN p.mapping
           places == {p.mapping[sid] : sid \in gone}
<1>1. /\ p.accounts \in Seq(Sockets \cup {NoSocket}) /\ Len(p.accounts) \in Nat
      /\ DOMAIN p.accounts = 1 .. Len(p.accounts)
      /\ p.free \subseteq 1 .. Len(p.accounts) /\ DOMAIN p.mapping \subseteq Sockets
      /\ \A s \in DOMAIN p.mapping :
             p.mapping[s] \in (1 .. Len(p.accounts)) \ p.free /\ p.accounts[p.mapping[s]] = s
      /\ \A i \in (1 .. Len(p.accounts)) \ p.free :
             p.accounts[i] \in DOMAIN p.mapping /\ p.mapping[p.accounts[i]] = i
    BY LenProperties DEF Fits
<1>2. PICK accounts : accounts = [i \in DOMAIN p.accounts |-> IF i \in places THEN NoSocket ELSE p.accounts[i]]
    OBVIOUS
<1>3. /\ accounts \in Seq(Sockets \cup {NoSocket}) /\ DOMAIN accounts = 1 .. Len(p.accounts)
      /\ \A i \in 1 .. Len(p.accounts) : i \notin places => accounts[i] = p.accounts[i]
    <2>1. accounts \in [1 .. Len(p.accounts) -> Sockets \cup {NoSocket}]
        BY <1>1, <1>2, ElementOfSeq
    <2> QED BY <1>1, <1>2, <2>1, SeqDef
<1>4. PICK mapping : mapping = Restrict(p.mapping, DOMAIN p.mapping \ gone)
    OBVIOUS
<1>5. /\ DOMAIN mapping = DOMAIN p.mapping \ p.removable
      /\ mapping = [s \in DOMAIN mapping |-> mapping[s]]
      /\ \A s \in DOMAIN mapping : mapping[s] = p.mapping[s]
    BY <1>4 DEF Restrict
<1>6. q = [accounts |-> accounts, free |-> p.free \cup places, mapping |-> mapping, removable |-> {}]
    BY <1>2, <1>4 DEF ApplyRemove
<1>7. /\ q.accounts = accounts /\ q.free = p.free \cup places /\ q.mapping = mapping
      /\ q.removable = {}
      /\ q = [accounts |-> q.accounts, free |-> q.free, mapping |-> q.mapping,
              removable |-> q.removable]
    BY <1>6
<1>8. /\ places \subseteq 1 .. Len(p.accounts)
      /\ \A s \in DOMAIN p.mapping : p.mapping[s] \in places <=> s \in p.removable
    BY <1>1
<1>9. mapping \in [DOMAIN mapping -> (1 .. Len(p.accounts)) \ (p.free \cup places)]
    BY <1>1, <1>5, <1>8
<1> HIDE DEF places
<1>10. \A s \in DOMAIN mapping : accounts[mapping[s]] = s
    BY <1>1, <1>3, <1>5, <1>8
<1>11. \A i \in (1 .. Len(p.accounts)) \ (p.free \cup places) :
           accounts[i] \in DOMAIN mapping /\ mapping[accounts[i]] = i
    <2> SUFFICES ASSUME NEW i \in (1 .. Len(p.accounts)) \ (p.free \cup places)
                 PROVE  accounts[i] \in DOMAIN mapping /\ mapping[accounts[i]] = i
        OBVIOUS
    <2>1. accounts[i] = p.accounts[i]
        BY ONLY <1>3
    <2>2. accounts[i] \in DOMAIN p.mapping /\ p.mapping[accounts[i]] = i
        BY ONLY <1>1, <2>1
    <2>3. accounts[i] \notin p.removable
        BY ONLY <1>8, <2>2
    <2> QED BY ONLY <1>5, <2>2, <2>3
<1>12. p.free \cup places \subseteq DOMAIN accounts
    <2>1. p.free \subseteq 1 .. Len(p.accounts) /\ places \subseteq 1 .. Len(p.accounts)
        BY ONLY <1>1, <1>8
    <2>2. DOMAIN accounts = 1 .. Len(p.accounts)
        BY ONLY <1>3
    <2> QED BY ONLY <2>1, <2>2
<1>13. DOMAIN mapping \subseteq Sockets
    BY ONLY <1>1, <1>5
<1>14. Fits(q)
    BY ONLY <1>3, <1>7, <1>9, <1>10, <1>11, <1>12, <1>13 DEF Fits
<1> QED BY ONLY <1>5, <1>7, <1>14

\* No assertion of locate_account fails on a pool that fits.
LEMMA FitsPlaces ==
    ASSUME NEW p, Fits(p), NEW sid \in DOMAIN p.mapping
    PROVE  PlaceIsItsOwn(p, sid)
BY DEF Fits, PlaceIsItsOwn

\* The sockets and the free places are all places of the array.
LEMMA FitsCount ==
    ASSUME NEW p, Fits(p)
    PROVE  Cardinality(DOMAIN p.mapping) + Cardinality(p.free) = Len(p.accounts)
<1>1. Len(p.accounts) \in Nat /\ DOMAIN p.accounts = 1 .. Len(p.accounts)
    BY LenProperties DEF Fits
<1>2. PICK all : all = 1 .. Len(p.accounts)
    OBVIOUS
<1>3. IsFiniteSet(all) /\ Cardinality(all) = Len(p.accounts)
    <2>1. IsFiniteSet(1 .. Len(p.accounts)) /\ Cardinality(1 .. Len(p.accounts)) = Len(p.accounts)
        BY <1>1, FS_Interval
    <2> QED BY <1>2, <2>1
<1>4. p.free \subseteq all
    BY <1>1, <1>2 DEF Fits
<1>5. IsFiniteSet(all \ p.free) /\ IsFiniteSet(p.free)
    BY <1>3, <1>4, FS_Subset, FS_Difference
<1>6. Cardinality(all) = Cardinality(all \ p.free) + Cardinality(p.free)
    <2>1. all \cap p.free = p.free
        BY <1>4
    <2>2. Cardinality(all \ p.free) = Cardinality(all) - Cardinality(all \cap p.free)
        BY ONLY <1>3, FS_Difference
    <2>3. Cardinality(all) \in Nat
        BY ONLY <1>3, FS_CardinalityType
    <2>4. Cardinality(p.free) \in Nat
        <3>1. PICK free : free = p.free /\ IsFiniteSet(free)
            BY <1>5
        <3>2. Cardinality(free) \in Nat
            BY ONLY <3>1, FS_CardinalityType
        <3> QED BY ONLY <3>1, <3>2
    <2>5. \A a, b \in Nat : a = a - b + b
        OBVIOUS
    <2>6. Cardinality(all) = Cardinality(all) - Cardinality(p.free) + Cardinality(p.free)
        BY ONLY <2>3, <2>4, <2>5, Zenon
    <2> QED BY ONLY <2>1, <2>2, <2>6, Zenon
<1>7. p.mapping \in Bijection(DOMAIN p.mapping, all \ p.free)
    BY <1>1, <1>2 DEF Fits, Bijection, Injection, Surjection, IsInjective
<1>8. PICK taken : taken = all \ p.free
    OBVIOUS
<1>9. Cardinality(taken) = Cardinality(DOMAIN p.mapping)
    <2>1. ExistsBijection(DOMAIN p.mapping, taken) /\ IsFiniteSet(taken)
        BY <1>5, <1>7, <1>8 DEF ExistsBijection
    <2>2. ExistsBijection(taken, DOMAIN p.mapping)
        BY <2>1, Fun_ExistsBijSymmetric
    <2> QED BY ONLY <2>1, <2>2, FS_Bijection
<1> QED BY <1>3, <1>6, <1>8, <1>9
-----------------------------------------------------------------------------
(***************************************************************************)
(* The publisher: its pools and the connections agree.                     *)
(***************************************************************************)

Part == Nat \X {"begin", "end"}

Stages == {"new", "connecting", "accepted", "closed"}

\* Socket pool and writer pool have the same sockets, of which the same are to be
\* removed.
Pools ==
    /\ Fits(pool) /\ DOMAIN pool.mapping = DOMAIN queue /\ pool.removable = removable
    /\ queue \in [DOMAIN queue -> Seq(Part)]
    /\ writable \in [DOMAIN queue -> {"no", "soon", "yes"}]
    /\ removable \subseteq DOMAIN queue /\ todo \subseteq DOMAIN queue
    /\ watched \subseteq DOMAIN queue /\ dropping \subseteq Sockets

\* Between steps nothing is left to send or to remove.
Steps ==
    /\ phase \in {"idle", "send"}
    /\ phase = "idle" => todo = {} /\ removable = {}

\* Every account is the connection of one subscriber, and every subscriber that
\* was accepted and has not left has an account that stays.
Owners ==
    /\ stage \in [Subscribers -> Stages]
    /\ owner \in [Sockets -> Subscribers \cup {NoOne}]
    /\ \A sid \in Sockets : owner[sid] # NoOne <=> sid \in DOMAIN queue
    /\ \A sid \in DOMAIN queue : stage[owner[sid]] \in {"accepted", "closed"}
    /\ \A sid \in removable : stage[owner[sid]] = "closed"
    /\ \A s, t \in DOMAIN queue : owner[s] = owner[t] => s = t
    /\ \A s \in Subscribers :
           stage[s] = "accepted" => \E sid \in DOMAIN queue : owner[sid] = s

\* What is on its way and left over, by how much there may be of it, and what the
\* messages are.
Buffers ==
    /\ pipe \in [Subscribers -> Seq(Part)] /\ raw \in [Subscribers -> Seq(Part)]
    /\ \A s \in Subscribers : Len(pipe[s]) <= Capacity /\ Len(raw[s]) <= 1
    /\ published \in Seq(Nat)

PoolInvariant == Pools /\ Steps /\ Owners /\ Buffers

\* The type invariant and the consistency of the pools are parts of it.
LEMMA InvariantTypes == PoolInvariant => TypeOK
<1> SUFFICES ASSUME PoolInvariant PROVE TypeOK
    OBVIOUS
<1>1. Pools /\ Steps /\ Owners /\ Buffers
    BY DEF PoolInvariant
<1>2. DOMAIN pool.mapping \subseteq Sockets /\ DOMAIN queue = DOMAIN pool.mapping
    BY <1>1 DEF Pools, Fits
<1>3. \A i \in DOMAIN pool.accounts : pool.accounts[i] \in Sockets \cup {NoSocket}
    <2>1. pool.accounts \in Seq(Sockets \cup {NoSocket})
        BY <1>1 DEF Pools, Fits
    <2> QED BY <2>1, ElementOfSeq, LenProperties
<1>4. pool.removable \subseteq Sockets /\ removable \subseteq Sockets /\ watched \subseteq Sockets
    BY <1>1, <1>2 DEF Pools
<1>5. {sid \in Sockets : owner[sid] # NoOne} = DOMAIN queue
    BY <1>1, <1>2 DEF Owners
<1>6. DOMAIN writable = DOMAIN queue
    BY <1>1 DEF Pools
<1> QED BY <1>1, <1>2, <1>3, <1>4, <1>5, <1>6 DEF TypeOK, Pools, Steps, Owners, Buffers, Stages

\* Places, accounts and counts.
LEMMA InvariantPool == PoolInvariant => PoolIsConsistent
<1> SUFFICES ASSUME PoolInvariant PROVE PoolIsConsistent
    OBVIOUS
<1>1. Fits(pool) /\ DOMAIN pool.mapping = DOMAIN queue
    BY DEF PoolInvariant, Pools
<1> QED BY <1>1, FitsPlaces, FitsCount DEF PoolIsConsistent
-----------------------------------------------------------------------------
(***************************************************************************)
(* Parts.                                                                  *)
(***************************************************************************)

\* What a send takes, and what it leaves.
LEMMA Cut ==
    ASSUME NEW S, NEW q \in Seq(S), NEW n \in Nat
    PROVE  /\ Shifted(q, n) \in Seq(S)
           /\ n <= Len(q) =>
                  /\ SubSeq(q, 1, n) \in Seq(S) /\ Len(SubSeq(q, 1, n)) = n
                  /\ \A i \in 1 .. n : SubSeq(q, 1, n)[i] = q[i]
                  /\ Len(Shifted(q, n)) = Len(q) - n
                  /\ \A i \in 1 .. Len(q) - n : Shifted(q, n)[i] = q[n + i]
<1>1. Len(q) \in Nat /\ \A i \in 1 .. Len(q) : q[i] \in S
    BY LenProperties, ElementOfSeq
<1>2. PICK rest : rest = SubSeq(q, n + 1, Len(q))
    OBVIOUS
<1>3. /\ rest \in Seq(S) /\ Len(rest) = IF n + 1 <= Len(q) THEN Len(q) - (n + 1) + 1 ELSE 0
      /\ \A i \in 1 .. Len(q) - (n + 1) + 1 : rest[i] = q[n + 1 + i - 1]
    <2>1. n + 1 \in Int /\ Len(q) \in Int /\ \A i \in n + 1 .. Len(q) : q[i] \in S
        BY ONLY <1>1, n \in Nat
    <2> QED BY ONLY <1>2, <2>1, SubSeqProperties
<1>4. Shifted(q, n) = rest
    BY <1>2 DEF Shifted
<1>5. ASSUME n <= Len(q)
      PROVE  /\ Len(rest) = Len(q) - n
             /\ \A i \in 1 .. Len(q) - n : rest[i] = q[n + i]
    <2>1. \A i \in Int : n + 1 + i - 1 = n + i
        OBVIOUS
    <2>2. Len(q) - (n + 1) + 1 = Len(q) - n
        BY ONLY <1>1, n \in Nat
    <2>3. Len(rest) = Len(q) - n
        <3>1. \A a \in Nat : n <= a => (IF n + 1 <= a THEN a - (n + 1) + 1 ELSE 0) = a - n
            BY ONLY n \in Nat
        <3>2. Len(q) \in Nat
            BY <1>1
        <3>3. (IF n + 1 <= Len(q) THEN Len(q) - (n + 1) + 1 ELSE 0) = Len(q) - n
            BY ONLY <1>5, <3>1, <3>2
        <3>4. Len(rest) = IF n + 1 <= Len(q) THEN Len(q) - (n + 1) + 1 ELSE 0
            BY <1>3
        <3> QED BY ONLY <3>3, <3>4
    <2>4. ASSUME NEW i \in 1 .. Len(q) - n PROVE rest[i] = q[n + i]
        <3>1. rest[i] = q[n + 1 + i - 1]
            BY ONLY <1>3, <2>2, <2>4
        <3>2. n + 1 + i - 1 = n + i
            BY ONLY <2>1, <2>4
        <3> QED BY ONLY <3>1, <3>2
    <2> QED BY ONLY <2>3, <2>4
<1>6. ASSUME n <= Len(q)
      PROVE  /\ SubSeq(q, 1, n) \in Seq(S) /\ Len(SubSeq(q, 1, n)) = n
             /\ \A i \in 1 .. n : SubSeq(q, 1, n)[i] = q[i]
    <2>1. PICK first : first = SubSeq(q, 1, n)
        OBVIOUS
    <2>2. 1 \in Int /\ n \in Int /\ \A i \in 1 .. n : q[i] \in S
        BY ONLY <1>1, <1>6, n \in Nat
    <2>3. /\ first \in Seq(S) /\ Len(first) = IF 1 <= n THEN n - 1 + 1 ELSE 0
          /\ \A i \in 1 .. n - 1 + 1 : first[i] = q[1 + i - 1]
        BY ONLY <2>1, <2>2, SubSeqProperties
    <2>4. \A i \in Int : 1 + i - 1 = i
        OBVIOUS
    <2>5. n - 1 + 1 = n /\ (~(1 <= n) => n = 0)
        OBVIOUS
    <2>6. Len(first) = n /\ \A i \in 1 .. n : first[i] = q[i]
        BY ONLY <2>3, <2>4, <2>5, n \in Nat
    <2> QED BY ONLY <2>1, <2>3, <2>6
<1> QED BY ONLY <1>3, <1>4, <1>5, <1>6

\* Frames are made of two parts.
LEMMA Halves ==
    ASSUME NEW n \in Nat
    PROVE  /\ n \div 2 \in Nat
           /\ n = 2 * (n \div 2) \/ n = 2 * (n \div 2) + 1
OBVIOUS

\* A frame is two parts, the beginning and the end of it.
LEMMA FrameParts ==
    ASSUME NEW m \in Nat
    PROVE  /\ Frame(m) \in Seq(Part) /\ Len(Frame(m)) = 2
           /\ Frame(m)[1] = <<m, "begin">> /\ Frame(m)[2] = <<m, "end">>
<1>1. PICK head : head = <<m, "begin">> /\ head \in Part
    <2>1. <<m, "begin">> \in Part
        BY DEF Part
    <2> QED BY <2>1
<1>2. PICK tail : tail = <<m, "end">> /\ tail \in Part
    <2>1. <<m, "end">> \in Part
        BY DEF Part
    <2> QED BY <2>1
<1>3. Frame(m) = <<head, tail>>
    BY <1>1, <1>2 DEF Frame
<1>4. /\ <<head, tail>> \in Seq(Part) /\ Len(<<head, tail>>) = 2
      /\ <<head, tail>>[1] = head /\ <<head, tail>>[2] = tail
    BY ONLY <1>1, <1>2
<1> QED BY ONLY <1>1, <1>2, <1>3, <1>4

-----------------------------------------------------------------------------
(***************************************************************************)
(* The steps of the publisher and of subscribers keep the pools together.  *)
(***************************************************************************)

\* Nothing came to the pools or left them, and what the accounts hold has its type.
LEMMA PoolsKept ==
    ASSUME Pools, UNCHANGED <<pool, removable, dropping>>, DOMAIN queue' = DOMAIN queue,
           queue' \in [DOMAIN queue -> Seq(Part)],
           writable' \in [DOMAIN queue -> {"no", "soon", "yes"}],
           todo' \subseteq DOMAIN queue, watched' \subseteq DOMAIN queue
    PROVE  Pools'
<1>1. Fits(pool)'
    BY DEF Pools, Fits
<1> QED BY <1>1 DEF Pools

\* Nothing of the pools changed at all.
LEMMA PoolsSame ==
    ASSUME Pools, UNCHANGED <<pool, queue, writable, removable, watched, dropping, todo>>
    PROVE  Pools'
BY PoolsKept DEF Pools

\* No account and no subscriber came or left.
LEMMA OwnersKept ==
    ASSUME Owners, UNCHANGED <<stage, owner, removable>>, DOMAIN queue' = DOMAIN queue
    PROVE  Owners'
BY DEF Owners

\* An account is a subscriber's.
LEMMA OwnerIsSubscriber ==
    ASSUME Pools, Owners, NEW sid \in DOMAIN queue
    PROVE  sid \in Sockets /\ owner[sid] \in Subscribers
BY DEF Pools, Fits, Owners

\* Every account gets the frame of the new message.
LEMMA BroadcastQueues ==
    ASSUME Pools, Buffers, Broadcast
    PROVE  /\ Len(published) \in Nat /\ published' = Append(published, Len(published) + 1)
           /\ queue' \in [DOMAIN queue -> Seq(Part)] /\ DOMAIN queue' = DOMAIN queue
           /\ \A sid \in DOMAIN queue : queue'[sid] = queue[sid] \o Frame(Len(published) + 1)
<1>1. PICK m : m = Len(published) + 1
    OBVIOUS
<1>2. Len(published) \in Nat
    BY LenProperties DEF Buffers
<1>3. m \in Nat /\ Frame(m) \in Seq(Part)
    BY <1>1, <1>2, FrameParts
<1>4. queue' = [sid \in DOMAIN queue |-> queue[sid] \o Frame(m)] /\ published' = Append(published, m)
    BY <1>1 DEF Broadcast, ToAll
<1>5. ASSUME NEW sid \in DOMAIN queue PROVE queue[sid] \o Frame(m) \in Seq(Part)
    <2>1. queue[sid] \in Seq(Part)
        BY DEF Pools
    <2> QED BY ONLY <1>3, <2>1, ConcatProperties
<1> QED BY ONLY <1>1, <1>2, <1>4, <1>5

\* A broadcast keeps the pools.
LEMMA BroadcastKeeps ==
    ASSUME PoolInvariant, Broadcast
    PROVE  PoolInvariant'
<1>1. Pools /\ Steps /\ Owners /\ Buffers
    BY DEF PoolInvariant
<1>2. /\ Len(published) \in Nat /\ published' = Append(published, Len(published) + 1)
      /\ queue' \in [DOMAIN queue -> Seq(Part)] /\ DOMAIN queue' = DOMAIN queue
    BY <1>1, BroadcastQueues
<1>3. UNCHANGED <<pool, owner, writable, removable, watched, dropping, todo, phase, stage,
                  pipe, raw>>
    BY DEF Broadcast, pollerVars, stepVars, subscriberVars
<1>4. Pools'
    BY <1>1, <1>2, <1>3, PoolsKept DEF Pools
<1>5. Owners'
    BY <1>1, <1>2, <1>3, OwnersKept
<1>6. published' \in Seq(Nat)
    <2>1. published \in Seq(Nat) /\ Len(published) + 1 \in Nat
        BY <1>1, <1>2 DEF Buffers
    <2> QED BY ONLY <1>2, <2>1, AppendProperties
<1> QED BY <1>1, <1>3, <1>4, <1>5, <1>6 DEF PoolInvariant, Steps, Buffers

\* Time passes, and a socket may be written to.
LEMMA DrainedKeeps ==
    ASSUME PoolInvariant, NEW sid \in Sockets, Drained(sid)
    PROVE  PoolInvariant'
<1>1. Pools /\ Steps /\ Owners /\ Buffers
    BY DEF PoolInvariant
<1>2. /\ sid \in DOMAIN writable /\ writable' = [writable EXCEPT ![sid] = "yes"]
      /\ UNCHANGED <<pool, owner, queue, removable, watched, dropping, todo, phase, stage,
                     pipe, raw, published>>
    BY DEF Drained, pollerVars, stepVars, subscriberVars
<1>3. writable' \in [DOMAIN queue -> {"no", "soon", "yes"}]
    BY <1>1, <1>2 DEF Pools
<1>4. Pools'
    BY <1>1, <1>2, <1>3, PoolsKept DEF Pools
<1>5. Owners'
    BY <1>1, <1>2, OwnersKept
<1> QED BY <1>1, <1>2, <1>4, <1>5 DEF PoolInvariant, Steps, Buffers

\* The step begins without a new connection.
LEMMA StartStepKeeps ==
    ASSUME PoolInvariant, StartStep
    PROVE  PoolInvariant'
<1>1. Pools /\ Steps /\ Owners /\ Buffers
    BY DEF PoolInvariant
<1>2. /\ todo' = DOMAIN queue /\ phase' = "send"
      /\ UNCHANGED <<pool, owner, queue, writable, removable, watched, dropping, stage,
                     pipe, raw, published>>
    BY DEF StartStep, writerVars, pollerVars, subscriberVars
<1>3. Pools'
    BY <1>1, <1>2, PoolsKept DEF Pools
<1>4. Owners'
    BY <1>1, <1>2, OwnersKept
<1> QED BY <1>1, <1>2, <1>3, <1>4 DEF PoolInvariant, Steps, Buffers

\* A subscriber asks for a connection.
LEMMA ConnectKeeps ==
    ASSUME PoolInvariant, NEW s \in Subscribers, Connect(s)
    PROVE  PoolInvariant'
<1>1. Pools /\ Steps /\ Owners /\ Buffers
    BY DEF PoolInvariant
<1>2. /\ stage[s] = "new" /\ stage' = [stage EXCEPT ![s] = "connecting"]
      /\ UNCHANGED <<pool, owner, queue, writable, removable, watched, dropping, todo, phase,
                     pipe, raw, published>>
    BY DEF Connect, writerVars, pollerVars, stepVars
<1>3. Pools'
    BY <1>1, <1>2, PoolsSame
<1>4. \A t \in Subscribers : stage'[t] = IF t = s THEN "connecting" ELSE stage[t]
    BY <1>1, <1>2 DEF Owners
<1>5. stage' \in [Subscribers -> Stages]
    BY <1>1, <1>2 DEF Owners, Stages
<1>6. \A sid \in DOMAIN queue : owner[sid] \in Subscribers /\ owner[sid] # s
    BY <1>1, <1>2, OwnerIsSubscriber DEF Owners
<1>7. Owners'
    BY <1>1, <1>2, <1>4, <1>5, <1>6 DEF Owners, Pools
<1> QED BY <1>1, <1>2, <1>3, <1>7 DEF PoolInvariant, Steps, Buffers

\* A connection ends; its account, if there is one, is still there.
LEMMA CloseKeeps ==
    ASSUME PoolInvariant, NEW s \in Subscribers, Close(s)
    PROVE  PoolInvariant'
<1>1. Pools /\ Steps /\ Owners /\ Buffers
    BY DEF PoolInvariant
<1>2. /\ stage' = [stage EXCEPT ![s] = "closed"] /\ pipe' = [pipe EXCEPT ![s] = <<>>]
      /\ UNCHANGED <<pool, owner, queue, writable, removable, watched, dropping, todo, phase,
                     raw, published>>
    BY DEF Close, writerVars, pollerVars, stepVars
<1>3. Pools'
    BY <1>1, <1>2, PoolsSame
<1>4. \A t \in Subscribers : stage'[t] = IF t = s THEN "closed" ELSE stage[t]
    BY <1>1, <1>2 DEF Owners
<1>5. stage' \in [Subscribers -> Stages]
    BY <1>1, <1>2 DEF Owners, Stages
<1>6. \A sid \in DOMAIN queue : owner[sid] \in Subscribers
    BY <1>1, OwnerIsSubscriber
<1>7. Owners'
    BY <1>1, <1>2, <1>4, <1>5, <1>6 DEF Owners, Pools
<1>8. Buffers'
    <2>1. PICK none : none = <<>> /\ none \in Seq(Part) /\ Len(none) = 0
        <3>1. <<>> \in Seq(Part) /\ Len(<<>>) = 0
            OBVIOUS
        <3> QED BY <3>1
    <2>2. pipe \in [Subscribers -> Seq(Part)] /\ pipe' = [pipe EXCEPT ![s] = none]
        BY <1>1, <1>2, <2>1 DEF Buffers
    <2>3. /\ pipe' \in [Subscribers -> Seq(Part)]
          /\ \A t \in Subscribers : pipe'[t] = IF t = s THEN none ELSE pipe[t]
        BY ONLY <2>1, <2>2, s \in Subscribers
    <2>4. 0 <= Capacity
        BY PubSubAssumption DEF PubSubAssumption
    <2>5. \A t \in Subscribers : Len(pipe'[t]) <= Capacity
        BY <1>1, <2>1, <2>3, <2>4 DEF Buffers
    <2> QED BY <1>1, <1>2, <2>3, <2>5 DEF Buffers
<1> QED BY <1>1, <1>2, <1>3, <1>7, <1>8 DEF PoolInvariant, Steps

\* What OnDataReady does: n parts join what was left over, and whole frames go.
Reads(s, n, parts) ==
    /\ n \in 1 .. Len(pipe[s])
    /\ parts \in Seq(Part) /\ parts = raw[s] \o SubSeq(pipe[s], 1, n)
    /\ Len(parts) = Len(raw[s]) + n
    /\ pipe' = [pipe EXCEPT ![s] = Shifted(pipe[s], n)]
    /\ raw' = [raw EXCEPT ![s] = Shifted(parts, 2 * Frames(parts))]
    /\ received' = [received EXCEPT ![s] = received[s] \o MessagesOf(parts)]
    /\ UNCHANGED <<pool, owner, queue, writable, removable, watched, dropping, todo, phase,
                   stage, published, joined>>

\* A chunk is a part of what is on its way.
LEMMA ReadsChunk ==
    ASSUME Buffers, NEW s \in Subscribers, OnDataReady(s)
    PROVE  stage[s] = "accepted" /\ \E n, parts : Reads(s, n, parts)
<1> DEFINE Chunk(n) == raw[s] \o SubSeq(pipe[s], 1, n)
<1>1. PICK n \in 1 .. Len(pipe[s]) :
          /\ pipe' = [pipe EXCEPT ![s] = SubSeq(@, n + 1, Len(@))]
          /\ raw' = [raw EXCEPT ![s] =
                         SubSeq(Chunk(n), 2 * Frames(Chunk(n)) + 1, Len(Chunk(n)))]
          /\ received' = [received EXCEPT ![s] = @ \o MessagesOf(Chunk(n))]
    BY DEF OnDataReady
<1> DEFINE parts == Chunk(n)
<1>2. /\ stage[s] = "accepted"
      /\ UNCHANGED <<pool, owner, queue, writable, removable, watched, dropping, todo, phase,
                     stage, published, joined>>
    BY DEF OnDataReady, writerVars, pollerVars, stepVars
<1>3. pipe[s] \in Seq(Part) /\ raw[s] \in Seq(Part) /\ Len(pipe[s]) \in Nat
    BY LenProperties DEF Buffers
<1>4. n \in Nat /\ n <= Len(pipe[s])
    BY <1>3
<1>5. SubSeq(pipe[s], 1, n) \in Seq(Part) /\ Len(SubSeq(pipe[s], 1, n)) = n
    BY ONLY <1>3, <1>4, Cut
<1>6. parts \in Seq(Part) /\ Len(parts) = Len(raw[s]) + n
    BY ONLY <1>3, <1>5, ConcatProperties
<1>7. /\ pipe' = [pipe EXCEPT ![s] = Shifted(pipe[s], n)]
      /\ raw' = [raw EXCEPT ![s] = Shifted(parts, 2 * Frames(parts))]
      /\ received' = [received EXCEPT ![s] = received[s] \o MessagesOf(parts)]
    BY <1>1 DEF Shifted
<1>8. n \in 1 .. Len(pipe[s]) /\ parts = raw[s] \o SubSeq(pipe[s], 1, n)
    BY <1>1
<1>9. Reads(s, n, parts)
    BY ONLY <1>2, <1>6, <1>7, <1>8 DEF Reads
<1> QED BY <1>2, <1>9

\* Whole frames go, so that one part is left over at most.
LEMMA LeftOver ==
    ASSUME NEW parts \in Seq(Part)
    PROVE  /\ Frames(parts) \in Nat /\ 2 * Frames(parts) \in Nat /\ 2 * Frames(parts) <= Len(parts)
           /\ Shifted(parts, 2 * Frames(parts)) \in Seq(Part)
           /\ Len(Shifted(parts, 2 * Frames(parts))) = Len(parts) - 2 * Frames(parts)
           /\ Len(Shifted(parts, 2 * Frames(parts))) <= 1
<1>1. PICK k : k = Frames(parts)
    OBVIOUS
<1>2. PICK size : size = Len(parts) /\ size \in Nat
    BY LenProperties
<1>3. k = size \div 2
    BY ONLY <1>1, <1>2 DEF Frames
<1>4. k \in Nat /\ (size = 2 * k \/ size = 2 * k + 1)
    BY ONLY <1>2, <1>3, Halves
<1>5. 2 * k \in Nat /\ 2 * k <= size /\ size - 2 * k \in 0 .. 1
    BY ONLY <1>2, <1>4
<1>6. PICK x : x = 2 * k /\ x \in Nat /\ x <= Len(parts)
    BY ONLY <1>2, <1>5
<1>7. Shifted(parts, x) \in Seq(Part) /\ Len(Shifted(parts, x)) = Len(parts) - x
    BY ONLY <1>6, parts \in Seq(Part), Cut
<1>8. Len(Shifted(parts, x)) <= 1
    BY ONLY <1>2, <1>5, <1>6, <1>7
<1>9. x = 2 * Frames(parts)
    BY ONLY <1>1, <1>6
<1> QED BY ONLY <1>1, <1>4, <1>6, <1>7, <1>8, <1>9

\* Reading takes parts from a pipe and leaves one of them at most.
LEMMA ReadKeeps ==
    ASSUME PoolInvariant, NEW s \in Subscribers, OnDataReady(s)
    PROVE  PoolInvariant'
<1>1. Pools /\ Steps /\ Owners /\ Buffers
    BY DEF PoolInvariant
<1>2. PICK n, parts : Reads(s, n, parts)
    BY <1>1, ReadsChunk
<1>3. UNCHANGED <<pool, owner, queue, writable, removable, watched, dropping, todo, phase,
                  stage, published>>
    BY ONLY <1>2 DEF Reads
<1>4. Pools'
    BY ONLY <1>1, <1>3, PoolsSame
<1>5. Owners'
    BY ONLY <1>1, <1>3, OwnersKept
<1>6. pipe[s] \in Seq(Part) /\ Len(pipe[s]) \in Nat /\ Len(pipe[s]) <= Capacity
    BY <1>1, LenProperties DEF Buffers
<1>7. n \in Nat /\ n >= 1 /\ n <= Len(pipe[s])
    BY ONLY <1>2, <1>6 DEF Reads
<1>8. PICK rest : rest = Shifted(pipe[s], n)
    OBVIOUS
<1>9. rest \in Seq(Part) /\ Len(rest) = Len(pipe[s]) - n
    BY ONLY <1>6, <1>7, <1>8, Cut
<1>10. Len(rest) <= Capacity
    BY <1>6, <1>7, <1>9, PubSubAssumption DEF PubSubAssumption
<1>11. PICK over : over = Shifted(parts, 2 * Frames(parts))
    OBVIOUS
<1>12. over \in Seq(Part) /\ Len(over) <= 1
    <2>1. parts \in Seq(Part)
        BY ONLY <1>2 DEF Reads
    <2> QED BY ONLY <1>11, <2>1, LeftOver
<1>13. pipe' = [pipe EXCEPT ![s] = rest] /\ raw' = [raw EXCEPT ![s] = over]
    BY ONLY <1>2, <1>8, <1>11 DEF Reads
<1>14. /\ pipe' \in [Subscribers -> Seq(Part)] /\ raw' \in [Subscribers -> Seq(Part)]
       /\ \A t \in Subscribers : pipe'[t] = IF t = s THEN rest ELSE pipe[t]
       /\ \A t \in Subscribers : raw'[t] = IF t = s THEN over ELSE raw[t]
    BY <1>1, <1>9, <1>12, <1>13 DEF Buffers
<1>15. Buffers'
    BY <1>1, <1>3, <1>10, <1>12, <1>14 DEF Buffers
<1> QED BY <1>1, <1>3, <1>4, <1>5, <1>15 DEF PoolInvariant, Steps

-----------------------------------------------------------------------------
(***************************************************************************)
(* What a subscriber is sent: the refinement of Feed.                      *)
(***************************************************************************)

\* The part at position x of what is sent to a subscriber that missed the first
\* j messages.
IsPart(j, x, part) ==
    \/ part[2] = "begin" /\ x = 2 * (part[1] - j) - 1
    \/ part[2] = "end" /\ x = 2 * (part[1] - j)

\* The parts behind position x.
Goes(j, x, parts) == \A k \in 1 .. Len(parts) : IsPart(j, x + k, parts[k])

\* How many parts were sent since, or are to be.
Sent(s) == 2 * (Len(published) - joined[s])

\* An account has the last parts of them, whoever reads them.
Queued(s, sid) == Goes(joined[s], Sent(s) - Len(queue[sid]), queue[sid])

\* As long as the connection lasts, nothing is missing between what was received,
\* what is left over, what is on its way and what the account has.
Flows(s, sid) ==
    /\ Goes(joined[s], 2 * Len(received[s]), raw[s])
    /\ Goes(joined[s], 2 * Len(received[s]) + Len(raw[s]), pipe[s])
    /\ 2 * Len(received[s]) + Len(raw[s]) + Len(pipe[s]) + Len(queue[sid]) = Sent(s)

Streams ==
    \A sid \in DOMAIN queue :
        /\ Queued(owner[sid], sid)
        /\ stage[owner[sid]] = "accepted" => Flows(owner[sid], sid)

\* What was received is what was published from the acceptance on, up to somewhere.
History ==
    /\ \A i \in 1 .. Len(published) : published[i] = i
    /\ DOMAIN joined \subseteq Subscribers /\ joined \in [DOMAIN joined -> Nat]
    /\ received \in [Subscribers -> Seq(Nat)]
    /\ \A sid \in DOMAIN queue : owner[sid] \in DOMAIN joined
    /\ \A s \in DOMAIN joined :
           /\ stage[s] \in {"accepted", "closed"}
           /\ joined[s] + Len(received[s]) <= Len(published)
           /\ \A i \in 1 .. Len(received[s]) : received[s][i] = joined[s] + i
    /\ \A s \in Subscribers \ DOMAIN joined :
           Len(raw[s]) = 0 /\ Len(pipe[s]) = 0 /\ Len(received[s]) = 0

FeedInvariant == PoolInvariant /\ History /\ Streams

\* What a send leaves of a queue, and what of it is on its way.
LEMMA SendTakes ==
    ASSUME Pools, NEW sid \in DOMAIN queue, queue[sid] # <<>>, NEW room \in Int,
           NEW n \in Sendable(queue[sid], room)
    PROVE  /\ n \in Nat /\ n >= 1 /\ n <= room /\ n <= 2
           /\ queue[sid][1][2] # "begin" => n = 1
           /\ queue[sid] \in Seq(Part) /\ Len(queue[sid]) \in Nat /\ Len(queue[sid]) >= 1
           /\ Shifted(queue[sid], n) \in Seq(Part)
<1>1. n \in 1 .. (IF queue[sid][1][2] = "begin" THEN 2 ELSE 1) /\ n <= room
    BY DEF Sendable
<1>2. n \in Nat /\ n >= 1 /\ n <= 2 /\ (queue[sid][1][2] # "begin" => n = 1)
    BY ONLY <1>1
<1>3. queue[sid] \in Seq(Part)
    BY DEF Pools
<1>4. Len(queue[sid]) \in Nat /\ Len(queue[sid]) >= 1
    BY ONLY <1>3, queue[sid] # <<>>, EmptySeq, LenProperties
<1>5. Shifted(queue[sid], n) \in Seq(Part)
    BY ONLY <1>2, <1>3, Cut
<1> QED BY ONLY <1>1, <1>2, <1>3, <1>4, <1>5

\* What is sent is there: a frame that begins in a queue ends in it.
LEMMA WholeSends ==
    ASSUME FeedInvariant, NEW sid \in DOMAIN queue, queue[sid] # <<>>, NEW room \in Int,
           NEW n \in Sendable(queue[sid], room)
    PROVE  n <= Len(queue[sid])
<1>1. Pools /\ Owners /\ Buffers /\ History /\ Streams
    BY DEF FeedInvariant, PoolInvariant
<1>2. /\ n \in Nat /\ n <= 2 /\ (queue[sid][1][2] # "begin" => n = 1)
      /\ Len(queue[sid]) \in Nat /\ Len(queue[sid]) >= 1 /\ queue[sid] \in Seq(Part)
    BY <1>1, SendTakes
<1>3. PICK s : s = owner[sid] /\ s \in DOMAIN joined /\ Queued(s, sid)
    BY <1>1 DEF History, Streams
<1>4. joined[s] \in Nat /\ Len(published) \in Nat
    BY <1>1, <1>3, LenProperties DEF History, Buffers
<1>5. PICK part : part = queue[sid][1]
    OBVIOUS
<1>6. part \in Part
    BY ONLY <1>2, <1>5, ElementOfSeq
<1>7. part[1] \in Nat
    BY ONLY <1>6 DEF Part
<1>8. IsPart(joined[s], Sent(s) - Len(queue[sid]) + 1, part)
    BY ONLY <1>2, <1>3, <1>5 DEF Queued, Goes
<1>9. PICK j, m, last, size :
          j = joined[s] /\ m = part[1] /\ last = Len(published) /\ size = Len(queue[sid])
    OBVIOUS
<1>10. part[2] = "begin" => 2 * (last - j) - size + 1 = 2 * (m - j) - 1
    BY ONLY <1>8, <1>9 DEF IsPart, Sent
<1>11. part[2] = "begin" => size >= 2
    BY ONLY <1>2, <1>4, <1>7, <1>9, <1>10
<1> QED BY ONLY <1>2, <1>5, <1>9, <1>11

\* What a step does with an account.
SendsNothing(sid) == UNCHANGED <<pool, queue, writable, removable, watched, pipe>>

SendFails(sid) ==
    /\ stage[owner[sid]] = "closed" /\ Failed(sid)
    /\ UNCHANGED <<queue, writable, watched, pipe>>

SendLost(sid) ==
    /\ queue[sid] # <<>> /\ stage[owner[sid]] = "closed"
    /\ \E n \in Sendable(queue[sid], Capacity) :
           queue' = [queue EXCEPT ![sid] = Shifted(queue[sid], n)]
    /\ UNCHANGED <<pool, writable, removable, watched, pipe>>

SendBlocked(sid) ==
    /\ writable' = [writable EXCEPT ![sid] = "no"]
    /\ watched' = watched \cup {sid}
    /\ UNCHANGED <<pool, queue, removable, pipe>>

SendGoes(sid) ==
    /\ queue[sid] # <<>> /\ stage[owner[sid]] # "closed"
    /\ \E n \in Sendable(queue[sid], Capacity - Len(pipe[owner[sid]])) :
           /\ pipe' = [pipe EXCEPT ![owner[sid]] = pipe[owner[sid]] \o SubSeq(queue[sid], 1, n)]
           /\ queue' = [queue EXCEPT ![sid] = Shifted(queue[sid], n)]
    /\ UNCHANGED <<pool, writable, removable, watched>>

\* do_send does one of them.
LEMMA SendCases ==
    ASSUME NEW sid, DoSend(sid)
    PROVE  /\ phase = "send" /\ sid \in todo /\ todo' = todo \ {sid}
           /\ UNCHANGED <<owner, dropping, phase, stage, raw, published, joined, received>>
           /\ \/ SendsNothing(sid) \/ SendFails(sid) \/ SendLost(sid) \/ SendBlocked(sid)
              \/ SendGoes(sid)
<1>1. /\ phase = "send" /\ sid \in todo /\ todo' = todo \ {sid}
      /\ UNCHANGED <<owner, dropping, phase, stage, raw, published, joined, received>>
    BY DEF DoSend
<1>2. SendsNothing(sid) \/ SendFails(sid) \/ SendLost(sid) \/ SendBlocked(sid) \/ SendGoes(sid)
    BY DEF DoSend, SendsNothing, SendFails, SendLost, SendBlocked, SendGoes, WaitForWrite, writerVars
<1> QED BY <1>1, <1>2

\* A socket whose send failed is to be removed from both pools.
LEMMA FailedKeeps ==
    ASSUME PoolInvariant, NEW sid \in DOMAIN queue, SendFails(sid), todo' \subseteq DOMAIN queue,
           UNCHANGED <<owner, dropping, stage>>
    PROVE  Pools' /\ Owners'
<1>1. Pools /\ Owners
    BY DEF PoolInvariant
<1>2. /\ removable' = removable \cup {sid} /\ stage[owner[sid]] = "closed"
      /\ pool' = IF Located(pool, sid) THEN RemoveLater(pool, sid) ELSE pool
      /\ UNCHANGED <<queue, writable, watched>>
    BY DEF SendFails, Failed
<1>3. Fits(pool') /\ pool'.mapping = pool.mapping /\ pool'.removable = pool.removable \cup {sid}
    <2>1. CASE Located(pool, sid)
        <3>1. PICK p : p = [pool EXCEPT !.removable = @ \cup {sid}]
            OBVIOUS
        <3>2. Fits(p) /\ p.mapping = pool.mapping /\ p.removable = pool.removable \cup {sid}
            BY <1>1, <3>1, LaterFits DEF Pools
        <3>3. pool' = p
            BY <1>2, <2>1, <3>1 DEF RemoveLater
        <3> QED BY ONLY <3>2, <3>3
    <2>2. CASE ~Located(pool, sid)
        <3>1. sid \in pool.removable
            BY <1>1, <2>2 DEF Located, Pools
        <3>2. pool' = pool
            BY <1>2, <2>2
        <3> QED BY <1>1, <3>1, <3>2 DEF Pools
    <2> QED BY <2>1, <2>2
<1>4. Fits(pool)'
    BY ONLY <1>3 DEF Fits
<1>5. Pools'
    BY <1>1, <1>2, <1>3, <1>4 DEF Pools
<1>6. Owners'
    BY <1>1, <1>2 DEF Owners
<1> QED BY <1>5, <1>6

\* A send keeps the pools, whatever comes of it.
LEMMA SendKeeps ==
    ASSUME FeedInvariant, NEW sid \in Sockets, DoSend(sid)
    PROVE  PoolInvariant'
<1>1. Pools /\ Steps /\ Owners /\ Buffers /\ PoolInvariant
    BY DEF FeedInvariant, PoolInvariant
<1>2. /\ phase = "send" /\ sid \in todo /\ todo' = todo \ {sid}
      /\ UNCHANGED <<owner, dropping, phase, stage, raw, published, joined, received>>
      /\ \/ SendsNothing(sid) \/ SendFails(sid) \/ SendLost(sid) \/ SendBlocked(sid)
         \/ SendGoes(sid)
    BY SendCases
<1>3. sid \in DOMAIN queue /\ todo' \subseteq DOMAIN queue
    BY <1>1, <1>2 DEF Pools
<1>4. Steps'
    BY <1>2 DEF Steps
<1>5. CASE SendsNothing(sid)
    <2>1. UNCHANGED <<pool, queue, writable, removable, watched, pipe>>
        BY <1>5 DEF SendsNothing
    <2>2. Pools' /\ Owners'
        BY <1>1, <1>2, <1>3, <2>1, PoolsKept, OwnersKept DEF Pools
    <2> QED BY <1>1, <1>2, <1>4, <2>1, <2>2 DEF PoolInvariant, Buffers
<1>6. CASE SendFails(sid)
    <2>1. Pools' /\ Owners'
        BY <1>1, <1>2, <1>3, <1>6, FailedKeeps
    <2>2. UNCHANGED pipe
        BY <1>6 DEF SendFails
    <2> QED BY <1>1, <1>2, <1>4, <2>1, <2>2 DEF PoolInvariant, Buffers
<1>7. CASE SendLost(sid)
    <2>1. PICK n \in Sendable(queue[sid], Capacity) :
              queue' = [queue EXCEPT ![sid] = Shifted(queue[sid], n)]
        BY <1>7 DEF SendLost
    <2>2. UNCHANGED <<pool, writable, removable, watched, pipe>> /\ queue[sid] # <<>>
        BY <1>7 DEF SendLost
    <2>3. Capacity \in Int
        BY PubSubAssumption DEF PubSubAssumption
    <2>4. Shifted(queue[sid], n) \in Seq(Part)
        BY <1>1, <1>3, <2>2, <2>3, SendTakes
    <2>5. queue' \in [DOMAIN queue -> Seq(Part)] /\ DOMAIN queue' = DOMAIN queue
        BY <1>1, <2>1, <2>4 DEF Pools
    <2>6. Pools' /\ Owners'
        BY <1>1, <1>2, <1>3, <2>2, <2>5, PoolsKept, OwnersKept DEF Pools
    <2> QED BY <1>1, <1>2, <1>4, <2>2, <2>6 DEF PoolInvariant, Buffers
<1>8. CASE SendBlocked(sid)
    <2>1. /\ writable' = [writable EXCEPT ![sid] = "no"] /\ watched' = watched \cup {sid}
          /\ UNCHANGED <<pool, queue, removable, pipe>>
        BY <1>8 DEF SendBlocked
    <2>2. writable' \in [DOMAIN queue -> {"no", "soon", "yes"}] /\ watched' \subseteq DOMAIN queue
        BY <1>1, <1>3, <2>1 DEF Pools
    <2>3. Pools' /\ Owners'
        BY <1>1, <1>2, <1>3, <2>1, <2>2, PoolsKept, OwnersKept DEF Pools
    <2> QED BY <1>1, <1>2, <1>4, <2>1, <2>3 DEF PoolInvariant, Buffers
<1>9. CASE SendGoes(sid)
    <2>1. PICK s \in Subscribers : s = owner[sid]
        BY <1>1, <1>3, OwnerIsSubscriber
    <2>2. PICK n \in Sendable(queue[sid], Capacity - Len(pipe[s])) :
              /\ pipe' = [pipe EXCEPT ![s] = pipe[s] \o SubSeq(queue[sid], 1, n)]
              /\ queue' = [queue EXCEPT ![sid] = Shifted(queue[sid], n)]
        BY <1>9, <2>1 DEF SendGoes
    <2>3. UNCHANGED <<pool, writable, removable, watched>> /\ queue[sid] # <<>>
        BY <1>9 DEF SendGoes
    <2>4. pipe[s] \in Seq(Part) /\ Len(pipe[s]) \in Nat /\ Capacity - Len(pipe[s]) \in Int
        BY <1>1, LenProperties, PubSubAssumption DEF Buffers, PubSubAssumption
    <2>5. /\ n \in Nat /\ n >= 1 /\ n <= Capacity - Len(pipe[s]) /\ queue[sid] \in Seq(Part)
          /\ Shifted(queue[sid], n) \in Seq(Part)
        BY <1>1, <1>3, <2>3, <2>4, SendTakes
    <2>6. queue' \in [DOMAIN queue -> Seq(Part)] /\ DOMAIN queue' = DOMAIN queue
        BY <1>1, <2>2, <2>5 DEF Pools
    <2>7. Pools' /\ Owners'
        BY <1>1, <1>2, <1>3, <2>3, <2>6, PoolsKept, OwnersKept DEF Pools
    <2>8. n <= Len(queue[sid])
        BY <1>3, <2>3, <2>4, <2>2, WholeSends
    <2>9. SubSeq(queue[sid], 1, n) \in Seq(Part) /\ Len(SubSeq(queue[sid], 1, n)) = n
        BY ONLY <2>5, <2>8, Cut
    <2>10. PICK more : more = pipe[s] \o SubSeq(queue[sid], 1, n)
        OBVIOUS
    <2>11. more \in Seq(Part) /\ Len(more) = Len(pipe[s]) + n
        BY ONLY <2>4, <2>9, <2>10, ConcatProperties
    <2>12. Len(more) <= Capacity
        BY <2>4, <2>5, <2>11, PubSubAssumption DEF PubSubAssumption
    <2>13. /\ pipe' \in [Subscribers -> Seq(Part)]
           /\ \A t \in Subscribers : pipe'[t] = IF t = s THEN more ELSE pipe[t]
        BY <1>1, <2>2, <2>10, <2>11 DEF Buffers
    <2>14. Buffers'
        BY <1>1, <1>2, <2>12, <2>13 DEF Buffers
    <2> QED BY <1>4, <2>7, <2>14 DEF PoolInvariant
<1> QED BY <1>2, <1>5, <1>6, <1>7, <1>8, <1>9

\* What a new connection is entered into.
Enters(s, sid) ==
    /\ phase = "idle" /\ stage[s] = "connecting" /\ sid \notin DOMAIN queue
    /\ pool' = AddSocket(pool, sid) /\ DOMAIN queue' = DOMAIN queue \cup {sid}
    /\ queue' = [k \in DOMAIN queue \cup {sid} |-> IF k = sid THEN <<>> ELSE queue[k]]
    /\ writable' = [k \in DOMAIN queue \cup {sid} |-> IF k = sid THEN "no" ELSE writable[k]]
    /\ owner' = [owner EXCEPT ![sid] = s] /\ stage' = [stage EXCEPT ![s] = "accepted"]
    /\ watched' = watched \cup {sid} /\ todo' = DOMAIN queue' /\ phase' = "send"
    /\ joined' = [k \in DOMAIN joined \cup {s} |-> IF k = s THEN Len(published) ELSE joined[k]]
    /\ UNCHANGED <<removable, dropping, pipe, raw, published, received>>

\* on_accepted: the maps get a new key each.
LEMMA AcceptedEnters ==
    ASSUME Pools, NEW s \in Subscribers, NEW sid \in Sockets, OnAccepted(s, sid)
    PROVE  Enters(s, sid)
<1>1. DOMAIN writable = DOMAIN queue /\ DOMAIN pool.mapping = DOMAIN queue
    BY DEF Pools
<1>2. /\ phase = "idle" /\ stage[s] = "connecting" /\ sid \notin DOMAIN queue
      /\ pool' = AddSocket(pool, sid)
      /\ owner' = [owner EXCEPT ![sid] = s] /\ stage' = [stage EXCEPT ![s] = "accepted"]
      /\ watched' = watched \cup {sid} /\ todo' = DOMAIN queue' /\ phase' = "send"
      /\ UNCHANGED <<removable, dropping, pipe, raw, published, received>>
    BY <1>1 DEF OnAccepted, Acceptable, WaitForWrite
<1>3. queue' = [k \in DOMAIN queue \cup {sid} |-> IF k = sid THEN <<>> ELSE queue[k]]
    BY DEF OnAccepted, Put
<1>4. writable' = [k \in DOMAIN queue \cup {sid} |-> IF k = sid THEN "no" ELSE writable[k]]
    BY <1>1 DEF OnAccepted, Put
<1>5. joined' = [k \in DOMAIN joined \cup {s} |-> IF k = s THEN Len(published) ELSE joined[k]]
    BY DEF OnAccepted, Put
<1>6. DOMAIN queue' = DOMAIN queue \cup {sid}
    BY ONLY <1>3
<1> QED BY ONLY <1>2, <1>3, <1>4, <1>5, <1>6 DEF Enters

\* A new connection has a place, an account and a subscriber.
LEMMA AcceptedKeeps ==
    ASSUME PoolInvariant, NEW s \in Subscribers, NEW sid \in Sockets, OnAccepted(s, sid)
    PROVE  PoolInvariant'
<1>1. Pools /\ Steps /\ Owners /\ Buffers
    BY DEF PoolInvariant
<1>2. Enters(s, sid)
    BY <1>1, AcceptedEnters
<1>3. /\ Fits(pool') /\ DOMAIN pool'.mapping = DOMAIN queue \cup {sid}
      /\ pool'.removable = removable
    <2>1. Fits(pool) /\ sid \notin DOMAIN pool.mapping /\ DOMAIN pool.mapping = DOMAIN queue
          /\ pool.removable = removable
        BY <1>1, <1>2 DEF Pools, Enters
    <2>2. PICK p : p = pool /\ Fits(p) /\ sid \notin DOMAIN p.mapping
        BY <2>1
    <2>3. PICK q : q = AddSocket(p, sid)
        OBVIOUS
    <2>4. Fits(q) /\ DOMAIN q.mapping = DOMAIN p.mapping \cup {sid} /\ q.removable = p.removable
        BY ONLY <2>2, <2>3, sid \in Sockets, AddFits
    <2>5. pool' = q
        BY <1>2, <2>2, <2>3 DEF Enters
    <2> QED BY ONLY <2>1, <2>2, <2>4, <2>5
<1>4. Fits(pool)'
    BY ONLY <1>3 DEF Fits
<1>5. /\ DOMAIN queue' = DOMAIN queue \cup {sid}
      /\ queue' \in [DOMAIN queue \cup {sid} -> Seq(Part)]
    <2>1. PICK none : none = <<>> /\ none \in Seq(Part)
        <3>1. <<>> \in Seq(Part)
            OBVIOUS
        <3> QED BY <3>1
    <2>2. queue' = [k \in DOMAIN queue \cup {sid} |-> IF k = sid THEN none ELSE queue[k]]
        BY ONLY <1>2, <2>1 DEF Enters
    <2>3. \A k \in DOMAIN queue : queue[k] \in Seq(Part)
        BY ONLY <1>1 DEF Pools
    <2> QED BY ONLY <2>1, <2>2, <2>3
<1>6. writable' \in [DOMAIN queue \cup {sid} -> {"no", "soon", "yes"}]
    <2>1. \A k \in DOMAIN queue : writable[k] \in {"no", "soon", "yes"}
        BY ONLY <1>1 DEF Pools
    <2> QED BY ONLY <1>2, <2>1 DEF Enters
<1>7. Pools'
    <2>1. /\ removable' = removable /\ todo' = DOMAIN queue' /\ watched' = watched \cup {sid}
          /\ dropping' = dropping
        BY ONLY <1>2 DEF Enters
    <2>2. removable \subseteq DOMAIN queue /\ watched \subseteq DOMAIN queue /\ dropping \subseteq Sockets
        BY ONLY <1>1 DEF Pools
    <2> QED BY ONLY <1>3, <1>4, <1>5, <1>6, <2>1, <2>2 DEF Pools
<1>8. Owners'
    <2>1. /\ owner' = [owner EXCEPT ![sid] = s] /\ stage' = [stage EXCEPT ![s] = "accepted"]
          /\ removable' = removable /\ stage[s] = "connecting" /\ sid \notin DOMAIN queue
        BY ONLY <1>2 DEF Enters
    <2>2. /\ owner' \in [Sockets -> Subscribers \cup {NoOne}]
          /\ \A k \in Sockets : owner'[k] = IF k = sid THEN s ELSE owner[k]
        BY <1>1, <2>1 DEF Owners
    <2>3. /\ stage' \in [Subscribers -> Stages]
          /\ \A t \in Subscribers : stage'[t] = IF t = s THEN "accepted" ELSE stage[t]
        BY <1>1, <2>1 DEF Owners, Stages
    <2>4. s # NoOne
        BY PubSubAssumption DEF PubSubAssumption
    <2>5. \A k \in DOMAIN queue : k \in Sockets /\ owner[k] \in Subscribers /\ owner[k] # s
        BY <1>1, <2>1, OwnerIsSubscriber DEF Owners
    <2>6. \A k \in Sockets : owner'[k] # NoOne <=> k \in DOMAIN queue'
        BY <1>1, <1>5, <2>2, <2>4 DEF Owners
    <2>7. \A k \in DOMAIN queue' : stage'[owner'[k]] \in {"accepted", "closed"}
        BY <1>1, <1>5, <2>2, <2>3, <2>5 DEF Owners
    <2>8. \A k \in removable' : stage'[owner'[k]] = "closed"
        BY <1>1, <2>1, <2>2, <2>3, <2>5 DEF Owners, Pools
    <2>9. \A k, l \in DOMAIN queue' : owner'[k] = owner'[l] => k = l
        BY <1>1, <1>5, <2>2, <2>5 DEF Owners
    <2>10. ASSUME NEW t \in Subscribers, stage'[t] = "accepted"
           PROVE  \E k \in DOMAIN queue' : owner'[k] = t
        <3>1. CASE t = s
            BY <1>5, <2>2, <3>1
        <3>2. CASE t # s
            BY <1>1, <1>5, <2>1, <2>2, <2>3, <2>5, <2>10, <3>2 DEF Owners
        <3> QED BY <3>1, <3>2
    <2> QED BY ONLY <2>2, <2>3, <2>6, <2>7, <2>8, <2>9, <2>10 DEF Owners
<1>9. Steps' /\ Buffers'
    <2>1. phase' = "send" /\ UNCHANGED <<pipe, raw, published>>
        BY ONLY <1>2 DEF Enters
    <2> QED BY <1>1, <2>1 DEF Steps, Buffers
<1> QED BY <1>7, <1>8, <1>9 DEF PoolInvariant

\* What the end of a step takes away, and what stays.
Ends(gone) ==
    /\ removable \subseteq gone /\ \A sid \in gone : sid \in DOMAIN queue /\ stage[owner[sid]] = "closed"
    /\ todo = {} /\ phase' = "idle" /\ removable' = {} /\ watched' \subseteq watched \ gone
    /\ DOMAIN queue' = DOMAIN queue \ gone /\ DOMAIN writable' = DOMAIN queue \ gone
    /\ queue' = [sid \in DOMAIN queue' |-> queue'[sid]]
    /\ \A sid \in DOMAIN queue \ gone : queue'[sid] = queue[sid]
    /\ writable' \in [DOMAIN queue \ gone -> {"no", "soon", "yes"}]
    /\ dropping' \subseteq Sockets
    /\ Fits(pool') /\ DOMAIN pool'.mapping = DOMAIN queue \ gone /\ pool'.removable = {}
    /\ owner' = [sid \in Sockets |-> IF sid \in DOMAIN queue \ gone THEN owner[sid] ELSE NoOne]
    /\ UNCHANGED <<todo, stage, pipe, raw, published, joined, received>>

\* Poll removes the same sockets from all the pools.
LEMMA PollEnds ==
    ASSUME PoolInvariant, Poll
    PROVE  \E gone : Ends(gone)
<1>1. Pools /\ Steps /\ Owners /\ Buffers
    BY DEF PoolInvariant
<1> DEFINE Gone(dead) == removable \cup dead
           Ready(dead) == {sid \in (watched \ dropping) \ dead : Len(pipe[owner[sid]]) < Capacity}
           Closing(dead) ==
               [pool EXCEPT !.removable = @ \cup {sid \in dead : Located(pool, sid)}]
<1>2. PICK dead \in SUBSET {sid \in watched \ dropping : stage[owner[sid]] = "closed"} :
          /\ phase = "send" /\ todo = {}
          /\ queue' = Restrict(queue, DOMAIN queue \ Gone(dead))
          /\ writable' = [sid \in DOMAIN queue' |->
                              IF sid \in Ready(dead) THEN "soon" ELSE writable[sid]]
          /\ removable' = {}
          /\ watched' = (watched \ dropping) \ Gone(dead)
          /\ dropping' = dead \cup Ready(dead)
          /\ pool' = ApplyRemove(Closing(dead))
          /\ owner' = [sid \in Sockets |-> IF sid \in DOMAIN pool'.mapping THEN owner[sid] ELSE NoOne]
          /\ phase' = "idle"
          /\ UNCHANGED <<todo, stage, pipe, raw, published, joined, received>>
    BY DEF Poll, AccountsLeft, subscriberVars
<1> DEFINE gone == Gone(dead)
           ready == Ready(dead)
           closing == Closing(dead)
<1>3. /\ removable \subseteq gone /\ dead \subseteq DOMAIN queue /\ DOMAIN queue \subseteq Sockets
      /\ \A sid \in gone : sid \in DOMAIN queue /\ stage[owner[sid]] = "closed"
    <2>1. dead \subseteq DOMAIN queue /\ removable \subseteq DOMAIN queue /\ DOMAIN queue \subseteq Sockets
        BY <1>1, <1>2 DEF Pools, Fits
    <2>2. \A sid \in removable : stage[owner[sid]] = "closed"
        BY <1>1 DEF Owners
    <2> QED BY <1>2, <2>1, <2>2
<1>4. /\ DOMAIN queue' = DOMAIN queue \ gone
      /\ queue' = [sid \in DOMAIN queue' |-> queue'[sid]]
      /\ \A sid \in DOMAIN queue \ gone : queue'[sid] = queue[sid]
    <2>1. queue' = [sid \in DOMAIN queue \ gone |-> queue[sid]]
        BY <1>2 DEF Restrict
    <2> QED BY ONLY <2>1
<1>5. /\ DOMAIN writable' = DOMAIN queue \ gone
      /\ writable' \in [DOMAIN queue \ gone -> {"no", "soon", "yes"}]
    <2>1. \A sid \in DOMAIN queue : writable[sid] \in {"no", "soon", "yes"}
        BY <1>1 DEF Pools
    <2>2. writable' = [sid \in DOMAIN queue' |-> IF sid \in ready THEN "soon" ELSE writable[sid]]
        BY <1>2
    <2> QED BY ONLY <1>4, <2>1, <2>2
<1>6. dropping' \subseteq Sockets /\ watched' \subseteq watched \ gone
    <2>1. watched \subseteq DOMAIN queue
        BY <1>1 DEF Pools
    <2> QED BY <1>2, <1>3, <2>1
<1>7. Fits(pool') /\ DOMAIN pool'.mapping = DOMAIN queue \ gone /\ pool'.removable = {}
    <2>1. PICK more : more = {sid \in dead : Located(pool, sid)}
        OBVIOUS
    <2>2. PICK p : p = pool /\ Fits(p) /\ DOMAIN p.mapping = DOMAIN queue /\ p.removable = removable
        BY <1>1 DEF Pools
    <2>3. closing = [p EXCEPT !.removable = @ \cup more]
        BY <1>2, <2>1, <2>2
    <2>4. Fits(closing) /\ closing.mapping = p.mapping /\ closing.removable = p.removable \cup more
        BY ONLY <2>2, <2>3, LaterFits
    <2>5. PICK q : q = ApplyRemove(closing)
        OBVIOUS
    <2>6. Fits(q) /\ DOMAIN q.mapping = DOMAIN closing.mapping \ closing.removable /\ q.removable = {}
        BY ONLY <2>4, <2>5, ApplyFits
    <2>7. more \cup removable = gone
        BY <1>2, <1>3, <2>1, <2>2 DEF Located
    <2>8. pool' = q
        BY <1>2, <2>5
    <2>9. DOMAIN q.mapping = DOMAIN queue \ gone
        BY ONLY <2>2, <2>4, <2>6, <2>7
    <2> QED BY ONLY <2>6, <2>8, <2>9
<1>8. owner' = [sid \in Sockets |-> IF sid \in DOMAIN queue \ gone THEN owner[sid] ELSE NoOne]
    BY <1>2, <1>7
<1>9. /\ todo = {} /\ phase' = "idle" /\ removable' = {}
      /\ UNCHANGED <<todo, stage, pipe, raw, published, joined, received>>
    BY <1>2
<1>10. Ends(gone)
    BY ONLY <1>3, <1>4, <1>5, <1>6, <1>7, <1>8, <1>9 DEF Ends
<1> QED BY <1>10

\* The end of a step keeps the pools: no account of a connection that lasts goes.
LEMMA PollKeeps ==
    ASSUME PoolInvariant, Poll
    PROVE  PoolInvariant'
<1>1. Pools /\ Steps /\ Owners /\ Buffers
    BY DEF PoolInvariant
<1>2. PICK gone : Ends(gone)
    BY PollEnds
<1>3. DOMAIN queue \subseteq Sockets /\ DOMAIN queue' = DOMAIN queue \ gone
    BY <1>1, <1>2 DEF Pools, Fits, Ends
<1>4. Pools'
    <2>1. Fits(pool)'
        BY ONLY <1>2 DEF Ends, Fits
    <2>2. \A sid \in DOMAIN queue' : queue'[sid] \in Seq(Part)
        BY <1>1, <1>2, <1>3 DEF Ends, Pools
    <2>3. queue' \in [DOMAIN queue' -> Seq(Part)]
        <3>1. queue' = [sid \in DOMAIN queue' |-> queue'[sid]]
            BY ONLY <1>2 DEF Ends
        <3> QED BY ONLY <2>2, <3>1
    <2>4. /\ DOMAIN pool'.mapping = DOMAIN queue' /\ pool'.removable = removable' /\ removable' = {}
          /\ writable' \in [DOMAIN queue' -> {"no", "soon", "yes"}] /\ dropping' \subseteq Sockets
          /\ todo' = {} /\ watched' \subseteq watched \ gone
        BY ONLY <1>2, <1>3 DEF Ends
    <2>5. watched \subseteq DOMAIN queue
        BY <1>1 DEF Pools
    <2> QED BY ONLY <1>3, <2>1, <2>3, <2>4, <2>5 DEF Pools
<1>5. Owners'
    <2>1. /\ \A sid \in gone : sid \in DOMAIN queue /\ stage[owner[sid]] = "closed"
          /\ owner' = [sid \in Sockets |-> IF sid \in DOMAIN queue \ gone THEN owner[sid] ELSE NoOne]
          /\ stage' = stage /\ removable' = {}
        BY ONLY <1>2 DEF Ends
    <2>2. /\ owner' \in [Sockets -> Subscribers \cup {NoOne}]
          /\ \A sid \in Sockets : owner'[sid] = IF sid \in DOMAIN queue' THEN owner[sid] ELSE NoOne
        BY <1>1, <1>3, <2>1 DEF Owners
    <2>3. \A sid \in Sockets : owner'[sid] # NoOne <=> sid \in DOMAIN queue'
        BY <1>1, <1>3, <2>2 DEF Owners
    <2>4. \A sid \in DOMAIN queue' : stage'[owner'[sid]] \in {"accepted", "closed"}
        BY <1>1, <1>3, <2>1, <2>2 DEF Owners
    <2>5. \A k, l \in DOMAIN queue' : owner'[k] = owner'[l] => k = l
        BY <1>1, <1>3, <2>2 DEF Owners
    <2>6. ASSUME NEW s \in Subscribers, stage'[s] = "accepted"
          PROVE  \E sid \in DOMAIN queue' : owner'[sid] = s
        <3>1. PICK sid \in DOMAIN queue : owner[sid] = s
            BY <1>1, <2>1, <2>6 DEF Owners
        <3>2. sid \notin gone
            BY <2>1, <2>6, <3>1
        <3> QED BY <1>3, <2>2, <3>1, <3>2
    <2> QED BY <1>1, <2>1, <2>2, <2>3, <2>4, <2>5, <2>6 DEF Owners
<1>6. Steps' /\ Buffers'
    <2>1. phase' = "idle" /\ removable' = {} /\ todo' = {} /\ UNCHANGED <<pipe, raw, published>>
        BY ONLY <1>2 DEF Ends
    <2> QED BY <1>1, <2>1 DEF Steps, Buffers
<1> QED BY <1>4, <1>5, <1>6 DEF PoolInvariant

-----------------------------------------------------------------------------
(***************************************************************************)
(* The parts keep their order on their way.                                *)
(***************************************************************************)

\* Parts behind parts.
LEMMA GoesOn ==
    ASSUME NEW j, NEW x \in Int, NEW a \in Seq(Part), NEW b \in Seq(Part),
           NEW y \in Int, y - x = Len(a), Goes(j, x, a), Goes(j, y, b)
    PROVE  a \o b \in Seq(Part) /\ Len(a \o b) = Len(a) + Len(b) /\ Goes(j, x, a \o b)
<1>1. /\ a \o b \in Seq(Part) /\ Len(a \o b) = Len(a) + Len(b)
      /\ \A k \in 1 .. Len(a) + Len(b) :
             (a \o b)[k] = IF k <= Len(a) THEN a[k] ELSE b[k - Len(a)]
    BY ONLY a \in Seq(Part), b \in Seq(Part), ConcatProperties
<1>2. Len(a) \in Nat /\ Len(b) \in Nat
    BY ONLY a \in Seq(Part), b \in Seq(Part), LenProperties
<1>3. ASSUME NEW k \in 1 .. Len(a \o b) PROVE IsPart(j, x + k, (a \o b)[k])
    <2>1. CASE k <= Len(a)
        <3>1. k \in 1 .. Len(a) /\ (a \o b)[k] = a[k]
            BY ONLY <1>1, <1>2, <1>3, <2>1
        <3> QED BY <3>1 DEF Goes
    <2>2. CASE k > Len(a)
        <3>1. k - Len(a) \in 1 .. Len(b) /\ (a \o b)[k] = b[k - Len(a)]
            BY ONLY <1>1, <1>2, <1>3, <2>2
        <3>2. x + Len(a) + (k - Len(a)) = x + k
            BY ONLY <1>1, <1>2, <1>3, x \in Int
        <3>3. IsPart(j, y + (k - Len(a)), b[k - Len(a)])
            BY <3>1 DEF Goes
        <3>4. y + (k - Len(a)) = x + Len(a) + (k - Len(a))
            BY ONLY <1>2, <1>3, x \in Int, y \in Int, y - x = Len(a)
        <3> QED BY ONLY <3>1, <3>2, <3>3, <3>4
    <2> QED BY ONLY <1>1, <1>2, <1>3, <2>1, <2>2
<1>4. Goes(j, x, a \o b)
    BY ONLY <1>3 DEF Goes
<1> QED BY <1>1, <1>4

\* Parts cut into those in front and those behind.
LEMMA GoesCut ==
    ASSUME NEW j, NEW x \in Int, NEW a \in Seq(Part), NEW n \in Nat, n <= Len(a), Goes(j, x, a)
    PROVE  /\ Goes(j, x, SubSeq(a, 1, n)) /\ Goes(j, x + n, Shifted(a, n))
           /\ SubSeq(a, 1, n) \in Seq(Part) /\ Len(SubSeq(a, 1, n)) = n
           /\ Shifted(a, n) \in Seq(Part) /\ Len(Shifted(a, n)) = Len(a) - n
<1>1. PICK size : size = Len(a) /\ size \in Nat
    BY LenProperties
<1>2. PICK front, rest : front = SubSeq(a, 1, n) /\ rest = Shifted(a, n)
    OBVIOUS
<1>3. /\ front \in Seq(Part) /\ Len(front) = n /\ \A i \in 1 .. n : front[i] = a[i]
      /\ rest \in Seq(Part) /\ Len(rest) = size - n
      /\ \A i \in 1 .. size - n : rest[i] = a[n + i]
    BY ONLY <1>1, <1>2, a \in Seq(Part), n \in Nat, n <= Len(a), Cut
<1>4. \A k \in 1 .. size : IsPart(j, x + k, a[k])
    BY <1>1 DEF Goes
<1>5. ASSUME NEW k \in 1 .. n PROVE IsPart(j, x + k, front[k])
    <2>1. k \in 1 .. size /\ front[k] = a[k]
        BY ONLY <1>1, <1>3, <1>5, n \in Nat, n <= Len(a)
    <2> QED BY ONLY <1>4, <2>1
<1>6. ASSUME NEW k \in 1 .. size - n PROVE IsPart(j, x + n + k, rest[k])
    <2>1. n + k \in 1 .. size /\ x + n + k = x + (n + k)
        BY ONLY <1>1, <1>6, n \in Nat, n <= Len(a), x \in Int
    <2>2. rest[k] = a[n + k]
        BY ONLY <1>3, <1>6
    <2> QED BY ONLY <1>4, <2>1, <2>2
<1>7. Goes(j, x, front) /\ Goes(j, x + n, rest)
    BY ONLY <1>3, <1>5, <1>6 DEF Goes
<1> QED BY ONLY <1>1, <1>2, <1>3, <1>7

\* What is sent to one subscriber, through an account.
StreamOf(s, sid) == Queued(s, sid) /\ (stage[s] = "accepted" => Flows(s, sid))

\* The lengths and counts of a stream.
LEMMA StreamTypes ==
    ASSUME FeedInvariant, NEW sid \in DOMAIN queue
    PROVE  \E s \in Subscribers :
               /\ s = owner[sid] /\ s \in DOMAIN joined /\ StreamOf(s, sid)
               /\ joined[s] \in Nat /\ Len(published) \in Nat /\ Sent(s) \in Int
               /\ queue[sid] \in Seq(Part) /\ Len(queue[sid]) \in Nat
               /\ raw[s] \in Seq(Part) /\ Len(raw[s]) \in Nat
               /\ pipe[s] \in Seq(Part) /\ Len(pipe[s]) \in Nat
               /\ received[s] \in Seq(Nat) /\ Len(received[s]) \in Nat
<1>1. Pools /\ Owners /\ Buffers /\ History /\ Streams
    BY DEF FeedInvariant, PoolInvariant
<1>2. PICK s \in Subscribers : s = owner[sid]
    BY <1>1, OwnerIsSubscriber
<1>3. s \in DOMAIN joined /\ joined[s] \in Nat
    BY <1>1, <1>2 DEF History
<1>4. queue[sid] \in Seq(Part) /\ raw[s] \in Seq(Part) /\ pipe[s] \in Seq(Part)
    BY <1>1 DEF Pools, Buffers
<1>5. received[s] \in Seq(Nat) /\ published \in Seq(Nat)
    BY <1>1 DEF History, Buffers
<1>6. /\ Len(queue[sid]) \in Nat /\ Len(raw[s]) \in Nat /\ Len(pipe[s]) \in Nat
      /\ Len(received[s]) \in Nat /\ Len(published) \in Nat
    BY ONLY <1>4, <1>5, LenProperties
<1>7. Sent(s) \in Int
    BY ONLY <1>3, <1>6 DEF Sent
<1>8. StreamOf(s, sid)
    BY <1>1, <1>2 DEF Streams, StreamOf
<1> QED BY <1>2, <1>3, <1>4, <1>5, <1>6, <1>7, <1>8

\* What a step leaves alone of a stream.
LEMMA StreamKept ==
    ASSUME NEW s, NEW sid, StreamOf(s, sid), stage'[s] = stage[s], joined'[s] = joined[s],
           UNCHANGED published, queue'[sid] = queue[sid], raw'[s] = raw[s], pipe'[s] = pipe[s],
           received'[s] = received[s]
    PROVE  StreamOf(s, sid)'
<1>1. Sent(s)' = Sent(s)
    BY DEF Sent
<1>2. Queued(s, sid)'
    BY <1>1 DEF StreamOf, Queued, Goes
<1>3. Flows(s, sid) => Flows(s, sid)'
    BY <1>1 DEF Flows, Goes
<1> QED BY <1>2, <1>3 DEF StreamOf

\* A stream that a broadcast makes longer.
LEMMA StreamLonger ==
    ASSUME FeedInvariant, NEW sid \in DOMAIN queue, Broadcast
    PROVE  StreamOf(owner[sid], sid)'
<1>1. Pools /\ Buffers
    BY DEF FeedInvariant, PoolInvariant
<1>2. PICK s \in Subscribers :
          /\ s = owner[sid] /\ StreamOf(s, sid) /\ joined[s] \in Nat
          /\ Sent(s) \in Int /\ queue[sid] \in Seq(Part) /\ Len(queue[sid]) \in Nat
          /\ Len(raw[s]) \in Nat /\ Len(pipe[s]) \in Nat /\ Len(received[s]) \in Nat
    BY StreamTypes
<1>3. UNCHANGED <<owner, stage, raw, pipe, joined, received>>
    BY DEF Broadcast, subscriberVars
<1>4. PICK j, last, m : j = joined[s] /\ last = Len(published) /\ m = last + 1
    OBVIOUS
<1>5. /\ last \in Nat /\ published' = Append(published, m)
      /\ queue'[sid] = queue[sid] \o Frame(m)
    BY <1>1, <1>4, BroadcastQueues
<1>6. m \in Nat /\ j \in Nat
    BY <1>2, <1>4, <1>5
<1>7. PICK frame :
          /\ frame = Frame(m) /\ frame \in Seq(Part) /\ Len(frame) = 2
          /\ frame[1] = <<m, "begin">> /\ frame[2] = <<m, "end">>
    BY <1>6, FrameParts
<1>8. Len(published') = last + 1
    <2>1. published \in Seq(Nat)
        BY <1>1 DEF Buffers
    <2> QED BY ONLY <1>4, <1>5, <1>6, <2>1, AppendProperties
<1>9. Sent(s) = 2 * (last - j) /\ Sent(s)' = Sent(s) + 2
    <2>1. Sent(s) = 2 * (last - j)
        BY ONLY <1>4 DEF Sent
    <2>2. joined'[s] = j
        BY ONLY <1>3, <1>4
    <2>3. Sent(s)' = 2 * (last + 1 - j)
        <3>1. Sent(s)' = 2 * (Len(published') - joined'[s])
            BY ONLY DEF Sent
        <3>2. last \in Nat /\ j \in Nat
            BY ONLY <1>5, <1>6
        <3> QED BY ONLY <1>8, <2>2, <3>1, <3>2
    <2>4. last \in Nat /\ j \in Nat
        BY ONLY <1>5, <1>6
    <2>5. 2 * (last + 1 - j) = 2 * (last - j) + 2
        BY ONLY <2>4
    <2> QED BY ONLY <2>1, <2>3, <2>5
<1>10. Goes(j, Sent(s), frame)
    <2>1. IsPart(j, Sent(s) + 1, frame[1])
        <3>1. last \in Nat /\ j \in Nat /\ m = last + 1 /\ Sent(s) = 2 * (last - j)
            BY ONLY <1>4, <1>5, <1>6, <1>9
        <3>2. Sent(s) + 1 = 2 * (m - j) - 1
            BY ONLY <3>1
        <3>3. frame[1][1] = m /\ frame[1][2] = "begin"
            BY ONLY <1>7
        <3> QED BY ONLY <3>2, <3>3 DEF IsPart
    <2>2. IsPart(j, Sent(s) + 2, frame[2])
        <3>1. last \in Nat /\ j \in Nat /\ m = last + 1 /\ Sent(s) = 2 * (last - j)
            BY ONLY <1>4, <1>5, <1>6, <1>9
        <3>2. Sent(s) + 2 = 2 * (m - j)
            BY ONLY <3>1
        <3>3. frame[2][1] = m /\ frame[2][2] = "end"
            BY ONLY <1>7
        <3> QED BY ONLY <3>2, <3>3 DEF IsPart
    <2>3. ASSUME NEW k \in 1 .. Len(frame) PROVE IsPart(j, Sent(s) + k, frame[k])
        <3>1. k = 1 \/ k = 2
            BY ONLY <1>7, <2>3
        <3> QED BY ONLY <2>1, <2>2, <3>1
    <2> QED BY ONLY <2>3 DEF Goes
<1>11. PICK x : x = Sent(s) - Len(queue[sid]) /\ x \in Int /\ x + Len(queue[sid]) = Sent(s)
    BY <1>2
<1>12. Goes(j, x, queue[sid])
    BY <1>2, <1>4, <1>11 DEF StreamOf, Queued
<1>13. Goes(j, x, queue'[sid]) /\ Len(queue'[sid]) = Len(queue[sid]) + 2
    <2>1. PICK q : q = queue[sid] /\ q \in Seq(Part) /\ Goes(j, x, q)
        BY ONLY <1>2, <1>12
    <2>2. PICK y \in Int : y - x = Len(q) /\ Goes(j, y, frame)
        <3>1. Len(q) \in Nat /\ x + Len(q) = Sent(s)
            BY ONLY <1>2, <1>11, <2>1
        <3>2. PICK sent \in Int : sent = Sent(s) /\ x + Len(q) = sent
            BY ONLY <1>2, <3>1
        <3>3. x \in Int
            BY ONLY <1>11
        <3>4. sent - x = Len(q)
            BY ONLY <3>1, <3>2, <3>3
        <3> QED BY ONLY <1>10, <3>2, <3>4
    <2>3. Len(q \o frame) = Len(q) + Len(frame) /\ Goes(j, x, q \o frame)
        <3>1. frame \in Seq(Part) /\ x \in Int /\ q \in Seq(Part) /\ Goes(j, x, q)
            BY ONLY <1>7, <1>11, <2>1
        <3>2. Len(q \o frame) = Len(q) + Len(frame)
            BY ONLY <2>2, <3>1, GoesOn
        <3>3. Goes(j, x, q \o frame)
            BY ONLY <2>2, <3>1, GoesOn
        <3> QED BY ONLY <3>2, <3>3
    <2>4. queue'[sid] = q \o frame
        BY ONLY <1>5, <1>7, <2>1
    <2> QED BY ONLY <1>7, <2>1, <2>3, <2>4
<1>14. x = Sent(s)' - Len(queue'[sid])
    BY ONLY <1>2, <1>9, <1>11, <1>13
<1>15. Queued(s, sid)'
    BY <1>3, <1>4, <1>13, <1>14 DEF Queued, Goes
<1>16. ASSUME Flows(s, sid) PROVE Flows(s, sid)'
    <2>1. /\ Goes(joined[s], 2 * Len(received[s]), raw[s])'
          /\ Goes(joined[s], 2 * Len(received[s]) + Len(raw[s]), pipe[s])'
        BY ONLY <1>3, <1>16 DEF Flows, Goes
    <2>2. PICK r, a, b, c :
              r = Len(received[s]) /\ a = Len(raw[s]) /\ b = Len(pipe[s]) /\ c = Len(queue[sid])
        OBVIOUS
    <2>3. r \in Nat /\ a \in Nat /\ b \in Nat /\ c \in Nat
        BY ONLY <1>2, <2>2
    <2>4. 2 * r + a + b + c = Sent(s)
        BY ONLY <1>16, <2>2 DEF Flows
    <2>5. 2 * r + a + b + (c + 2) = Sent(s) + 2
        BY ONLY <2>3, <2>4
    <2>6. /\ Len(received'[s]) = r /\ Len(raw'[s]) = a /\ Len(pipe'[s]) = b
          /\ Len(queue'[sid]) = c + 2
        BY ONLY <1>3, <1>13, <2>2
    <2>7. 2 * Len(received'[s]) + Len(raw'[s]) + Len(pipe'[s]) + Len(queue'[sid]) = Sent(s)'
        BY ONLY <1>9, <2>5, <2>6
    <2> QED BY ONLY <2>1, <2>7 DEF Flows
<1>17. StreamOf(s, sid)'
    BY <1>2, <1>3, <1>15, <1>16 DEF StreamOf
<1> QED BY <1>2, <1>3, <1>17 DEF StreamOf

\* A stream whose next parts are sent: from the account into the pipe.
LEMMA StreamSent ==
    ASSUME FeedInvariant, NEW sid \in DOMAIN queue, NEW n \in Nat, n <= Len(queue[sid]),
           NEW s, s = owner[sid], queue'[sid] = Shifted(queue[sid], n),
           stage[s] = "accepted" => pipe'[s] = pipe[s] \o SubSeq(queue[sid], 1, n),
           UNCHANGED <<stage, raw, published, joined, received>>
    PROVE  StreamOf(s, sid)'
<1>1. /\ StreamOf(s, sid) /\ joined[s] \in Nat /\ Sent(s) \in Int
      /\ queue[sid] \in Seq(Part) /\ Len(queue[sid]) \in Nat
      /\ Len(raw[s]) \in Nat /\ Len(pipe[s]) \in Nat /\ Len(received[s]) \in Nat
      /\ pipe[s] \in Seq(Part)
    BY StreamTypes
<1>2. PICK j, c, x : j = joined[s] /\ c = Len(queue[sid]) /\ x = Sent(s) - c
    OBVIOUS
<1>3. c \in Nat /\ x \in Int /\ n <= c /\ x + c = Sent(s)
    <2>1. c \in Nat /\ n <= c
        BY ONLY <1>1, <1>2, n <= Len(queue[sid])
    <2>2. PICK sent \in Int : sent = Sent(s)
        BY ONLY <1>1
    <2>3. x = sent - c
        BY ONLY <1>2, <2>2
    <2>4. x \in Int /\ x + c = sent
        BY ONLY <2>1, <2>3
    <2> QED BY ONLY <2>1, <2>2, <2>4
<1>4. Goes(j, x, queue[sid])
    BY ONLY <1>1, <1>2 DEF StreamOf, Queued
<1>5. PICK front, rest : front = SubSeq(queue[sid], 1, n) /\ rest = Shifted(queue[sid], n)
    OBVIOUS
<1>6. /\ Goes(j, x, front) /\ Goes(j, x + n, rest) /\ front \in Seq(Part) /\ Len(front) = n
      /\ Len(rest) = c - n
    <2>1. PICK q : q = queue[sid] /\ q \in Seq(Part) /\ Len(q) = c /\ Goes(j, x, q)
        BY ONLY <1>1, <1>2, <1>4
    <2>2. n <= Len(q)
        BY ONLY <1>3, <2>1
    <2>3. x \in Int /\ q \in Seq(Part) /\ Goes(j, x, q)
        BY ONLY <1>3, <2>1
    <2>4. Goes(j, x, SubSeq(q, 1, n))
        BY ONLY <2>2, <2>3, n \in Nat, GoesCut
    <2>5. Goes(j, x + n, Shifted(q, n))
        BY ONLY <2>2, <2>3, n \in Nat, GoesCut
    <2>6. SubSeq(q, 1, n) \in Seq(Part) /\ Len(SubSeq(q, 1, n)) = n
        BY ONLY <2>2, <2>3, n \in Nat, Cut
    <2>7. Len(Shifted(q, n)) = Len(q) - n
        BY ONLY <2>2, <2>3, n \in Nat, Cut
    <2> QED BY ONLY <1>5, <2>1, <2>4, <2>5, <2>6, <2>7
<1>7. Sent(s)' = Sent(s)
    BY DEF Sent
<1>8. Queued(s, sid)'
    <2>1. Sent(s)' - Len(queue'[sid]) = x + n
        <3>1. Len(queue'[sid]) = c - n
            BY <1>5, <1>6
        <3>2. Sent(s) - (c - n) = x + n
            BY ONLY <1>1, <1>2, <1>3, n \in Nat
        <3> QED BY ONLY <1>7, <3>1, <3>2
    <2>2. Goes(j, x + n, queue'[sid]) /\ joined'[s] = j
        BY <1>2, <1>5, <1>6
    <2> QED BY ONLY <2>1, <2>2 DEF Queued, Goes
<1>9. ASSUME stage[s] = "accepted" PROVE Flows(s, sid)'
    <2>1. PICK r, a, b : r = Len(received[s]) /\ a = Len(raw[s]) /\ b = Len(pipe[s])
        OBVIOUS
    <2>2. r \in Nat /\ a \in Nat /\ b \in Nat
        BY ONLY <1>1, <2>1
    <2>3. Goes(j, 2 * r, raw[s]) /\ Goes(j, 2 * r + a, pipe[s]) /\ 2 * r + a + b + c = Sent(s)
        BY ONLY <1>1, <1>2, <1>9, <2>1 DEF StreamOf, Flows
    <2>4. x = 2 * r + a + b /\ 2 * r + a \in Int
        BY ONLY <1>2, <1>3, <2>2, <2>3
    <2>5. PICK old : old = pipe[s] /\ old \in Seq(Part) /\ Len(old) = b
        BY ONLY <1>1, <2>1
    <2>6. PICK z \in Int : z = 2 * r + a /\ x - z = Len(old) /\ Goes(j, z, old)
        <3>1. x - (2 * r + a) = b
            BY ONLY <2>2, <2>4
        <3> QED BY ONLY <2>3, <2>4, <2>5, <3>1
    <2>7. Len(old \o front) = b + n /\ Goes(j, z, old \o front)
        <3>1. Len(old \o front) = Len(old) + Len(front) /\ Goes(j, z, old \o front)
            <4>1. PICK y \in Int : y - z = Len(old) /\ Goes(j, y, front)
                BY ONLY <1>3, <1>6, <2>6
            <4>2. old \in Seq(Part) /\ front \in Seq(Part) /\ Goes(j, z, old)
                BY ONLY <1>6, <2>5, <2>6
            <4>3. Len(old \o front) = Len(old) + Len(front)
                BY ONLY <2>6, <4>1, <4>2, GoesOn
            <4>4. Goes(j, z, old \o front)
                BY ONLY <2>6, <4>1, <4>2, GoesOn
            <4> QED BY ONLY <4>3, <4>4
        <3> QED BY ONLY <1>6, <2>5, <3>1
    <2>8. pipe'[s] = old \o front /\ queue'[sid] = rest
        BY <1>5, <1>9, <2>5
    <2>9. /\ raw'[s] = raw[s] /\ Len(received'[s]) = r /\ Len(raw'[s]) = a /\ joined'[s] = j
          /\ Len(pipe'[s]) = b + n /\ Len(queue'[sid]) = c - n
        BY <1>2, <1>6, <2>1, <2>7, <2>8
    <2>10. 2 * r + a + (b + n) + (c - n) = Sent(s)
        BY ONLY <1>3, <2>2, <2>3, n \in Nat
    <2>11. 2 * Len(received'[s]) + Len(raw'[s]) + Len(pipe'[s]) + Len(queue'[sid]) = Sent(s)'
        BY ONLY <1>7, <2>9, <2>10
    <2>12. Goes(j, 2 * r, raw'[s]) /\ Goes(j, 2 * r + a, pipe'[s])
        BY ONLY <2>3, <2>6, <2>7, <2>8, <2>9
    <2> QED BY ONLY <2>9, <2>11, <2>12 DEF Flows, Goes
<1> QED BY <1>8, <1>9 DEF StreamOf

\* The messages of whole frames are those after the last one received.
LEMMA FramesGo ==
    ASSUME NEW j \in Int, NEW r \in Int, NEW parts \in Seq(Part), Goes(j, 2 * r, parts)
    PROVE  /\ MessagesOf(parts) \in Seq(Nat) /\ Len(MessagesOf(parts)) = Frames(parts)
           /\ \A i \in 1 .. Frames(parts) : MessagesOf(parts)[i] = j + r + i
<1>1. /\ Frames(parts) \in Nat /\ 2 * Frames(parts) <= Len(parts) /\ Len(parts) \in Nat
    BY LeftOver, LenProperties
<1>2. PICK size, k : size = Len(parts) /\ k = Frames(parts) /\ size \in Nat /\ k \in Nat /\ 2 * k <= size
    BY ONLY <1>1
<1>3. PICK messages : messages = MessagesOf(parts)
    OBVIOUS
<1>4. messages = [i \in 1 .. k |-> parts[2 * i][1]]
    BY ONLY <1>2, <1>3 DEF MessagesOf
<1>5. ASSUME NEW i \in 1 .. k PROVE parts[2 * i][1] \in Nat /\ parts[2 * i][1] = j + r + i
    <2>1. 2 * i \in 1 .. size
        BY ONLY <1>2, <1>5
    <2>2. PICK part : part = parts[2 * i]
        OBVIOUS
    <2>3. part \in Part
        BY ONLY <1>2, <2>1, <2>2, parts \in Seq(Part), ElementOfSeq
    <2>4. PICK m \in Nat : m = part[1]
        BY ONLY <2>3 DEF Part
    <2>5. IsPart(j, 2 * r + 2 * i, part)
        BY <1>2, <2>1, <2>2 DEF Goes
    <2>6. 2 * r + 2 * i = 2 * (m - j) - 1 \/ 2 * r + 2 * i = 2 * (m - j)
        BY ONLY <2>4, <2>5 DEF IsPart
    <2>7. m = j + r + i
        BY ONLY <1>2, <1>5, <2>6, j \in Int, r \in Int
    <2> QED BY ONLY <2>2, <2>4, <2>7
<1>6. messages \in [1 .. k -> Nat] /\ \A i \in 1 .. k : messages[i] = j + r + i
    BY ONLY <1>4, <1>5
<1>7. messages \in Seq(Nat) /\ Len(messages) = k
    <2>1. messages \in Seq(Nat)
        <3>1. messages \in UNION {[1 .. i -> Nat] : i \in Nat}
            BY ONLY <1>2, <1>6
        <3> QED BY ONLY <3>1, SeqDef
    <2>2. Len(messages) \in Nat /\ DOMAIN messages = 1 .. Len(messages) /\ DOMAIN messages = 1 .. k
        BY ONLY <1>6, <2>1, LenProperties
    <2>3. \A a, b \in Nat : 1 .. a = 1 .. b => a = b
        <3>1. ASSUME NEW a \in Nat, NEW b \in Nat, 1 .. a = 1 .. b PROVE a <= b
            <4>1. a = 0 \/ a \in 1 .. a
                OBVIOUS
            <4>2. a = 0 \/ a \in 1 .. b
                BY ONLY <3>1, <4>1
            <4> QED BY ONLY <4>2, a \in Nat, b \in Nat
        <3> QED BY ONLY <3>1
    <2> QED BY ONLY <1>2, <2>1, <2>2, <2>3
<1> QED BY ONLY <1>2, <1>3, <1>6, <1>7

\* What a subscriber received, when whole frames of a chunk are added.
Grows(s, k, messages) ==
    /\ k \in Nat /\ messages \in Seq(Nat) /\ Len(messages) = k
    /\ received' = [received EXCEPT ![s] = received[s] \o messages]
    /\ \A i \in 1 .. k : messages[i] = joined[s] + Len(received[s]) + i

\* A subscriber reads: whole frames are received, and the rest stays in order.
LEMMA StreamRead ==
    ASSUME FeedInvariant, NEW sid \in DOMAIN queue, NEW s, s = owner[sid], stage[s] = "accepted",
           NEW n, NEW parts, Reads(s, n, parts)
    PROVE  StreamOf(s, sid)' /\ \E k, messages : Grows(s, k, messages)
<1>1. /\ s \in Subscribers /\ StreamOf(s, sid) /\ joined[s] \in Nat /\ Sent(s) \in Int
      /\ queue[sid] \in Seq(Part) /\ Len(queue[sid]) \in Nat
      /\ raw[s] \in Seq(Part) /\ Len(raw[s]) \in Nat
      /\ pipe[s] \in Seq(Part) /\ Len(pipe[s]) \in Nat
      /\ received[s] \in Seq(Nat) /\ Len(received[s]) \in Nat
    BY StreamTypes
<1>2. PICK r \in Nat, a \in Nat, b \in Nat, c \in Nat :
          r = Len(received[s]) /\ a = Len(raw[s]) /\ b = Len(pipe[s]) /\ c = Len(queue[sid])
    BY ONLY <1>1
<1>3. PICK j \in Nat : j = joined[s]
    BY ONLY <1>1
<1>4. n \in Nat /\ n <= b
    BY ONLY <1>1, <1>2, Reads(s, n, parts) DEF Reads
<1>5. PICK left, old : left = raw[s] /\ left \in Seq(Part) /\ Len(left) = a
                       /\ old = pipe[s] /\ old \in Seq(Part) /\ Len(old) = b
    BY ONLY <1>1, <1>2
<1>6. PICK z \in Int, y \in Int : z = 2 * r /\ y = 2 * r + a
    <2>1. r \in Nat /\ a \in Nat
        BY ONLY <1>2
    <2>2. 2 * r \in Int /\ 2 * r + a \in Int
        BY ONLY <2>1
    <2> QED BY ONLY <2>2
<1>7. Goes(j, z, left) /\ Goes(j, y, old) /\ 2 * r + a + b + c = Sent(s)
    BY ONLY <1>1, <1>2, <1>3, <1>5, <1>6, stage[s] = "accepted" DEF StreamOf, Flows
<1>8. PICK front, rest : front = SubSeq(old, 1, n) /\ rest = Shifted(old, n)
    OBVIOUS
<1>9. front \in Seq(Part) /\ Len(front) = n /\ rest \in Seq(Part) /\ Len(rest) = b - n
    <2>1. n \in Nat /\ n <= Len(old) /\ old \in Seq(Part)
        BY ONLY <1>4, <1>5
    <2>2. front \in Seq(Part) /\ Len(front) = n
        BY ONLY <1>8, <2>1, Cut
    <2>3. rest \in Seq(Part)
        BY ONLY <1>8, <2>1, Cut
    <2>4. Len(rest) = Len(old) - n
        BY ONLY <1>8, <2>1, Cut
    <2> QED BY ONLY <1>5, <2>2, <2>3, <2>4
<1>10. Goes(j, y, front)
    BY ONLY <1>4, <1>5, <1>7, <1>8, GoesCut
<1>11. Goes(j, y + n, rest)
    BY ONLY <1>4, <1>5, <1>7, <1>8, GoesCut
<1>12. parts = left \o front /\ parts \in Seq(Part)
    BY ONLY <1>5, <1>8, Reads(s, n, parts) DEF Reads
<1>13. Goes(j, z, parts) /\ Len(parts) = a + n
    <2>1. y - z = Len(left)
        BY ONLY <1>2, <1>5, <1>6
    <2>2. Goes(j, z, left \o front)
        BY ONLY <1>5, <1>7, <1>9, <1>10, <2>1, GoesOn
    <2>3. Len(left \o front) = Len(left) + Len(front)
        BY ONLY <1>5, <1>9, ConcatProperties
    <2> QED BY ONLY <1>5, <1>9, <1>12, <2>2, <2>3
<1>14. PICK k, x : k = Frames(parts) /\ x = 2 * k /\ k \in Nat /\ x \in Nat /\ x <= Len(parts)
    BY ONLY <1>12, LeftOver
<1>15. PICK over : over = Shifted(parts, x)
    OBVIOUS
<1>16. Len(over) = a + n - x
    <2>1. x \in Nat /\ x <= Len(parts) /\ parts \in Seq(Part)
        BY ONLY <1>12, <1>14
    <2>2. Len(over) = Len(parts) - x
        BY ONLY <1>15, <2>1, Cut
    <2>3. Len(parts) = a + n
        BY ONLY <1>13
    <2>4. Len(over) = (a + n) - x
        BY ONLY <2>2, <2>3, Zenon
    <2> QED BY ONLY <1>2, <1>4, <2>1, <2>4
<1>17. Goes(j, z + x, over)
    <2>1. x \in Nat /\ x <= Len(parts) /\ parts \in Seq(Part) /\ z \in Int
        BY ONLY <1>6, <1>12, <1>14
    <2>2. Goes(j, z, parts)
        BY ONLY <1>13
    <2> QED BY ONLY <1>15, <2>1, <2>2, GoesCut
<1>18. PICK messages : messages = MessagesOf(parts)
    OBVIOUS
<1>19. Grows(s, k, messages)
    <2>1. PICK i \in Int, m \in Int : i = j /\ m = r /\ Goes(i, 2 * m, parts)
        <3>1. j \in Int /\ r \in Int
            BY ONLY <1>2, <1>3
        <3>2. Goes(j, 2 * r, parts)
            BY ONLY <1>6, <1>13
        <3> QED BY ONLY <3>1, <3>2
    <2>2. parts \in Seq(Part) /\ k = Frames(parts) /\ Goes(i, 2 * m, parts)
        BY ONLY <1>12, <1>14, <2>1
    <2>3. messages \in Seq(Nat) /\ Len(messages) = k
        BY ONLY <1>18, <2>2, FramesGo
    <2>4. \A l \in 1 .. k : messages[l] = i + m + l
        BY ONLY <1>18, <2>2, FramesGo
    <2>5. received' = [received EXCEPT ![s] = received[s] \o messages]
        BY ONLY <1>18, Reads(s, n, parts) DEF Reads
    <2>6. \A l \in 1 .. k : messages[l] = joined[s] + Len(received[s]) + l
        BY ONLY <1>2, <1>3, <2>1, <2>4
    <2>7. k \in Nat
        BY ONLY <1>14
    <2> QED BY ONLY <2>3, <2>5, <2>6, <2>7 DEF Grows
<1>20. Len(received'[s]) = r + k
    <2>1. received[s] \in Seq(Nat) /\ messages \in Seq(Nat) /\ Len(messages) = k
        BY ONLY <1>1, <1>19 DEF Grows
    <2>2. Len(received[s] \o messages) = Len(received[s]) + Len(messages)
        BY ONLY <2>1, ConcatProperties
    <2>3. received'[s] = received[s] \o messages
        <3>1. received \in [Subscribers -> Seq(Nat)]
            BY DEF FeedInvariant, History
        <3> QED BY ONLY <1>1, <1>19, <3>1 DEF Grows
    <2> QED BY ONLY <1>2, <2>1, <2>2, <2>3
<1>21. pipe'[s] = rest /\ raw'[s] = over
    <2>1. pipe \in [Subscribers -> Seq(Part)] /\ raw \in [Subscribers -> Seq(Part)]
        BY DEF FeedInvariant, PoolInvariant, Buffers
    <2>2. pipe' = [pipe EXCEPT ![s] = rest] /\ raw' = [raw EXCEPT ![s] = over]
        BY ONLY <1>5, <1>8, <1>14, <1>15, Reads(s, n, parts) DEF Reads
    <2> QED BY ONLY <1>1, <2>1, <2>2
<1>22. UNCHANGED <<queue, stage, joined, published>>
    BY ONLY Reads(s, n, parts) DEF Reads
<1>23. Sent(s)' = Sent(s)
    BY ONLY <1>22 DEF Sent
<1>24. Queued(s, sid)'
    <2>1. Queued(s, sid)
        BY ONLY <1>1 DEF StreamOf
    <2> QED BY ONLY <1>22, <1>23, <2>1 DEF Queued, Goes
<1>25. Flows(s, sid)'
    <2>1. PICK u \in Int, v \in Int :
              u = 2 * (r + k) /\ v = 2 * (r + k) + (a + n - x) /\ u = z + x /\ v = y + n
        <3>1. r \in Nat /\ a \in Nat /\ n \in Nat /\ k \in Nat /\ x = 2 * k
            BY ONLY <1>2, <1>4, <1>14
        <3>2. 2 * (r + k) \in Int /\ 2 * (r + k) + (a + n - x) \in Int
            BY ONLY <3>1
        <3>3. 2 * (r + k) = 2 * r + x /\ 2 * (r + k) + (a + n - x) = 2 * r + a + n
            BY ONLY <3>1
        <3> QED BY ONLY <1>6, <3>2, <3>3
    <2>2. Goes(j, u, raw'[s]) /\ Goes(j, v, pipe'[s])
        BY ONLY <1>11, <1>17, <1>21, <2>1
    <2>3. joined'[s] = j /\ 2 * Len(received'[s]) = u /\ 2 * Len(received'[s]) + Len(raw'[s]) = v
        BY ONLY <1>3, <1>16, <1>20, <1>21, <1>22, <2>1
    <2>4. 2 * (r + k) + (a + n - x) + (b - n) + c = 2 * r + a + b + c
        <3>1. /\ r \in Nat /\ a \in Nat /\ b \in Nat /\ c \in Nat /\ n \in Nat /\ k \in Nat
              /\ x = 2 * k
            BY ONLY <1>2, <1>4, <1>14
        <3> QED BY ONLY <3>1
    <2>5. Len(pipe'[s]) = b - n /\ Len(queue'[sid]) = c
        BY ONLY <1>2, <1>9, <1>21, <1>22
    <2>6. 2 * Len(received'[s]) + Len(raw'[s]) + Len(pipe'[s]) + Len(queue'[sid]) = Sent(s)'
        BY ONLY <1>7, <1>23, <2>1, <2>3, <2>4, <2>5
    <2> QED BY ONLY <2>2, <2>3, <2>6 DEF Flows, Goes
<1> QED BY ONLY <1>19, <1>24, <1>25 DEF StreamOf

-----------------------------------------------------------------------------
(***************************************************************************)
(* Every step keeps what is promised to the subscribers.                   *)
(***************************************************************************)

\* A step that accepts nobody, publishes nothing and delivers nothing.
LEMMA HistoryKept ==
    ASSUME History, UNCHANGED <<published, joined, received>>,
           \A sid \in DOMAIN queue' : sid \in DOMAIN queue /\ owner'[sid] = owner[sid],
           \A s \in DOMAIN joined : stage'[s] \in {"accepted", "closed"},
           \A s \in Subscribers \ DOMAIN joined : Len(raw'[s]) = 0 /\ Len(pipe'[s]) = 0
    PROVE  History'
BY DEF History

\* The streams one by one.
LEMMA StreamsThen ==
    ASSUME \A sid \in DOMAIN queue' : StreamOf(owner[sid], sid)'
    PROVE  Streams'
BY DEF Streams, StreamOf

\* A step that leaves the subscribers and what the accounts have alone.
LEMMA FeedKept ==
    ASSUME FeedInvariant, PoolInvariant',
           UNCHANGED <<stage, raw, pipe, published, joined, received>>,
           \A sid \in DOMAIN queue' :
               sid \in DOMAIN queue /\ owner'[sid] = owner[sid] /\ queue'[sid] = queue[sid]
    PROVE  FeedInvariant'
<1>1. History /\ Streams
    BY DEF FeedInvariant
<1>2. History'
    <2>1. /\ \A s \in DOMAIN joined : stage'[s] \in {"accepted", "closed"}
          /\ \A s \in Subscribers \ DOMAIN joined : Len(raw'[s]) = 0 /\ Len(pipe'[s]) = 0
        BY <1>1 DEF History
    <2> QED BY <1>1, <2>1, HistoryKept
<1>3. ASSUME NEW sid \in DOMAIN queue' PROVE StreamOf(owner[sid], sid)'
    <2>1. sid \in DOMAIN queue /\ owner'[sid] = owner[sid] /\ queue'[sid] = queue[sid]
        BY <1>3
    <2>2. PICK s : s = owner[sid]
        OBVIOUS
    <2>3. StreamOf(s, sid)
        BY <1>1, <2>1, <2>2 DEF Streams, StreamOf
    <2>4. StreamOf(s, sid)'
        BY <2>1, <2>3, StreamKept
    <2>5. owner'[sid] = s
        BY ONLY <2>1, <2>2
    <2> QED BY ONLY <2>4, <2>5 DEF StreamOf
<1>4. Streams'
    BY ONLY <1>3, StreamsThen
<1> QED BY ONLY <1>2, <1>4, PoolInvariant' DEF FeedInvariant

\* Every account gets the new message.
LEMMA BroadcastFeeds ==
    ASSUME FeedInvariant, Broadcast
    PROVE  FeedInvariant'
<1>1. PoolInvariant /\ Pools /\ Buffers /\ History
    BY DEF FeedInvariant, PoolInvariant
<1>2. PoolInvariant'
    BY <1>1, BroadcastKeeps
<1>3. PICK last : last = Len(published)
    OBVIOUS
<1>4. /\ last \in Nat /\ published' = Append(published, last + 1) /\ published \in Seq(Nat)
      /\ DOMAIN queue' = DOMAIN queue
    BY <1>1, <1>3, BroadcastQueues DEF Buffers
<1>5. UNCHANGED <<owner, stage, raw, pipe, joined, received>>
    BY DEF Broadcast, subscriberVars
<1>6. /\ Len(published') = last + 1 /\ published'[last + 1] = last + 1
      /\ \A i \in 1 .. last : published'[i] = published[i]
    <2>1. last + 1 \in Nat
        BY ONLY <1>4
    <2> QED BY ONLY <1>3, <1>4, <2>1, AppendProperties
<1>7. \A i \in 1 .. Len(published') : published'[i] = i
    <2>1. \A i \in 1 .. last : published[i] = i
        BY <1>1, <1>3 DEF History
    <2>2. ASSUME NEW i \in 1 .. last + 1 PROVE published'[i] = i
        <3>1. i \in 1 .. last \/ i = last + 1
            BY ONLY <1>4, <2>2
        <3> QED BY ONLY <1>6, <2>1, <3>1
    <2> QED BY ONLY <1>6, <2>2
<1>8. ASSUME NEW s \in DOMAIN joined PROVE joined'[s] + Len(received'[s]) <= Len(published')
    <2>1. s \in Subscribers /\ joined[s] \in Nat /\ received[s] \in Seq(Nat)
          /\ joined[s] + Len(received[s]) <= last
        BY <1>1, <1>3 DEF History
    <2>2. PICK j \in Nat, r \in Nat : j = joined[s] /\ r = Len(received[s])
        BY ONLY <2>1, LenProperties
    <2>3. j + r <= last + 1
        BY ONLY <1>4, <2>1, <2>2
    <2> QED BY ONLY <1>5, <1>6, <2>2, <2>3
<1>9. History'
    BY <1>1, <1>4, <1>5, <1>7, <1>8 DEF History
<1>10. Streams'
    <2>1. \A sid \in DOMAIN queue' : StreamOf(owner[sid], sid)'
        <3>1. ASSUME NEW sid \in DOMAIN queue PROVE StreamOf(owner[sid], sid)'
            BY StreamLonger
        <3> QED BY ONLY <1>4, <3>1
    <2> QED BY ONLY <2>1, StreamsThen
<1> QED BY ONLY <1>2, <1>9, <1>10 DEF FeedInvariant

\* What the publisher does between two sends.
LEMMA StartStepFeeds ==
    ASSUME FeedInvariant, StartStep
    PROVE  FeedInvariant'
<1>1. PoolInvariant'
    BY StartStepKeeps DEF FeedInvariant
<1>2. UNCHANGED <<stage, raw, pipe, published, joined, received, owner, queue>>
    BY DEF StartStep, subscriberVars, writerVars
<1> QED BY <1>1, <1>2, FeedKept

\* What the poller reports.
LEMMA DrainedFeeds ==
    ASSUME FeedInvariant, NEW sid \in Sockets, Drained(sid)
    PROVE  FeedInvariant'
<1>1. PoolInvariant'
    BY DrainedKeeps DEF FeedInvariant
<1>2. UNCHANGED <<stage, raw, pipe, published, joined, received, owner, queue>>
    BY DEF Drained, subscriberVars
<1> QED BY <1>1, <1>2, FeedKept

\* The accounts that stay are the same.
LEMMA PollFeeds ==
    ASSUME FeedInvariant, Poll
    PROVE  FeedInvariant'
<1>1. PoolInvariant /\ Pools /\ PoolInvariant'
    BY PollKeeps DEF FeedInvariant, PoolInvariant
<1>2. PICK gone : Ends(gone)
    BY <1>1, PollEnds
<1>3. UNCHANGED <<stage, raw, pipe, published, joined, received>>
    BY ONLY <1>2 DEF Ends
<1>4. DOMAIN queue \subseteq Sockets
    BY <1>1 DEF Pools, Fits
<1>5. ASSUME NEW sid \in DOMAIN queue'
      PROVE  sid \in DOMAIN queue /\ owner'[sid] = owner[sid] /\ queue'[sid] = queue[sid]
    <2>1. sid \in DOMAIN queue \ gone /\ queue'[sid] = queue[sid] /\ sid \in Sockets
        BY ONLY <1>2, <1>4, <1>5 DEF Ends
    <2>2. owner'[sid] = owner[sid]
        BY ONLY <1>2, <2>1 DEF Ends
    <2> QED BY ONLY <2>1, <2>2
<1> QED BY <1>1, <1>3, <1>5, FeedKept

\* A subscriber that was not accepted yet has nothing.
LEMMA ConnectFeeds ==
    ASSUME FeedInvariant, NEW s \in Subscribers, Connect(s)
    PROVE  FeedInvariant'
<1>1. PoolInvariant /\ Owners /\ History /\ Streams
    BY DEF FeedInvariant, PoolInvariant
<1>2. PoolInvariant'
    BY <1>1, ConnectKeeps
<1>3. /\ stage[s] = "new" /\ stage' = [stage EXCEPT ![s] = "connecting"]
      /\ UNCHANGED <<queue, owner, pipe, raw, published, joined, received>>
    BY DEF Connect, writerVars
<1>4. s \notin DOMAIN joined
    BY <1>1, <1>3 DEF History
<1>5. \A t \in DOMAIN joined : t \in Subscribers /\ stage'[t] = stage[t]
    BY <1>1, <1>3, <1>4 DEF History, Owners
<1>6. History'
    <2>1. /\ \A t \in DOMAIN joined : stage'[t] \in {"accepted", "closed"}
          /\ \A t \in Subscribers \ DOMAIN joined : Len(raw'[t]) = 0 /\ Len(pipe'[t]) = 0
        BY <1>1, <1>3, <1>5 DEF History
    <2> QED BY <1>1, <1>3, <2>1, HistoryKept
<1>7. ASSUME NEW sid \in DOMAIN queue' PROVE StreamOf(owner[sid], sid)'
    <2>1. PICK t : t = owner[sid] /\ owner'[sid] = t /\ sid \in DOMAIN queue
        BY <1>3, <1>7
    <2>2. t \in DOMAIN joined /\ StreamOf(t, sid)
        BY <1>1, <2>1 DEF History, Streams, StreamOf
    <2>3. StreamOf(t, sid)'
        BY <1>3, <1>5, <2>2, StreamKept
    <2> QED BY ONLY <2>1, <2>3 DEF StreamOf
<1>8. Streams'
    BY ONLY <1>7, StreamsThen
<1> QED BY ONLY <1>2, <1>6, <1>8 DEF FeedInvariant

\* A connection that ends loses what is on its way, and what its account has stays.
LEMMA CloseFeeds ==
    ASSUME FeedInvariant, NEW s \in Subscribers, Close(s)
    PROVE  FeedInvariant'
<1>1. PoolInvariant /\ Owners /\ Buffers /\ History /\ Streams
    BY DEF FeedInvariant, PoolInvariant
<1>2. PoolInvariant'
    BY <1>1, CloseKeeps
<1>3. /\ stage' = [stage EXCEPT ![s] = "closed"] /\ pipe' = [pipe EXCEPT ![s] = <<>>]
      /\ UNCHANGED <<queue, owner, raw, published, joined, received>>
    BY DEF Close, writerVars
<1>4. PICK none : none = <<>> /\ Len(none) = 0
    <2>1. Len(<<>>) = 0
        OBVIOUS
    <2> QED BY ONLY <2>1
<1>5. /\ \A t \in Subscribers : stage'[t] = IF t = s THEN "closed" ELSE stage[t]
      /\ \A t \in Subscribers : pipe'[t] = IF t = s THEN none ELSE pipe[t]
    <2>1. stage \in [Subscribers -> Stages] /\ pipe \in [Subscribers -> Seq(Part)]
        BY <1>1 DEF Owners, Buffers
    <2>2. pipe' = [pipe EXCEPT ![s] = none]
        BY ONLY <1>3, <1>4
    <2> QED BY ONLY <1>3, <2>1, <2>2, s \in Subscribers
<1>6. History'
    <2>1. DOMAIN joined \subseteq Subscribers
        BY <1>1 DEF History
    <2>2. \A t \in DOMAIN joined : stage'[t] \in {"accepted", "closed"}
        BY <1>1, <1>5, <2>1 DEF History
    <2>3. \A t \in Subscribers \ DOMAIN joined : Len(raw'[t]) = 0 /\ Len(pipe'[t]) = 0
        BY <1>1, <1>3, <1>4, <1>5 DEF History
    <2> QED BY <1>1, <1>3, <2>2, <2>3, HistoryKept
<1>7. ASSUME NEW sid \in DOMAIN queue' PROVE StreamOf(owner[sid], sid)'
    <2>1. PICK t : t = owner[sid] /\ owner'[sid] = t /\ sid \in DOMAIN queue
        BY <1>3, <1>7
    <2>2. t \in Subscribers /\ StreamOf(t, sid)
        BY <1>1, <2>1 DEF History, Streams, StreamOf
    <2>3. StreamOf(t, sid)'
        <3>1. CASE t = s
            <4>1. stage'[t] # "accepted"
                BY ONLY <1>5, <2>2, <3>1
            <4>2. Sent(t)' = Sent(t)
                BY ONLY <1>3 DEF Sent
            <4>3. Queued(t, sid)'
                <5>1. Queued(t, sid)
                    BY ONLY <2>2 DEF StreamOf
                <5> QED BY ONLY <1>3, <4>2, <5>1 DEF Queued, Goes
            <4> QED BY ONLY <4>1, <4>3 DEF StreamOf
        <3>2. CASE t # s
            <4>1. stage'[t] = stage[t] /\ pipe'[t] = pipe[t]
                BY ONLY <1>5, <2>2, <3>2
            <4> QED BY <1>3, <2>2, <4>1, StreamKept
        <3> QED BY ONLY <3>1, <3>2
    <2> QED BY ONLY <2>1, <2>3 DEF StreamOf
<1>8. Streams'
    BY ONLY <1>7, StreamsThen
<1> QED BY ONLY <1>2, <1>6, <1>8 DEF FeedInvariant

\* A new connection: what is broadcast from now on, it is sent.
LEMMA AcceptedFeeds ==
    ASSUME FeedInvariant, NEW s \in Subscribers, NEW sid \in Sockets, OnAccepted(s, sid)
    PROVE  FeedInvariant'
<1>1. PoolInvariant /\ Pools /\ Owners /\ Buffers /\ History /\ Streams
    BY DEF FeedInvariant, PoolInvariant
<1>2. PoolInvariant' /\ Enters(s, sid)
    BY <1>1, AcceptedKeeps, AcceptedEnters
<1>3. /\ stage[s] = "connecting" /\ sid \notin DOMAIN queue
      /\ DOMAIN queue' = DOMAIN queue \cup {sid}
      /\ queue' = [k \in DOMAIN queue \cup {sid} |-> IF k = sid THEN <<>> ELSE queue[k]]
      /\ owner' = [owner EXCEPT ![sid] = s] /\ stage' = [stage EXCEPT ![s] = "accepted"]
      /\ joined' = [k \in DOMAIN joined \cup {s} |-> IF k = s THEN Len(published) ELSE joined[k]]
      /\ UNCHANGED <<pipe, raw, published, received>>
    BY ONLY <1>2 DEF Enters
<1>4. s \notin DOMAIN joined /\ Len(raw[s]) = 0 /\ Len(pipe[s]) = 0 /\ Len(received[s]) = 0
    <2>1. s \notin DOMAIN joined
        BY <1>1, <1>3 DEF History
    <2> QED BY <1>1, <2>1 DEF History
<1>5. PICK last \in Nat : last = Len(published)
    <2>1. Len(published) \in Nat
        BY <1>1, LenProperties DEF Buffers
    <2> QED BY ONLY <2>1
<1>6. /\ DOMAIN joined' = DOMAIN joined \cup {s} /\ joined'[s] = last
      /\ \A t \in DOMAIN joined : t # s /\ joined'[t] = joined[t]
    BY ONLY <1>3, <1>4, <1>5
<1>7. /\ stage'[s] = "accepted" /\ owner'[sid] = s
      /\ \A t \in Subscribers : t # s => stage'[t] = stage[t]
      /\ \A k \in DOMAIN queue : k # sid /\ owner'[k] = owner[k] /\ queue'[k] = queue[k]
    <2>1. /\ stage \in [Subscribers -> Stages] /\ owner \in [Sockets -> Subscribers \cup {NoOne}]
          /\ DOMAIN queue \subseteq Sockets
        BY <1>1 DEF Owners, Pools, Fits
    <2>2. \A k \in DOMAIN queue : k # sid /\ queue'[k] = queue[k]
        BY ONLY <1>3
    <2> QED BY ONLY <1>3, <2>1, <2>2, s \in Subscribers, sid \in Sockets
<1>8. PICK none : none = <<>> /\ Len(none) = 0
    <2>1. Len(<<>>) = 0
        OBVIOUS
    <2> QED BY ONLY <2>1
<1>9. queue'[sid] = none
    BY ONLY <1>3, <1>8
<1>10. History'
    <2>1. DOMAIN joined' \subseteq Subscribers /\ joined' \in [DOMAIN joined' -> Nat]
        <3>1. DOMAIN joined \subseteq Subscribers /\ \A t \in DOMAIN joined : joined[t] \in Nat
            BY <1>1 DEF History
        <3>2. \A t \in DOMAIN joined' : joined'[t] \in Nat
            BY ONLY <1>5, <1>6, <3>1
        <3>3. joined' = [t \in DOMAIN joined' |-> joined'[t]]
            BY ONLY <1>3
        <3> QED BY ONLY <1>6, <3>1, <3>2, <3>3, s \in Subscribers
    <2>2. \A k \in DOMAIN queue' : owner'[k] \in DOMAIN joined'
        <3>1. \A k \in DOMAIN queue : owner[k] \in DOMAIN joined
            BY <1>1 DEF History
        <3> QED BY ONLY <1>3, <1>6, <1>7, <3>1
    <2>3. ASSUME NEW t \in DOMAIN joined'
          PROVE  /\ stage'[t] \in {"accepted", "closed"}
                 /\ joined'[t] + Len(received'[t]) <= Len(published')
                 /\ \A i \in 1 .. Len(received'[t]) : received'[t][i] = joined'[t] + i
        <3>1. CASE t = s
            <4>1. Len(received'[t]) = 0 /\ joined'[t] = last /\ Len(published') = last
                BY ONLY <1>3, <1>4, <1>5, <1>6, <3>1
            <4>2. joined'[t] + Len(received'[t]) <= Len(published')
                BY ONLY <1>5, <4>1
            <4> QED BY ONLY <1>7, <3>1, <4>1, <4>2
        <3>2. CASE t # s
            <4>1. t \in DOMAIN joined /\ joined'[t] = joined[t] /\ t \in Subscribers
                BY ONLY <1>6, <2>1, <2>3, <3>2
            <4>2. stage'[t] = stage[t]
                BY ONLY <1>7, <3>2, <4>1
            <4> QED BY <1>1, <1>3, <4>1, <4>2 DEF History
        <3> QED BY ONLY <3>1, <3>2
    <2>4. \A t \in Subscribers \ DOMAIN joined' :
              Len(raw'[t]) = 0 /\ Len(pipe'[t]) = 0 /\ Len(received'[t]) = 0
        BY <1>1, <1>3, <1>6 DEF History
    <2>5. (\A i \in 1 .. Len(published') : published'[i] = i) /\ received' \in [Subscribers -> Seq(Nat)]
        BY <1>1, <1>3 DEF History
    <2> QED BY ONLY <2>1, <2>2, <2>3, <2>4, <2>5 DEF History
<1>11. ASSUME NEW k \in DOMAIN queue' PROVE StreamOf(owner[k], k)'
    <2>1. CASE k = sid
        <3>1. Sent(s)' = 0
            <4>1. Sent(s)' = 2 * (last - last)
                BY ONLY <1>3, <1>5, <1>6 DEF Sent
            <4>2. last - last = 0 /\ 2 * 0 = 0
                BY ONLY last \in Nat
            <4> QED BY ONLY <4>1, <4>2
        <3>2. Queued(s, sid)'
            <4>1. Len(queue'[sid]) = 0
                BY ONLY <1>8, <1>9
            <4> QED BY ONLY <4>1 DEF Queued, Goes
        <3>3. Flows(s, sid)'
            <4>1. /\ Len(raw'[s]) = 0 /\ Len(pipe'[s]) = 0 /\ Len(received'[s]) = 0
                  /\ Len(queue'[sid]) = 0
                BY ONLY <1>3, <1>4, <1>8, <1>9
            <4>2. 2 * Len(received'[s]) + Len(raw'[s]) + Len(pipe'[s]) + Len(queue'[sid]) = 0
                BY ONLY <4>1
            <4> QED BY ONLY <3>1, <4>1, <4>2 DEF Flows, Goes
        <3>4. StreamOf(s, sid)'
            BY ONLY <3>2, <3>3 DEF StreamOf
        <3> QED BY ONLY <1>7, <2>1, <3>4 DEF StreamOf
    <2>2. CASE k # sid
        <3>1. k \in DOMAIN queue /\ owner'[k] = owner[k] /\ queue'[k] = queue[k]
            BY ONLY <1>3, <1>7, <1>11, <2>2
        <3>2. PICK t : t = owner[k]
            OBVIOUS
        <3>3. t \in DOMAIN joined /\ t \in Subscribers /\ StreamOf(t, k)
            BY <1>1, <3>1, <3>2 DEF History, Streams, StreamOf
        <3>4. stage'[t] = stage[t] /\ joined'[t] = joined[t]
            BY ONLY <1>6, <1>7, <3>3
        <3>5. StreamOf(t, k)'
            BY <1>3, <3>1, <3>3, <3>4, StreamKept
        <3>6. owner'[k] = t
            BY ONLY <3>1, <3>2
        <3> QED BY ONLY <3>5, <3>6 DEF StreamOf
    <2> QED BY ONLY <2>1, <2>2
<1>12. Streams'
    BY ONLY <1>11, StreamsThen
<1> QED BY ONLY <1>2, <1>10, <1>12 DEF FeedInvariant

\* What an account sends, it has no longer; other accounts and subscribers are
\* left alone.
LEMMA SentOn ==
    ASSUME FeedInvariant, PoolInvariant', NEW sid \in DOMAIN queue, NEW n \in Nat,
           n <= Len(queue[sid]), NEW s \in Subscribers, s = owner[sid],
           queue' = [queue EXCEPT ![sid] = Shifted(queue[sid], n)],
           stage[s] = "accepted" => pipe'[s] = pipe[s] \o SubSeq(queue[sid], 1, n),
           \A t \in Subscribers : t # s => pipe'[t] = pipe[t],
           UNCHANGED <<owner, stage, raw, published, joined, received>>
    PROVE  FeedInvariant'
<1>1. Pools /\ Owners /\ History /\ Streams
    BY DEF FeedInvariant, PoolInvariant
<1>2. /\ DOMAIN queue' = DOMAIN queue /\ queue'[sid] = Shifted(queue[sid], n)
      /\ \A k \in DOMAIN queue : k # sid => queue'[k] = queue[k]
    <2>1. queue = [k \in DOMAIN queue |-> queue[k]]
        BY <1>1 DEF Pools
    <2> QED BY ONLY <2>1, sid \in DOMAIN queue, queue' = [queue EXCEPT ![sid] = Shifted(queue[sid], n)]
<1>3. History'
    <2>1. s \in DOMAIN joined
        BY <1>1 DEF History
    <2>2. /\ \A t \in DOMAIN joined : stage'[t] \in {"accepted", "closed"}
          /\ \A t \in Subscribers \ DOMAIN joined : Len(raw'[t]) = 0 /\ Len(pipe'[t]) = 0
        BY <1>1, <2>1 DEF History
    <2> QED BY <1>1, <1>2, <2>2, HistoryKept
<1>4. ASSUME NEW k \in DOMAIN queue' PROVE StreamOf(owner[k], k)'
    <2>1. CASE k = sid
        <3>1. StreamOf(s, sid)'
            BY <1>2, StreamSent
        <3>2. owner'[k] = s
            BY <2>1
        <3> QED BY ONLY <2>1, <3>1, <3>2 DEF StreamOf
    <2>2. CASE k # sid
        <3>1. PICK t : t = owner[k] /\ owner'[k] = t /\ k \in DOMAIN queue
            BY <1>2, <1>4
        <3>2. t \in Subscribers /\ StreamOf(t, k)
            BY <1>1, <3>1 DEF History, Streams, StreamOf
        <3>3. t # s
            BY <1>1, <2>2, <3>1 DEF Owners
        <3>4. queue'[k] = queue[k] /\ pipe'[t] = pipe[t]
            BY <1>2, <2>2, <3>1, <3>2, <3>3
        <3>5. StreamOf(t, k)'
            BY <3>2, <3>4, StreamKept
        <3> QED BY ONLY <3>1, <3>5 DEF StreamOf
    <2> QED BY ONLY <2>1, <2>2
<1>5. Streams'
    BY ONLY <1>4, StreamsThen
<1> QED BY ONLY <1>3, <1>5, PoolInvariant' DEF FeedInvariant

\* A send: what leaves the account of a lasting connection is on its way.
LEMMA SendFeeds ==
    ASSUME FeedInvariant, NEW sid \in Sockets, DoSend(sid)
    PROVE  FeedInvariant'
<1>1. Pools /\ Owners /\ Buffers
    BY DEF FeedInvariant, PoolInvariant
<1>2. PoolInvariant'
    BY SendKeeps
<1>3. /\ sid \in todo /\ UNCHANGED <<owner, stage, raw, published, joined, received>>
      /\ \/ SendsNothing(sid) \/ SendFails(sid) \/ SendLost(sid) \/ SendBlocked(sid)
         \/ SendGoes(sid)
    BY SendCases
<1>4. sid \in DOMAIN queue
    BY <1>1, <1>3 DEF Pools
<1>5. PICK s \in Subscribers : s = owner[sid]
    BY <1>1, <1>4, OwnerIsSubscriber
<1>6. CASE SendsNothing(sid) \/ SendFails(sid) \/ SendBlocked(sid)
    <2>1. UNCHANGED <<queue, pipe>>
        BY ONLY <1>6 DEF SendsNothing, SendFails, SendBlocked
    <2> QED BY <1>2, <1>3, <2>1, FeedKept
<1>7. CASE SendLost(sid)
    <2>1. queue[sid] # <<>> /\ stage[s] = "closed" /\ UNCHANGED pipe
        BY ONLY <1>5, <1>7 DEF SendLost
    <2>2. PICK n \in Sendable(queue[sid], Capacity) :
              queue' = [queue EXCEPT ![sid] = Shifted(queue[sid], n)]
        BY ONLY <1>7 DEF SendLost
    <2>3. Capacity \in Int
        BY PubSubAssumption DEF PubSubAssumption
    <2>4. n \in Nat
        BY <1>1, <1>4, <2>1, <2>3, SendTakes
    <2>5. n <= Len(queue[sid])
        BY <1>4, <2>1, <2>3, WholeSends
    <2>6. stage[s] # "accepted"
        BY ONLY <2>1
    <2> QED BY <1>2, <1>3, <1>4, <1>5, <2>1, <2>2, <2>4, <2>5, <2>6, SentOn
<1>8. CASE SendGoes(sid)
    <2>1. queue[sid] # <<>>
        BY ONLY <1>8 DEF SendGoes
    <2>2. PICK n \in Sendable(queue[sid], Capacity - Len(pipe[s])) :
              /\ pipe' = [pipe EXCEPT ![s] = pipe[s] \o SubSeq(queue[sid], 1, n)]
              /\ queue' = [queue EXCEPT ![sid] = Shifted(queue[sid], n)]
        BY ONLY <1>5, <1>8 DEF SendGoes
    <2>3. Capacity - Len(pipe[s]) \in Int
        <3>1. Len(pipe[s]) \in Nat /\ Capacity \in Nat
            BY <1>1, LenProperties, PubSubAssumption DEF Buffers, PubSubAssumption
        <3> QED BY ONLY <3>1
    <2>4. n \in Nat
        BY <1>1, <1>4, <2>1, <2>3, SendTakes
    <2>5. n <= Len(queue[sid])
        BY <1>4, <2>1, <2>3, WholeSends
    <2>6. /\ pipe'[s] = pipe[s] \o SubSeq(queue[sid], 1, n)
          /\ \A t \in Subscribers : t # s => pipe'[t] = pipe[t]
        <3>1. pipe \in [Subscribers -> Seq(Part)]
            BY <1>1 DEF Buffers
        <3> QED BY ONLY <2>2, <3>1, s \in Subscribers
    <2> QED BY <1>2, <1>3, <1>4, <1>5, <2>2, <2>4, <2>5, <2>6, SentOn
<1> QED BY <1>3, <1>6, <1>7, <1>8

\* What a subscriber received after a chunk, message by message.
LEMMA NowReceived ==
    ASSUME History, NEW s \in DOMAIN joined, NEW k, NEW messages, Grows(s, k, messages)
    PROVE  /\ k \in Nat /\ received' \in [Subscribers -> Seq(Nat)]
           /\ received' = [received EXCEPT ![s] = received'[s]]
           /\ \A t \in Subscribers : t # s => received'[t] = received[t]
           /\ Len(received[s]) \in Nat /\ Len(received'[s]) = Len(received[s]) + k
           /\ \A i \in 1 .. Len(received'[s]) : received'[s][i] = joined[s] + i
<1>1. /\ s \in Subscribers /\ joined[s] \in Nat /\ received \in [Subscribers -> Seq(Nat)]
      /\ \A i \in 1 .. Len(received[s]) : received[s][i] = joined[s] + i
    BY DEF History
<1>2. PICK old : old = received[s] /\ old \in Seq(Nat)
    BY ONLY <1>1
<1>3. PICK r \in Nat, j \in Nat : r = Len(old) /\ j = joined[s]
    BY ONLY <1>1, <1>2, LenProperties
<1>4. /\ k \in Nat /\ messages \in Seq(Nat) /\ Len(messages) = k
      /\ received' = [received EXCEPT ![s] = received[s] \o messages]
    BY ONLY Grows(s, k, messages) DEF Grows
<1>5. \A i \in 1 .. k : messages[i] = j + r + i
    BY ONLY <1>2, <1>3, Grows(s, k, messages) DEF Grows
<1>6. PICK now : now = old \o messages
    OBVIOUS
<1>7. now \in Seq(Nat)
    BY ONLY <1>2, <1>4, <1>6, ConcatProperties
<1>8. Len(now) = r + k
    <2>1. Len(old \o messages) = Len(old) + Len(messages)
        BY ONLY <1>2, <1>4, ConcatProperties
    <2> QED BY ONLY <1>3, <1>4, <1>6, <2>1
<1>9. \A i \in 1 .. r + k : now[i] = IF i <= r THEN old[i] ELSE messages[i - r]
    <2>1. \A i \in 1 .. Len(old) + Len(messages) :
              (old \o messages)[i] = IF i <= Len(old) THEN old[i] ELSE messages[i - Len(old)]
        BY ONLY <1>2, <1>4, ConcatProperties
    <2> QED BY ONLY <1>3, <1>4, <1>6, <2>1
<1>10. ASSUME NEW i \in 1 .. r + k PROVE now[i] = j + i
    <2>1. CASE i <= r
        <3>1. i \in 1 .. r
            BY ONLY <1>3, <1>4, <1>10, <2>1
        <3>2. old[i] = j + i
            BY ONLY <1>1, <1>2, <1>3, <3>1
        <3> QED BY ONLY <1>9, <1>10, <2>1, <3>2
    <2>2. CASE ~(i <= r)
        <3>1. i - r \in 1 .. k /\ j + r + (i - r) = j + i
            <4>1. PICK size \in Nat : size = k
                BY ONLY <1>4
            <4>2. i \in 1 .. r + size
                BY ONLY <1>10, <4>1
            <4>3. i - r \in 1 .. size /\ j + r + (i - r) = j + i
                BY ONLY <2>2, <4>2, r \in Nat, j \in Nat
            <4> QED BY ONLY <4>1, <4>3
        <3>2. messages[i - r] = j + i
            BY ONLY <1>5, <3>1
        <3> QED BY ONLY <1>9, <1>10, <2>2, <3>2
    <2> QED BY ONLY <2>1, <2>2
<1>11. /\ received' = [received EXCEPT ![s] = now] /\ received'[s] = now
       /\ received' \in [Subscribers -> Seq(Nat)]
       /\ \A t \in Subscribers : t # s => received'[t] = received[t]
    <2>1. received' = [received EXCEPT ![s] = now]
        BY ONLY <1>2, <1>4, <1>6
    <2> QED BY ONLY <1>1, <1>7, <2>1
<1> QED BY ONLY <1>2, <1>3, <1>4, <1>8, <1>10, <1>11

\* An accepted subscriber has an account.
LEMMA HasAccount ==
    ASSUME FeedInvariant, NEW s \in Subscribers, stage[s] = "accepted"
    PROVE  \E sid \in DOMAIN queue : owner[sid] = s /\ s \in DOMAIN joined
<1>1. Owners /\ History
    BY DEF FeedInvariant, PoolInvariant
<1>2. PICK sid \in DOMAIN queue : owner[sid] = s
    BY <1>1 DEF Owners
<1>3. owner[sid] \in DOMAIN joined
    BY <1>1 DEF History
<1> QED BY ONLY <1>2, <1>3

\* A subscriber reads.
LEMMA ReadFeeds ==
    ASSUME FeedInvariant, NEW s \in Subscribers, OnDataReady(s)
    PROVE  FeedInvariant'
<1>1. PoolInvariant /\ Pools /\ Owners /\ Buffers /\ History /\ Streams
    BY DEF FeedInvariant, PoolInvariant
<1>2. PoolInvariant'
    BY <1>1, ReadKeeps
<1>3. stage[s] = "accepted" /\ \E n, parts : Reads(s, n, parts)
    BY <1>1, ReadsChunk
<1>4. PICK n, parts : Reads(s, n, parts)
    BY <1>3
<1>5. PICK sid \in DOMAIN queue : owner[sid] = s /\ s \in DOMAIN joined
    BY <1>3, HasAccount
<1>6. StreamOf(s, sid)'
    BY <1>3, <1>4, <1>5, StreamRead
<1>7. PICK k, messages : Grows(s, k, messages)
    BY <1>3, <1>4, <1>5, StreamRead
<1>8. UNCHANGED <<queue, owner, stage, published, joined>>
    BY ONLY <1>4 DEF Reads
<1>9. \A t \in Subscribers : t # s => pipe'[t] = pipe[t] /\ raw'[t] = raw[t]
    <2>1. pipe \in [Subscribers -> Seq(Part)] /\ raw \in [Subscribers -> Seq(Part)]
        BY <1>1 DEF Buffers
    <2> QED BY ONLY <1>4, <2>1 DEF Reads
<1>10. /\ received' \in [Subscribers -> Seq(Nat)]
       /\ \A t \in Subscribers : t # s => received'[t] = received[t]
       /\ \A i \in 1 .. Len(received'[s]) : received'[s][i] = joined[s] + i
    BY ONLY <1>1, <1>5, <1>7, NowReceived
<1>11. joined[s] + Len(received'[s]) <= Len(published)
    <2>1. Flows(s, sid)'
        <3>1. stage'[s] = "accepted"
            BY ONLY <1>3, <1>8
        <3> QED BY ONLY <1>6, <3>1 DEF StreamOf
    <2>2. /\ joined'[s] \in Nat /\ Len(published') \in Nat /\ Len(received'[s]) \in Nat
          /\ Len(raw'[s]) \in Nat /\ Len(pipe'[s]) \in Nat /\ Len(queue'[sid]) \in Nat
        <3>1. joined'[s] \in Nat /\ published' \in Seq(Nat) /\ queue'[sid] \in Seq(Part)
            BY <1>1, <1>5, <1>8 DEF History, Buffers, Pools
        <3>2. raw'[s] \in Seq(Part) /\ pipe'[s] \in Seq(Part) /\ received'[s] \in Seq(Nat)
            BY <1>2, <1>10 DEF PoolInvariant, Buffers
        <3> QED BY ONLY <3>1, <3>2, LenProperties
    <2>3. 2 * Len(received'[s]) + Len(raw'[s]) + Len(pipe'[s]) + Len(queue'[sid])
              = 2 * (Len(published') - joined'[s])
        BY ONLY <2>1 DEF Flows, Sent
    <2>4. \A j, p, r, a, b, c \in Nat : 2 * r + a + b + c = 2 * (p - j) => j + r <= p
        OBVIOUS
    <2>5. joined'[s] + Len(received'[s]) <= Len(published')
        BY ONLY <2>2, <2>3, <2>4
    <2> QED BY ONLY <1>8, <2>5
<1>12. History'
    <2>1. ASSUME NEW t \in DOMAIN joined
          PROVE  /\ joined[t] + Len(received'[t]) <= Len(published)
                 /\ \A i \in 1 .. Len(received'[t]) : received'[t][i] = joined[t] + i
        <3>1. CASE t = s
            BY ONLY <1>10, <1>11, <3>1
        <3>2. CASE t # s
            BY <1>1, <1>10, <2>1, <3>2 DEF History
        <3> QED BY ONLY <3>1, <3>2
    <2>2. ASSUME NEW t \in Subscribers \ DOMAIN joined
          PROVE  Len(raw'[t]) = 0 /\ Len(pipe'[t]) = 0 /\ Len(received'[t]) = 0
        <3>1. t # s
            BY ONLY <1>5, <2>2
        <3> QED BY <1>1, <1>9, <1>10, <2>2, <3>1 DEF History
    <2> QED BY <1>1, <1>8, <1>10, <2>1, <2>2 DEF History
<1>13. ASSUME NEW l \in DOMAIN queue' PROVE StreamOf(owner[l], l)'
    <2>1. CASE l = sid
        <3>1. owner'[l] = s
            BY ONLY <1>5, <1>8, <2>1
        <3> QED BY ONLY <1>6, <2>1, <3>1 DEF StreamOf
    <2>2. CASE l # sid
        <3>1. PICK t : t = owner[l] /\ owner'[l] = t /\ l \in DOMAIN queue
            BY ONLY <1>8, <1>13
        <3>2. t \in Subscribers /\ StreamOf(t, l)
            BY <1>1, <3>1 DEF History, Streams, StreamOf
        <3>3. t # s
            BY <1>1, <1>5, <2>2, <3>1 DEF Owners
        <3>4. pipe'[t] = pipe[t] /\ raw'[t] = raw[t] /\ received'[t] = received[t]
            BY ONLY <1>9, <1>10, <3>2, <3>3
        <3>5. StreamOf(t, l)'
            BY ONLY <1>8, <3>2, <3>4, StreamKept
        <3> QED BY ONLY <3>1, <3>5 DEF StreamOf
    <2> QED BY ONLY <2>1, <2>2
<1>14. Streams'
    BY ONLY <1>13, StreamsThen
<1> QED BY ONLY <1>2, <1>12, <1>14 DEF FeedInvariant

-----------------------------------------------------------------------------
(***************************************************************************)
(* The invariants and the refinement.                                      *)
(***************************************************************************)

\* At first there are no sockets and no messages.
LEMMA InitFeeds == Init => FeedInvariant
<1> SUFFICES ASSUME Init PROVE FeedInvariant
    OBVIOUS
<1>1. PICK none :
          /\ none = <<>> /\ none \in Seq(Part) /\ none \in Seq(Nat) /\ DOMAIN none = {}
          /\ Len(none) = 0 /\ none = [x \in {} |-> none[x]]
    <2>1. <<>> \in Seq(Part) /\ <<>> \in Seq(Nat) /\ DOMAIN <<>> = {} /\ Len(<<>>) = 0
        OBVIOUS
    <2>2. <<>> = [x \in {} |-> <<>>[x]]
        OBVIOUS
    <2> QED BY ONLY <2>1, <2>2
<1>2. /\ pool = EmptyPool /\ owner = [sid \in Sockets |-> NoOne]
      /\ queue = none /\ writable = none /\ removable = {} /\ watched = {} /\ dropping = {}
      /\ todo = {} /\ phase = "idle" /\ stage = [s \in Subscribers |-> "new"]
      /\ pipe = [s \in Subscribers |-> none] /\ raw = [s \in Subscribers |-> none]
      /\ published = none /\ joined = none /\ received = [s \in Subscribers |-> none]
    BY <1>1 DEF Init
<1>3. Pools
    <2>1. Fits(pool) /\ DOMAIN pool.mapping = {} /\ pool.removable = {}
        <3>1. pool.mapping = none /\ pool.removable = {}
            BY <1>1, <1>2 DEF EmptyPool
        <3> QED BY <1>1, <1>2, <3>1, EmptyFits
    <2>2. /\ queue \in [DOMAIN queue -> Seq(Part)]
          /\ writable \in [DOMAIN queue -> {"no", "soon", "yes"}]
        BY ONLY <1>1, <1>2
    <2> QED BY ONLY <1>1, <1>2, <2>1, <2>2 DEF Pools
<1>4. Steps
    BY ONLY <1>2 DEF Steps
<1>5. Owners
    <2>1. DOMAIN queue = {}
        BY ONLY <1>1, <1>2
    <2> QED BY ONLY <1>2, <2>1 DEF Owners, Stages
<1>6. Buffers
    <2>1. 0 <= Capacity
        BY PubSubAssumption DEF PubSubAssumption
    <2>2. Len(none) <= Capacity /\ Len(none) <= 1
        BY ONLY <1>1, <2>1
    <2> QED BY ONLY <1>1, <1>2, <2>2 DEF Buffers
<1>7. History
    <2>1. DOMAIN joined = {} /\ joined \in [DOMAIN joined -> Nat] /\ DOMAIN queue = {}
        BY ONLY <1>1, <1>2
    <2>2. \A i \in 1 .. Len(published) : published[i] = i
        BY ONLY <1>1, <1>2
    <2> QED BY ONLY <1>1, <1>2, <2>1, <2>2 DEF History
<1>8. Streams
    <2>1. DOMAIN queue = {}
        BY ONLY <1>1, <1>2
    <2> QED BY ONLY <2>1 DEF Streams
<1> QED BY ONLY <1>3, <1>4, <1>5, <1>6, <1>7, <1>8 DEF FeedInvariant, PoolInvariant

\* A step that changes nothing.
LEMMA StutterFeeds ==
    ASSUME FeedInvariant, UNCHANGED vars
    PROVE  FeedInvariant'
<1>1. /\ UNCHANGED <<pool, owner, queue, writable, removable, watched, dropping, todo, phase>>
      /\ UNCHANGED <<stage, pipe, raw, published, joined, received>>
    BY DEF vars, writerVars, pollerVars, stepVars, subscriberVars
<1>2. Pools /\ Steps /\ Owners /\ Buffers
    BY DEF FeedInvariant, PoolInvariant
<1>3. Pools' /\ Owners'
    BY ONLY <1>1, <1>2, PoolsSame, OwnersKept
<1>4. PoolInvariant'
    BY ONLY <1>1, <1>2, <1>3 DEF PoolInvariant, Steps, Buffers
<1> QED BY <1>1, <1>4, FeedKept

\* Every step keeps the invariant.
LEMMA NextFeeds ==
    ASSUME FeedInvariant, [Next]_vars
    PROVE  FeedInvariant'
<1>1. CASE Broadcast
    BY <1>1, BroadcastFeeds
<1>2. ASSUME NEW s \in Subscribers, NEW sid \in Sockets, OnAccepted(s, sid) PROVE FeedInvariant'
    BY <1>2, AcceptedFeeds
<1>3. CASE StartStep
    BY <1>3, StartStepFeeds
<1>4. ASSUME NEW sid \in Sockets, DoSend(sid) PROVE FeedInvariant'
    BY <1>4, SendFeeds
<1>5. CASE Poll
    BY <1>5, PollFeeds
<1>6. ASSUME NEW sid \in Sockets, Drained(sid) PROVE FeedInvariant'
    BY <1>6, DrainedFeeds
<1>7. ASSUME NEW s \in Subscribers, Connect(s) PROVE FeedInvariant'
    BY <1>7, ConnectFeeds
<1>8. ASSUME NEW s \in Subscribers, Close(s) PROVE FeedInvariant'
    BY <1>8, CloseFeeds
<1>9. ASSUME NEW s \in Subscribers, OnDataReady(s) PROVE FeedInvariant'
    BY <1>9, ReadFeeds
<1>10. CASE UNCHANGED vars
    BY <1>10, StutterFeeds
<1> QED BY <1>1, <1>2, <1>3, <1>4, <1>5, <1>6, <1>7, <1>8, <1>9, <1>10 DEF Next, Step

\* Pools, connections and streams agree in every state.
THEOREM FeedHolds == Spec => []FeedInvariant
<1>1. Init => FeedInvariant
    BY InitFeeds
<1>2. FeedInvariant /\ [Next]_vars => FeedInvariant'
    BY NextFeeds
<1> QED BY <1>1, <1>2, PTL DEF Spec

\* Every variable has its type.
THEOREM TypesHold == Spec => []TypeOK
<1>1. FeedInvariant => TypeOK
    BY InvariantTypes DEF FeedInvariant
<1> QED BY <1>1, FeedHolds, PTL

\* No assertion of socket_pool::locate_account fails, and no place of the array is
\* lost.
THEOREM PoolHolds == Spec => []PoolIsConsistent
<1>1. FeedInvariant => PoolIsConsistent
    BY InvariantPool DEF FeedInvariant
<1> QED BY <1>1, FeedHolds, PTL

\* What is received is read off what was published.
LEMMA ReadRefines ==
    ASSUME FeedInvariant, NEW s \in Subscribers, OnDataReady(s)
    PROVE  Promise!Receive(s) \/ UNCHANGED <<published, joined, received>>
<1>1. Buffers /\ History
    BY DEF FeedInvariant, PoolInvariant
<1>2. stage[s] = "accepted" /\ \E n, parts : Reads(s, n, parts)
    BY <1>1, ReadsChunk
<1>3. PICK n, parts : Reads(s, n, parts)
    BY <1>2
<1>4. PICK sid \in DOMAIN queue : owner[sid] = s /\ s \in DOMAIN joined
    BY <1>2, HasAccount
<1>5. PICK k, messages : Grows(s, k, messages)
    BY <1>2, <1>3, <1>4, StreamRead
<1>6. UNCHANGED <<published, joined>>
    BY ONLY <1>3 DEF Reads
<1>7. /\ k \in Nat /\ received' \in [Subscribers -> Seq(Nat)]
      /\ received' = [received EXCEPT ![s] = received'[s]]
      /\ Len(received[s]) \in Nat /\ Len(received'[s]) = Len(received[s]) + k
      /\ \A i \in 1 .. Len(received'[s]) : received'[s][i] = joined[s] + i
    BY ONLY <1>1, <1>4, <1>5, NowReceived
<1>8. History'
    BY ReadFeeds DEF FeedInvariant
<1>9. PICK now : now = received'[s] /\ now \in Seq(Nat)
    BY ONLY <1>7, s \in Subscribers
<1>10. PICK r \in Nat : r = Len(received[s]) /\ Len(now) = r + k
    BY ONLY <1>7, <1>9
<1>11. PICK j \in Nat : j = joined[s]
    BY <1>1, <1>4 DEF History
<1>12. PICK last \in Nat : last = Len(published)
    <2>1. Len(published) \in Nat
        BY <1>1, LenProperties DEF Buffers
    <2> QED BY ONLY <2>1
<1>13. j + (r + k) <= last
    <2>1. s \in DOMAIN joined'
        BY <1>4, <1>6
    <2>2. joined'[s] + Len(received'[s]) <= Len(published')
        BY <1>8, <2>1 DEF History
    <2> QED BY ONLY <1>6, <1>9, <1>10, <1>11, <1>12, <2>2
<1>14. \A i \in 1 .. r + k : now[i] = j + i
    BY ONLY <1>7, <1>9, <1>10, <1>11
<1>15. CASE k = 0
    <2>1. PICK old : old = received[s] /\ old \in Seq(Nat) /\ Len(old) = r
        BY <1>1, <1>10 DEF History
    <2>2. Len(now) = r
        BY ONLY <1>10, <1>15
    <2>3. \A i \in 1 .. Len(now) : now[i] = old[i]
        <3>1. \A i \in 1 .. r : old[i] = j + i
            BY <1>1, <1>4, <1>11, <2>1 DEF History
        <3>2. r + k = r
            BY ONLY <1>15, r \in Nat
        <3> QED BY ONLY <1>14, <2>2, <3>1, <3>2
    <2>4. now = old
        BY ONLY <1>9, <2>1, <2>2, <2>3, SeqEqual
    <2>5. received' = received
        <3>1. received \in [Subscribers -> Seq(Nat)]
            BY <1>1 DEF History
        <3> QED BY ONLY <1>7, <1>9, <2>1, <2>4, <3>1
    <2> QED BY ONLY <1>6, <2>5
<1>16. CASE k # 0
    <2>1. PICK upto \in Nat : upto = j + (r + k)
        <3>1. j + (r + k) \in Nat
            BY ONLY <1>7, <1>10, <1>11
        <3> QED BY ONLY <3>1
    <2>2. upto \in j + r + 1 .. last
        BY ONLY <1>7, <1>10, <1>11, <1>12, <1>13, <1>16, <2>1
    <2>3. PICK part : part = SubSeq(published, j + 1, upto)
        OBVIOUS
    <2>4. \A i \in 1 .. last : published[i] = i
        BY <1>1, <1>12 DEF History
    <2>5. /\ part \in Seq(Nat) /\ Len(part) = IF j + 1 <= upto THEN upto - (j + 1) + 1 ELSE 0
          /\ \A i \in 1 .. upto - (j + 1) + 1 : part[i] = published[j + 1 + i - 1]
        <3>1. j + 1 \in Int /\ upto \in Int
            BY ONLY <1>11, <2>1
        <3>2. ASSUME NEW i \in j + 1 .. upto PROVE published[i] \in Nat
            <4>1. i \in 1 .. last /\ i \in Nat
                BY ONLY <1>11, <1>12, <2>2, <3>2
            <4> QED BY ONLY <2>4, <4>1
        <3> QED BY ONLY <2>3, <3>1, <3>2, SubSeqProperties
    <2>6. upto - (j + 1) + 1 = r + k /\ j + 1 <= upto
        <3>1. PICK size \in Nat : size = k /\ size >= 1
            BY ONLY <1>7, <1>16
        <3>2. upto = j + (r + size)
            BY ONLY <2>1, <3>1
        <3>3. upto - (j + 1) + 1 = r + size /\ j + 1 <= upto
            BY ONLY <3>1, <3>2, j \in Nat, r \in Nat
        <3> QED BY ONLY <3>1, <3>3
    <2>7. Len(part) = r + k
        BY ONLY <2>5, <2>6
    <2>8. ASSUME NEW i \in 1 .. r + k PROVE part[i] = now[i]
        <3>1. part[i] = published[j + 1 + i - 1]
            BY ONLY <2>5, <2>6, <2>8
        <3>2. j + 1 + i - 1 = j + i /\ j + i \in 1 .. last
            <4>1. PICK total \in Nat : total = r + k /\ j + total <= last /\ i \in 1 .. total
                <5>1. r + k \in Nat
                    BY ONLY <1>7, <1>10
                <5> QED BY ONLY <1>13, <2>8, <5>1
            <4> QED BY ONLY <1>11, <1>12, <4>1
        <3>3. published[j + i] = j + i
            BY ONLY <2>4, <3>2
        <3>4. now[i] = j + i
            BY ONLY <1>14, <2>8
        <3> QED BY ONLY <3>1, <3>2, <3>3, <3>4
    <2>9. now = part
        BY ONLY <1>9, <1>10, <2>5, <2>7, <2>8, SeqEqual
    <2>10. received' = [received EXCEPT ![s] = SubSeq(published, joined[s] + 1, upto)]
        BY ONLY <1>7, <1>9, <1>11, <2>3, <2>9
    <2>11. upto \in joined[s] + Len(received[s]) + 1 .. Len(published)
        BY ONLY <1>10, <1>11, <1>12, <2>2
    <2> QED BY <1>4, <1>6, <2>10, <2>11 DEF Promise!Receive
<1> QED BY ONLY <1>15, <1>16

\* A broadcast publishes, and an acceptance joins.
LEMMA PublishRefines ==
    ASSUME FeedInvariant, Broadcast
    PROVE  \E m \in Messages : Promise!Publish(m)
<1>1. PICK m : m = Len(published) + 1
    OBVIOUS
<1>2. m <= MaxMessages /\ published' = Append(published, m) /\ UNCHANGED <<joined, received>>
    BY <1>1 DEF Broadcast
<1>3. Len(published) \in Nat
    <2>1. published \in Seq(Nat)
        BY DEF FeedInvariant, PoolInvariant, Buffers
    <2> QED BY ONLY <2>1, LenProperties
<1>4. m \in Messages
    BY <1>1, <1>2, <1>3, PubSubAssumption DEF Messages, PubSubAssumption
<1> QED BY <1>2, <1>4 DEF Promise!Publish

\* A subscriber joins once: it was not accepted before.
LEMMA JoinRefines ==
    ASSUME FeedInvariant, NEW s \in Subscribers, NEW sid \in Sockets, OnAccepted(s, sid)
    PROVE  Promise!Join(s)
<1>1. Pools /\ History
    BY DEF FeedInvariant, PoolInvariant
<1>2. Enters(s, sid)
    BY <1>1, AcceptedEnters
<1>3. /\ stage[s] = "connecting" /\ UNCHANGED <<published, received>>
      /\ joined' = [k \in DOMAIN joined \cup {s} |-> IF k = s THEN Len(published) ELSE joined[k]]
    BY ONLY <1>2 DEF Enters
<1>4. s \notin DOMAIN joined
    BY <1>1, <1>3 DEF History
<1> QED BY <1>3, <1>4 DEF Promise!Join

\* Publish and subscribe do what Feed promises.
THEOREM FeedIsKept == Spec => ImplementsFeed
<1>1. Init => Promise!Init
    <2> SUFFICES ASSUME Init PROVE Promise!Init
        OBVIOUS
    <2>1. published = <<>> /\ joined = <<>> /\ received = [s \in Subscribers |-> <<>>]
        BY DEF Init
    <2>2. <<>> = [s \in {} |-> 0]
        OBVIOUS
    <2> QED BY <2>1, <2>2 DEF Promise!Init
<1>2. FeedInvariant /\ [Next]_vars => [Promise!Next]_(Promise!vars)
    <2> SUFFICES ASSUME FeedInvariant, [Next]_vars
                 PROVE  Promise!Next \/ UNCHANGED <<published, joined, received>>
        BY DEF Promise!vars
    <2>1. CASE Broadcast
        BY <2>1, PublishRefines DEF Promise!Next
    <2>2. ASSUME NEW s \in Subscribers, NEW sid \in Sockets, OnAccepted(s, sid)
          PROVE  Promise!Next
        BY <2>2, JoinRefines DEF Promise!Next
    <2>3. CASE StartStep
        BY <2>3 DEF StartStep
    <2>4. ASSUME NEW sid \in Sockets, DoSend(sid) PROVE UNCHANGED <<published, joined, received>>
        BY <2>4 DEF DoSend
    <2>5. CASE Poll
        BY <2>5 DEF Poll
    <2>6. ASSUME NEW sid \in Sockets, Drained(sid) PROVE UNCHANGED <<published, joined, received>>
        BY <2>6 DEF Drained
    <2>7. ASSUME NEW s \in Subscribers, Connect(s) PROVE UNCHANGED <<published, joined, received>>
        BY <2>7 DEF Connect
    <2>8. ASSUME NEW s \in Subscribers, Close(s) PROVE UNCHANGED <<published, joined, received>>
        BY <2>8 DEF Close
    <2>9. ASSUME NEW s \in Subscribers, OnDataReady(s)
          PROVE  Promise!Next \/ UNCHANGED <<published, joined, received>>
        BY <2>9, ReadRefines DEF Promise!Next
    <2>10. CASE UNCHANGED vars
        BY <2>10 DEF vars
    <2> QED BY <2>1, <2>2, <2>3, <2>4, <2>5, <2>6, <2>7, <2>8, <2>9, <2>10 DEF Next, Step
<1> QED BY <1>1, <1>2, FeedHolds, PTL DEF Spec, ImplementsFeed, Promise!Spec
=============================================================================
