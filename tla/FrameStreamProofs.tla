------------------------- MODULE FrameStreamProofs -------------------------
(***************************************************************************)
(* Proofs about FrameStream for any packets, sizes, frames, priorities and *)
(* weights: its types, the turns of the priorities, the bytes sent in a    *)
(* second, what an assertion can throw for, and that packets are read as   *)
(* PriorityChannel promises.                                               *)
(***************************************************************************)
EXTENDS FrameStream, SequenceTheorems, FunctionTheorems, FiniteSetTheorems, WellFoundedInduction,
        TLAPS

-----------------------------------------------------------------------------
(***************************************************************************)
(* Sequences one behind the other.                                         *)
(***************************************************************************)

\* It makes no difference which two are put together first.
Regrouped(x, y, z) == (x \o y) \o z = x \o (y \o z)

LEMMA Regroup == \A D : \A x, y, z \in Seq(D) : Regrouped(x, y, z)
BY ConcatAssociative DEF Regrouped

-----------------------------------------------------------------------------
(***************************************************************************)
(* Numbers, sets of them, and folds.  A fold is the value of a function    *)
(* CHOSEN among those that satisfy its recursion: one does, by induction,  *)
(* so the chosen one does.                                                 *)
(***************************************************************************)

Below == {ss \in Nat \X Nat : ss[1] < ss[2]}

\* A set of naturals has a least element, and Min chooses it.
LEMMA LeastOf ==
    ASSUME NEW S, S \subseteq Nat, S # {}
    PROVE  Min(S) \in S /\ \A x \in S : Min(S) <= x
<1>1. IsWellFoundedOn(Below, Nat)
    BY NatLessThanWellFounded DEF OpToRel, Below
<1>2. PICK lowest \in S : \A x \in S : ~(<<x, lowest>> \in Below)
    BY <1>1, WFMin
<1>3. ASSUME NEW x \in S PROVE lowest <= x
    <2>1. lowest \in Nat /\ x \in Nat /\ ~(<<x, lowest>> \in Below)
        BY <1>2
    <2> QED BY <2>1 DEF Below
<1> QED BY <1>3 DEF Min

\* Induction on the naturals, for a set.
LEMMA NatSetInduction ==
    ASSUME NEW A, 0 \in A, \A n \in Nat : n \in A => n + 1 \in A
    PROVE  Nat \subseteq A
<1> SUFFICES ASSUME Nat \ A # {} PROVE FALSE
    OBVIOUS
<1> DEFINE least == Min(Nat \ A)
<1>1. least \in Nat \ A /\ \A x \in Nat \ A : least <= x
    BY LeastOf
<1> HIDE DEF least
<1>2. least # 0 /\ least \in Nat
    BY <1>1
<1>3. least - 1 \in Nat /\ ~(least <= least - 1)
    BY <1>2
<1>4. least - 1 \in A
    BY <1>1, <1>3
<1>5. least - 1 + 1 \in A
    BY <1>3, <1>4
<1> QED BY <1>1, <1>2, <1>5

\* A set of numbers up to a bound has a greatest element, and Max chooses it.
LEMMA GreatestOf ==
    ASSUME NEW S, S \subseteq Nat, S # {}, NEW bound \in Nat, \A x \in S : x <= bound
    PROVE  Max(S) \in S /\ \A x \in S : Max(S) >= x
<1> DEFINE above == {b \in Nat : \A x \in S : x <= b}
           top == Min(above)
<1>1. top \in above /\ \A b \in above : top <= b
    BY LeastOf
<1> HIDE DEF top
<1>2. top \in Nat /\ \A x \in S : x <= top /\ x \in Nat
    BY <1>1
<1>3. top \in S
    <2> SUFFICES ASSUME top \notin S PROVE FALSE
        OBVIOUS
    <2>1. ASSUME NEW x \in S PROVE x <= top - 1
        BY <1>2, <2>1
    <2>2. top - 1 \in Nat
        <3> PICK x \in S : TRUE
            OBVIOUS
        <3> QED BY <1>2, <2>1
    <2>3. top - 1 \in above /\ ~(top <= top - 1)
        BY <1>2, <2>1, <2>2
    <2> QED BY <1>1, <2>3
<1>4. \A x \in S : top >= x
    BY <1>2
<1> QED BY <1>3, <1>4 DEF Max

\* A finite set of naturals that is not empty has a greatest element.
LEMMA FiniteHasBound ==
    ASSUME NEW S, S \subseteq Nat, IsFiniteSet(S)
    PROVE  \E bound \in Nat : \A x \in S : x <= bound
<1> DEFINE A == {k \in Nat : \A T \in SUBSET S : Cardinality(T) = k =>
                     \E bound \in Nat : \A x \in T : x <= bound}
<1>1. 0 \in A
    <2>1. ASSUME NEW T \in SUBSET S, Cardinality(T) = 0
          PROVE  \E bound \in Nat : \A x \in T : x <= bound
        <3>1. IsFiniteSet(T)
            BY FS_Subset
        <3>2. T = {}
            BY <2>1, <3>1, FS_EmptySet
        <3> QED BY <3>2
    <2> QED BY <2>1
<1>2. ASSUME NEW n \in Nat, n \in A PROVE n + 1 \in A
    <2>1. ASSUME NEW T \in SUBSET S, Cardinality(T) = n + 1
          PROVE  \E bound \in Nat : \A x \in T : x <= bound
        <3>1. IsFiniteSet(T)
            BY FS_Subset
        <3>2. T # {}
            BY <2>1, FS_EmptySet
        <3> PICK t \in T : TRUE
            BY <3>2
        <3>3. Cardinality(T \ {t}) = Cardinality(T) - 1
            BY <3>1, FS_RemoveElement
        <3>4. Cardinality(T \ {t}) = n /\ T \ {t} \in SUBSET S
            BY <2>1, <3>3
        <3>5. PICK bound \in Nat : \A x \in T \ {t} : x <= bound
            BY <1>2, <3>4
        <3>6. t \in Nat
            OBVIOUS
        <3>7. ASSUME NEW x \in T PROVE x <= bound + t
            <4>1. x \in Nat /\ (x = t \/ x <= bound)
                BY <3>5
            <4> QED BY <3>6, <4>1
        <3>8. bound + t \in Nat
            BY <3>6
        <3> QED BY <3>7, <3>8
    <2>2. n + 1 \in Nat
        OBVIOUS
    <2> QED BY <2>1, <2>2
<1>3. Nat \subseteq A
    <2> HIDE DEF A
    <2> QED BY <1>1, <1>2, NatSetInduction
<1>4. Cardinality(S) \in Nat
    BY FS_CardinalityType
<1> QED BY <1>3, <1>4

\* Two functions that agree on 0, and on a number whenever they do on the one before.
Agreement(g, h, n) == \A k \in 0 .. n : g[k] = h[k]
Inherited(g, h, n) == \A k \in 1 .. n : g[k - 1] = h[k - 1] => g[k] = h[k]

LEMMA AgreeUpTo ==
    ASSUME NEW n \in Nat, NEW g, NEW h, g[0] = h[0], Inherited(g, h, n)
    PROVE  Agreement(g, h, n)
<1> DEFINE A == {k \in Nat : k <= n => g[k] = h[k]}
<1>1. 0 \in A
    OBVIOUS
<1>2. ASSUME NEW k \in Nat, k \in A PROVE k + 1 \in A
    <2> SUFFICES ASSUME k + 1 <= n PROVE g[k + 1] = h[k + 1]
        OBVIOUS
    <2>1. g[k] = h[k]
        BY <1>2
    <2>2. k + 1 \in 1 .. n /\ k + 1 - 1 = k
        OBVIOUS
    <2> QED BY <2>1, <2>2 DEF Inherited
<1>3. Nat \subseteq A
    <2> HIDE DEF A
    <2> QED BY <1>1, <1>2, NatSetInduction
<1> QED BY <1>3 DEF Agreement

\* A fold over a finite set: step gives the value at a set from the set and the value
\* at the set without the element taken.
SetFold(S, V, base, taken, step) ==
    \E f \in [SUBSET S -> V] : \A T \in SUBSET S :
        f[T] = IF T = {} THEN base ELSE step[<<T, f[T \ {taken[T]}]>>]

\* Its recursion has a solution.
LEMMA FoldExists ==
    ASSUME NEW S, IsFiniteSet(S), NEW V, NEW base \in V,
           NEW taken, \A T \in SUBSET S : T # {} => taken[T] \in T,
           NEW step, \A T \in SUBSET S : \A v \in V : T # {} => step[<<T, v>>] \in V
    PROVE  SetFold(S, V, base, taken, step)
<1> DEFINE Small(k) == {T \in SUBSET S : Cardinality(T) <= k}
           Solves(f, k) ==
               \A T \in Small(k) :
                   f[T] = IF T = {} THEN base ELSE step[<<T, f[T \ {taken[T]}]>>]
           A == {k \in Nat : \E f \in [Small(k) -> V] : Solves(f, k)}
<1>1. \A T \in SUBSET S : IsFiniteSet(T) /\ Cardinality(T) \in Nat
    BY FS_Subset, FS_CardinalityType
<1>2. \A T \in SUBSET S : T # {} => Cardinality(T \ {taken[T]}) = Cardinality(T) - 1
    BY <1>1, FS_RemoveElement
<1>3. 0 \in A
    <2> DEFINE f == [T \in Small(0) |-> base]
    <2>1. \A T \in Small(0) : T = {}
        BY <1>1, FS_EmptySet
    <2>2. f \in [Small(0) -> V] /\ Solves(f, 0)
        BY <2>1
    <2> QED BY <2>2
<1>4. ASSUME NEW k \in Nat, k \in A PROVE k + 1 \in A
    <2> PICK f \in [Small(k) -> V] : Solves(f, k)
        BY <1>4
    <2> DEFINE g == [T \in Small(k + 1) |->
                        IF T = {} THEN base ELSE step[<<T, f[T \ {taken[T]}]>>]]
    <2>1. ASSUME NEW T \in Small(k + 1), T # {}
          PROVE  T \ {taken[T]} \in Small(k)
        <3>1. T \in SUBSET S /\ Cardinality(T) <= k + 1 /\ Cardinality(T) \in Nat
            BY <1>1
        <3>2. Cardinality(T \ {taken[T]}) = Cardinality(T) - 1
            BY <1>2, <2>1, <3>1
        <3> QED BY <3>1, <3>2
    <2>2. g \in [Small(k + 1) -> V]
        <3>1. ASSUME NEW T \in Small(k + 1), T # {} PROVE step[<<T, f[T \ {taken[T]}]>>] \in V
            <4>1. f[T \ {taken[T]}] \in V
                BY <2>1, <3>1
            <4> QED BY <3>1, <4>1
        <3> QED BY <3>1
    <2>3. ASSUME NEW T \in Small(k) PROVE T \in Small(k + 1) /\ g[T] = f[T]
        <3>1. T \in Small(k + 1)
            BY <1>1
        <3> QED BY <3>1
    <2>4. Solves(g, k + 1)
        <3> SUFFICES ASSUME NEW T \in Small(k + 1), T # {}
                     PROVE  g[T] = step[<<T, g[T \ {taken[T]}]>>]
            OBVIOUS
        <3>1. T \ {taken[T]} \in Small(k)
            BY <2>1
        <3>2. g[T \ {taken[T]}] = f[T \ {taken[T]}]
            BY <2>3, <3>1
        <3> QED BY <3>2
    <2> HIDE DEF g, Solves, Small
    <2> QED BY <2>2, <2>4
<1>5. Nat \subseteq A
    <2> HIDE DEF A
    <2> QED BY <1>3, <1>4, NatSetInduction
<1>6. Cardinality(S) \in A
    BY <1>5, <1>1
<1>7. Small(Cardinality(S)) = SUBSET S
    BY FS_Subset
<1>8. PICK f \in [SUBSET S -> V] : Solves(f, Cardinality(S))
    <2> HIDE DEF Solves, Small
    <2> QED BY <1>6, <1>7
<1>9. \A T \in SUBSET S : f[T] = IF T = {} THEN base ELSE step[<<T, f[T \ {taken[T]}]>>]
    BY <1>7, <1>8
<1> QED BY <1>9 DEF SetFold

-----------------------------------------------------------------------------
(***************************************************************************)
(* Folds over a sequence.                                                  *)
(***************************************************************************)

\* The greatest of some of the first n numbers.
LEMMA GreatestIndex ==
    ASSUME NEW n \in Nat, NEW T \in SUBSET (1 .. n), T # {}
    PROVE  Max(T) \in T /\ Max(T) \in 1 .. n
<1>1. T \subseteq Nat /\ \A x \in T : x <= n
    OBVIOUS
<1> QED BY <1>1, GreatestOf

LEMMA GreatestOfInterval ==
    ASSUME NEW k \in Nat, k > 0
    PROVE  Max(1 .. k) = k /\ (1 .. k) \ {k} = 1 .. (k - 1)
<1>1. Max(1 .. k) \in 1 .. k /\ \A x \in 1 .. k : Max(1 .. k) >= x
    <2>1. 1 .. k \subseteq Nat /\ 1 .. k # {} /\ \A x \in 1 .. k : x <= k
        OBVIOUS
    <2> QED BY <2>1, GreatestOf
<1>2. Max(1 .. k) = k
    BY <1>1
<1> QED BY <1>2

\* The first k of the first n numbers.
LEMMA FirstNumbers ==
    ASSUME NEW n \in Nat, NEW k \in 1 .. n
    PROVE  /\ k \in Nat /\ k - 1 \in Nat /\ k \in 0 .. n /\ k - 1 \in 0 .. n
           /\ 1 .. k \in SUBSET (1 .. n) /\ 1 .. k # {}
           /\ Max(1 .. k) = k /\ (1 .. k) \ {k} = 1 .. (k - 1)
           /\ k # 1 => k - 1 \in 1 .. n
           /\ k = 1 => k - 1 = 0
<1>1. Max(1 .. k) = k /\ (1 .. k) \ {k} = 1 .. (k - 1)
    BY GreatestOfInterval
<1> QED BY <1>1

\* A fold over the first n numbers.
IndexFold(n, V, base, step) ==
    \E f \in [SUBSET (1 .. n) -> V] : \A T \in SUBSET (1 .. n) :
        f[T] = IF T = {} THEN base ELSE step[<<Max(T), f[T \ {Max(T)}]>>]

\* Its recursion has a solution.
LEMMA IndexFoldExists ==
    ASSUME NEW n \in Nat, NEW V, NEW base \in V,
           NEW step, \A k \in 1 .. n : \A v \in V : step[<<k, v>>] \in V
    PROVE  IndexFold(n, V, base, step)
<1> DEFINE S == 1 .. n
           taken == [T \in SUBSET S |-> Max(T)]
           bySet == [q \in (SUBSET S) \X V |-> step[<<Max(q[1]), q[2]>>]]
<1>1. IsFiniteSet(S)
    <2>1. n \in Int /\ 1 \in Int
        OBVIOUS
    <2> QED BY <2>1, FS_Interval
<1>2. \A T \in SUBSET S : T # {} => taken[T] \in T /\ taken[T] = Max(T) /\ Max(T) \in S
    BY GreatestIndex
<1>3. \A T \in SUBSET S : \A v \in V : T # {} =>
          bySet[<<T, v>>] \in V /\ bySet[<<T, v>>] = step[<<Max(T), v>>]
    BY <1>2
<1>4. PICK f \in [SUBSET S -> V] : \A T \in SUBSET S :
          f[T] = IF T = {} THEN base ELSE bySet[<<T, f[T \ {taken[T]}]>>]
    <2>1. \A T \in SUBSET S : T # {} => taken[T] \in T
        BY <1>2
    <2>2. \A T \in SUBSET S : \A v \in V : T # {} => bySet[<<T, v>>] \in V
        BY <1>3
    <2>3. SetFold(S, V, base, taken, bySet)
        <3> HIDE DEF S, taken, bySet
        <3> QED BY <1>1, <2>1, <2>2, FoldExists
    <2> QED BY <2>3 DEF SetFold
<1>5. ASSUME NEW T \in SUBSET S
      PROVE  f[T] = IF T = {} THEN base ELSE step[<<Max(T), f[T \ {Max(T)}]>>]
    <2>1. f[T] = IF T = {} THEN base ELSE bySet[<<T, f[T \ {taken[T]}]>>]
        BY <1>4
    <2>2. T # {} => f[T \ {taken[T]}] \in V /\ taken[T] = Max(T)
        BY <1>2
    <2> HIDE DEF bySet, taken
    <2> QED BY <1>3, <2>1, <2>2
<1> QED BY <1>5 DEF IndexFold

-----------------------------------------------------------------------------
(***************************************************************************)
(* The bytes of a sequence of frames.                                      *)
(***************************************************************************)

Frame == [priority : Priorities, packet : Packets, bytes : Nat \ {0}]

\* The bytes of the first k frames, for every k.
LEMMA BytesOfPrefixes ==
    ASSUME NEW s \in Seq(Frame)
    PROVE  \E g : /\ g[0] = 0 /\ g[Len(s)] = Bytes(s)
                  /\ \A k \in 1 .. Len(s) : g[k] = g[k - 1] + s[k].bytes + EmptyFrame
                  /\ \A k \in 0 .. Len(s) : g[k] \in Nat
<1> DEFINE n == Len(s)
           step == [q \in (1 .. n) \X Nat |-> q[2] + s[q[1]].bytes + EmptyFrame]
<1>1. n \in Nat /\ DOMAIN s = 1 .. n /\ EmptyFrame \in Nat
    BY LenProperties, StreamAssumption DEF StreamAssumption
<1>2. \A k \in 1 .. n : s[k].bytes \in Nat
    <2>1. \A k \in 1 .. n : s[k] \in Frame
        BY ElementOfSeq
    <2> QED BY <2>1 DEF Frame
<1>3. \A k \in 1 .. n : \A v \in Nat :
          step[<<k, v>>] \in Nat /\ step[<<k, v>>] = v + s[k].bytes + EmptyFrame
    BY <1>1, <1>2
<1>4. PICK f \in [SUBSET (1 .. n) -> Nat] : \A T \in SUBSET (1 .. n) :
          f[T] = IF T = {} THEN 0 ELSE step[<<Max(T), f[T \ {Max(T)}]>>]
    <2>1. 0 \in Nat
        OBVIOUS
    <2>2. \A k \in 1 .. n : \A v \in Nat : step[<<k, v>>] \in Nat
        BY <1>3
    <2>3. IndexFold(n, Nat, 0, step)
        <3> HIDE DEF step, n
        <3> QED BY <1>1, <2>1, <2>2, IndexFoldExists
    <2> QED BY <2>3 DEF IndexFold
<1> DEFINE iter == CHOOSE h : h = [T \in SUBSET (1 .. n) |->
                       IF T = {} THEN 0 ELSE h[T \ {Max(T)}] + s[Max(T)].bytes + EmptyFrame]
<1>5. f = [T \in SUBSET (1 .. n) |->
              IF T = {} THEN 0 ELSE f[T \ {Max(T)}] + s[Max(T)].bytes + EmptyFrame]
    <2>1. ASSUME NEW T \in SUBSET (1 .. n)
          PROVE  f[T] = IF T = {} THEN 0 ELSE f[T \ {Max(T)}] + s[Max(T)].bytes + EmptyFrame
        <3>1. T # {} => Max(T) \in 1 .. n
            BY <1>1, GreatestIndex
        <3>2. f[T \ {Max(T)}] \in Nat
            OBVIOUS
        <3>3. f[T] = IF T = {} THEN 0 ELSE step[<<Max(T), f[T \ {Max(T)}]>>]
            BY <1>4
        <3> HIDE DEF step
        <3> QED BY <1>3, <3>1, <3>2, <3>3
    <2> QED BY <2>1
<1>6. iter = [T \in SUBSET (1 .. n) |->
                 IF T = {} THEN 0 ELSE iter[T \ {Max(T)}] + s[Max(T)].bytes + EmptyFrame]
    <2> HIDE DEF n, step
    <2> QED BY <1>5
<1>7. Bytes(s) = iter[1 .. n]
    BY <1>1 DEF Bytes, FoldLeft, MapThenFoldSet
<1> HIDE DEF iter
<1> DEFINE g == [k \in 0 .. n |-> iter[1 .. k]]
<1>8. g[0] = 0
    <2>1. {} \in SUBSET (1 .. n)
        OBVIOUS
    <2>2. iter[{}] = 0
        BY <1>6, <2>1
    <2>3. 1 .. 0 = {} /\ 0 \in 0 .. n
        BY <1>1
    <2> QED BY <2>2, <2>3
<1>9. ASSUME NEW k \in 1 .. n PROVE g[k] = g[k - 1] + s[k].bytes + EmptyFrame
    <2>1. 1 .. k \in SUBSET (1 .. n) /\ 1 .. k # {} /\ k \in 0 .. n /\ k - 1 \in 0 .. n
        BY <1>1, FirstNumbers
    <2>2. Max(1 .. k) = k /\ (1 .. k) \ {k} = 1 .. (k - 1)
        BY <1>1, FirstNumbers
    <2>3. iter[1 .. k] = iter[(1 .. k) \ {Max(1 .. k)}] + s[Max(1 .. k)].bytes + EmptyFrame
        <3> HIDE DEF n
        <3> QED BY <1>6, <2>1
    <2> QED BY <2>1, <2>2, <2>3
<1>10. g[n] = Bytes(s)
    BY <1>1, <1>7
<1> HIDE DEF g
<1>11. \A k \in 0 .. n : g[k] \in Nat
    <2> DEFINE A == {k \in Nat : k <= n => g[k] \in Nat}
    <2>1. 0 \in A
        BY <1>8
    <2>2. ASSUME NEW k \in Nat, k \in A PROVE k + 1 \in A
        <3> SUFFICES ASSUME k + 1 <= n PROVE g[k + 1] \in Nat
            OBVIOUS
        <3>1. g[k] \in Nat /\ k + 1 \in 1 .. n /\ k + 1 - 1 = k
            BY <1>1, <2>2
        <3>2. g[k + 1] = g[k] + s[k + 1].bytes + EmptyFrame
            BY <1>9, <3>1
        <3> QED BY <1>1, <1>2, <3>1, <3>2
    <2>3. Nat \subseteq A
        <3> HIDE DEF A
        <3> QED BY <2>1, <2>2, NatSetInduction
    <2> QED BY <2>3
<1> QED BY <1>8, <1>9, <1>10, <1>11

\* No frame, no bytes.
LEMMA BytesOfNone == Bytes(<<>>) = 0
<1>1. <<>> \in Seq(Frame) /\ Len(<<>>) = 0
    BY EmptySeq
<1>2. PICK g : g[0] = 0 /\ g[Len(<<>>)] = Bytes(<<>>)
    BY <1>1, BytesOfPrefixes
<1> QED BY <1>1, <1>2

\* A frame more has its payload and its own bytes more.
LEMMA BytesOfAppend ==
    ASSUME NEW s \in Seq(Frame), NEW e \in Frame
    PROVE  /\ Bytes(s) \in Nat
           /\ Bytes(Append(s, e)) = Bytes(s) + e.bytes + EmptyFrame
<1> DEFINE t == Append(s, e)
           n == Len(s)
<1>1. /\ t \in Seq(Frame) /\ Len(t) = n + 1 /\ t[n + 1] = e
      /\ \A i \in 1 .. n : t[i] = s[i]
    BY AppendProperties
<1>2. n \in Nat
    BY LenProperties
<1> HIDE DEF t
<1>3. PICK g : /\ g[0] = 0 /\ g[n] = Bytes(s)
               /\ \A k \in 1 .. n : g[k] = g[k - 1] + s[k].bytes + EmptyFrame
               /\ \A k \in 0 .. n : g[k] \in Nat
    BY BytesOfPrefixes
<1>4. PICK h : /\ h[0] = 0 /\ h[Len(t)] = Bytes(t)
               /\ \A k \in 1 .. Len(t) : h[k] = h[k - 1] + t[k].bytes + EmptyFrame
    BY <1>1, BytesOfPrefixes
<1>5. \A k \in 1 .. n : g[k - 1] = h[k - 1] => g[k] = h[k]
    BY <1>1, <1>2, <1>3, <1>4
<1>6. \A k \in 0 .. n : g[k] = h[k]
    <2>1. g[0] = h[0]
        BY <1>3, <1>4
    <2>2. Inherited(g, h, n)
        BY <1>5 DEF Inherited
    <2>3. Agreement(g, h, n)
        BY <1>2, <2>1, <2>2, AgreeUpTo
    <2> QED BY ONLY <2>3 DEF Agreement
<1>7. g[n] = h[n] /\ g[n] \in Nat
    BY <1>2, <1>3, <1>6
<1>8. h[n + 1] = h[n + 1 - 1] + e.bytes + EmptyFrame
    BY <1>1, <1>2, <1>4
<1>9. n + 1 - 1 = n
    BY <1>2
<1> QED BY <1>1, <1>3, <1>4, <1>7, <1>8, <1>9 DEF t

\* The first bytes of a sequence of frames and the bytes of the rest.
LEMMA BytesOfConcat ==
    ASSUME NEW s \in Seq(Frame), NEW t \in Seq(Frame)
    PROVE  Bytes(s \o t) = Bytes(s) + Bytes(t) /\ Bytes(s) \in Nat /\ Bytes(t) \in Nat
<1> DEFINE A == {k \in Nat : \A r \in Seq(Frame) : Len(r) = k =>
                     Bytes(s \o r) = Bytes(s) + Bytes(r) /\ Bytes(r) \in Nat}
<1>0. Bytes(s) \in Nat
    <2>1. PICK g : g[Len(s)] = Bytes(s) /\ \A k \in 0 .. Len(s) : g[k] \in Nat
        BY BytesOfPrefixes
    <2>2. Len(s) \in Nat
        BY LenProperties
    <2> QED BY <2>1, <2>2
<1>1. 0 \in A
    <2>1. ASSUME NEW r \in Seq(Frame), Len(r) = 0
          PROVE  Bytes(s \o r) = Bytes(s) + Bytes(r) /\ Bytes(r) \in Nat
        <3>1. r = <<>>
            BY <2>1, EmptySeq
        <3>2. s \o r = s
            BY <3>1, ConcatEmptySeq
        <3> QED BY <1>0, <3>1, <3>2, BytesOfNone
    <2> QED BY <2>1
<1>2. ASSUME NEW k \in Nat, k \in A PROVE k + 1 \in A
    <2>1. ASSUME NEW r \in Seq(Frame), Len(r) = k + 1
          PROVE  Bytes(s \o r) = Bytes(s) + Bytes(r) /\ Bytes(r) \in Nat
        <3>1. r # <<>>
            BY <2>1, EmptySeq
        <3> PICK front \in Seq(Frame), e \in Frame : r = Append(front, e)
            BY <3>1, SequenceEmptyOrAppend
        <3>2. Len(front) \in Nat /\ Len(r) = Len(front) + 1
            BY LenProperties, AppendProperties
        <3>3. Len(front) = k
            BY <2>1, <3>2
        <3>4. Bytes(s \o front) = Bytes(s) + Bytes(front) /\ Bytes(front) \in Nat
            BY <1>2, <3>3
        <3>5. s \o front \in Seq(Frame) /\ s \o r = Append(s \o front, e)
            <4>1. r = front \o <<e>> /\ <<e>> \in Seq(Frame)
                BY AppendIsConcat
            <4>2. s \o front \in Seq(Frame)
                BY ConcatProperties
            <4>3. s \o r = (s \o front) \o <<e>>
                <5>1. Regrouped(s, front, <<e>>)
                    BY <4>1, Regroup
                <5> QED BY <4>1, <5>1 DEF Regrouped
            <4> QED BY <4>2, <4>3, AppendIsConcat
        <3>6. /\ Bytes(Append(s \o front, e)) = Bytes(s \o front) + e.bytes + EmptyFrame
              /\ Bytes(r) = Bytes(front) + e.bytes + EmptyFrame
            BY <3>5, BytesOfAppend
        <3>7. e.bytes \in Nat /\ EmptyFrame \in Nat
            BY StreamAssumption DEF StreamAssumption, Frame
        <3>8. Bytes(s \o r) = Bytes(s \o front) + e.bytes + EmptyFrame
            BY ONLY <3>5, <3>6
        <3>9. Bytes(s) \in Nat
            BY <1>0
        <3> QED BY ONLY <3>4, <3>6, <3>7, <3>8, <3>9
    <2>2. k + 1 \in Nat
        OBVIOUS
    <2> QED BY <2>1, <2>2
<1>3. Nat \subseteq A
    <2> HIDE DEF A
    <2> QED BY <1>1, <1>2, NatSetInduction
<1>4. Len(t) \in Nat
    BY LenProperties
<1> QED BY <1>0, <1>3, <1>4

-----------------------------------------------------------------------------
(***************************************************************************)
(* Sequences put one behind the other.                                     *)
(***************************************************************************)

\* The first k sequences can be put one behind the other, for every k.
LEMMA JoinedPrefixes ==
    ASSUME NEW X, NEW s \in Seq(Seq(X))
    PROVE  \E g : /\ g[0] = <<>>
                  /\ \A k \in 1 .. Len(s) : g[k] = g[k - 1] \o s[k]
                  /\ \A k \in 0 .. Len(s) : g[k] \in Seq(X)
<1>1. Len(s) \in Nat
    BY LenProperties
<1>n. PICK n \in Nat : n = Len(s)
    BY <1>1
<1>0. n \in Nat
    BY <1>n
<1> DEFINE step == [q \in (1 .. n) \X Seq(X) |-> q[2] \o s[q[1]]]
<1>2. <<>> \in Seq(X) /\ \A k \in 1 .. n : s[k] \in Seq(X)
    BY <1>n, ElementOfSeq, EmptySeq
<1>3. \A k \in 1 .. n : \A v \in Seq(X) : step[<<k, v>>] \in Seq(X) /\ step[<<k, v>>] = v \o s[k]
    BY <1>2, ConcatProperties
<1>4. PICK f \in [SUBSET (1 .. n) -> Seq(X)] : \A T \in SUBSET (1 .. n) :
          f[T] = IF T = {} THEN <<>> ELSE step[<<Max(T), f[T \ {Max(T)}]>>]
    <2>1. \A k \in 1 .. n : \A v \in Seq(X) : step[<<k, v>>] \in Seq(X)
        BY <1>3
    <2>2. IndexFold(n, Seq(X), <<>>, step)
        <3> HIDE DEF step
        <3> QED BY <1>2, <2>1, IndexFoldExists
    <2> QED BY <2>2 DEF IndexFold
<1> DEFINE v == [k \in 0 .. n |-> f[1 .. k]]
<1>5. v[0] = <<>>
    <2>1. {} \in SUBSET (1 .. n)
        OBVIOUS
    <2>2. 1 .. 0 = {} /\ 0 \in 0 .. n
        OBVIOUS
    <2> QED BY <1>4, <2>1, <2>2
<1>6. \A k \in 0 .. n : v[k] \in Seq(X)
    <2>1. ASSUME NEW k \in 0 .. n PROVE v[k] \in Seq(X)
        <3>1. 1 .. k \in SUBSET (1 .. n)
            BY ONLY <1>0, k \in 0 .. n
        <3> QED BY <3>1
    <2> QED BY <2>1
<1>7. ASSUME NEW k \in 1 .. n PROVE v[k] = v[k - 1] \o s[k]
    <2>1. 1 .. k \in SUBSET (1 .. n) /\ 1 .. k # {} /\ k \in 0 .. n /\ k - 1 \in 0 .. n
        BY ONLY <1>0, k \in 1 .. n, FirstNumbers
    <2>2. Max(1 .. k) = k /\ (1 .. k) \ {k} = 1 .. (k - 1)
        BY ONLY <1>0, k \in 1 .. n, FirstNumbers
    <2>3. f[1 .. k] = step[<<Max(1 .. k), f[(1 .. k) \ {Max(1 .. k)}]>>]
        <3> HIDE DEF step
        <3> QED BY <1>4, <2>1
    <2>4. f[1 .. (k - 1)] \in Seq(X)
        BY <1>6, <2>1
    <2>5. step[<<k, f[1 .. (k - 1)]>>] = f[1 .. (k - 1)] \o s[k]
        <3> HIDE DEF step
        <3> QED BY <1>3, <2>4
    <2> QED BY <2>1, <2>2, <2>3, <2>5
<1> HIDE DEF v
<1> QED BY <1>n, <1>5, <1>6, <1>7

\* FlattenSeq does.
LEMMA FlattenOfPrefixes ==
    ASSUME NEW X, NEW s \in Seq(Seq(X))
    PROVE  \E g : /\ g[0] = <<>> /\ g[Len(s)] = FlattenSeq(s)
                  /\ \A k \in 1 .. Len(s) : g[k] = g[k - 1] \o s[k]
                  /\ \A k \in 0 .. Len(s) : g[k] \in Seq(X)
<1>1. Len(s) \in Nat
    BY LenProperties
<1>n. PICK n \in Nat : n = Len(s)
    BY <1>1
<1>0. n \in Nat
    BY <1>n
<1>2. \A k \in 1 .. n : s[k] \in Seq(X)
    BY <1>n, ElementOfSeq
<1>3. PICK v : /\ v[0] = <<>>
               /\ \A k \in 1 .. n : v[k] = v[k - 1] \o s[k]
               /\ \A k \in 0 .. n : v[k] \in Seq(X)
    BY <1>n, JoinedPrefixes
<1>8. v[n] = FlattenSeq(s)
    <2>1. CASE n = 0
        <3>1. s = <<>>
            BY <1>n, <2>1, EmptySeq
        <3>2. FlattenSeq(s) = s
            BY <1>n, <2>1 DEF FlattenSeq
        <3> QED BY <1>3, <2>1, <3>1, <3>2
    <2>2. CASE n # 0
        <3> DEFINE flatten == CHOOSE h : h = [i \in 1 .. n |-> IF i = 1 THEN s[i] ELSE h[i - 1] \o s[i]]
                   w == [i \in 1 .. n |-> v[i]]
        <3>1. ASSUME NEW i \in 1 .. n PROVE w[i] = IF i = 1 THEN s[i] ELSE w[i - 1] \o s[i]
            <4>1. CASE i = 1
                <5>0. i - 1 = 0
                    BY <4>1
                <5>1. v[i] = v[i - 1] \o s[i]
                    BY <1>3
                <5>2. <<>> \o s[i] = s[i]
                    BY <1>2, ConcatEmptySeq
                <5> QED BY <1>3, <4>1, <5>0, <5>1, <5>2
            <4>2. CASE i # 1
                <5>1. i - 1 \in 1 .. n
                    BY <4>2
                <5>2. v[i] = v[i - 1] \o s[i]
                    BY <1>3
                <5> QED BY <4>2, <5>1, <5>2
            <4> QED BY <4>1, <4>2
        <3>2. w = [i \in 1 .. n |-> IF i = 1 THEN s[i] ELSE w[i - 1] \o s[i]]
            BY <3>1
        <3>3. flatten = [i \in 1 .. n |-> IF i = 1 THEN s[i] ELSE flatten[i - 1] \o s[i]]
            <4> HIDE DEF w
            <4> QED BY <3>2
        <3>4. FlattenSeq(s) = flatten[n]
            BY <1>n, <2>2 DEF FlattenSeq
        <3> HIDE DEF flatten
        <3> DEFINE h == [i \in 0 .. n |-> IF i = 0 THEN <<>> ELSE flatten[i]]
        <3>5. ASSUME NEW k \in 1 .. n, v[k - 1] = h[k - 1] PROVE v[k] = h[k]
            <4>1. flatten[k] = IF k = 1 THEN s[k] ELSE flatten[k - 1] \o s[k]
                BY <3>3
            <4>2. CASE k = 1
                <5>0. k - 1 = 0
                    BY <4>2
                <5>1. v[k] = v[k - 1] \o s[k]
                    BY <1>3
                <5>2. <<>> \o s[k] = s[k]
                    BY <1>2, ConcatEmptySeq
                <5>3. h[k] = flatten[k]
                    BY <4>2
                <5> QED BY <1>3, <4>1, <4>2, <5>0, <5>1, <5>2, <5>3
            <4>3. CASE k # 1
                <5>1. h[k - 1] = flatten[k - 1] /\ h[k] = flatten[k]
                    BY <4>3
                <5>2. v[k] = v[k - 1] \o s[k]
                    BY <1>3
                <5> QED BY <3>5, <4>1, <4>3, <5>1, <5>2
            <4> QED BY <4>2, <4>3
        <3>6. v[0] = h[0]
            BY <1>3
        <3>7. \A k \in 0 .. n : v[k] = h[k]
            <4> HIDE DEF h
            <4>1. Inherited(v, h, n)
                BY <3>5 DEF Inherited
            <4>2. Agreement(v, h, n)
                BY ONLY <1>0, <3>6, <4>1, AgreeUpTo
            <4> QED BY ONLY <4>2 DEF Agreement
        <3>8. n \in 0 .. n
            OBVIOUS
        <3> QED BY <2>2, <3>4, <3>7, <3>8
    <2> QED BY <2>1, <2>2
<1> QED BY <1>n, <1>3, <1>8

\* One sequence more is behind the others.
LEMMA FlattenOfAppend ==
    ASSUME NEW X, NEW s \in Seq(Seq(X)), NEW e \in Seq(X)
    PROVE  FlattenSeq(s) \in Seq(X) /\ FlattenSeq(Append(s, e)) = FlattenSeq(s) \o e
<1> DEFINE t == Append(s, e)
<1>n. Len(s) \in Nat
    BY LenProperties
<1>m. PICK n \in Nat : n = Len(s)
    BY <1>n
<1>0. n \in Nat
    BY <1>m
<1>1. /\ t \in Seq(Seq(X)) /\ Len(t) = n + 1 /\ t[n + 1] = e
      /\ \A i \in 1 .. n : t[i] = s[i]
    BY <1>m, AppendProperties
<1> HIDE DEF t
<1>3. PICK g : /\ g[0] = <<>> /\ g[n] = FlattenSeq(s)
               /\ \A k \in 1 .. n : g[k] = g[k - 1] \o s[k]
               /\ \A k \in 0 .. n : g[k] \in Seq(X)
    BY <1>m, FlattenOfPrefixes
<1>t. t \in Seq(Seq(X))
    BY <1>1
<1>4. PICK h : /\ h[0] = <<>> /\ h[Len(t)] = FlattenSeq(t)
               /\ \A k \in 1 .. Len(t) : h[k] = h[k - 1] \o t[k]
               /\ \A k \in 0 .. Len(t) : h[k] \in Seq(X)
    BY ONLY <1>t, FlattenOfPrefixes
<1>5. ASSUME NEW k \in 1 .. n, g[k - 1] = h[k - 1] PROVE g[k] = h[k]
    <2>1. k \in 1 .. Len(t)
        BY <1>1
    <2> QED BY <1>1, <1>3, <1>4, <1>5, <2>1
<1>6. \A k \in 0 .. n : g[k] = h[k]
    <2>1. g[0] = h[0]
        BY <1>3, <1>4
    <2>2. Inherited(g, h, n)
        BY <1>5 DEF Inherited
    <2>3. Agreement(g, h, n)
        BY ONLY <1>0, <2>1, <2>2, AgreeUpTo
    <2> QED BY ONLY <2>3 DEF Agreement
<1>7. g[n] = h[n] /\ g[n] \in Seq(X)
    BY <1>3, <1>6
<1>8. h[Len(t)] = h[n] \o e
    <2>1. Len(t) \in 1 .. Len(t)
        BY <1>1
    <2>2. h[Len(t)] = h[Len(t) - 1] \o t[Len(t)]
        BY ONLY <1>4, <2>1
    <2>3. t[Len(t)] = e
        BY <1>1
    <2>4. Len(t) - 1 = n
        BY <1>0, <1>1
    <2>5. h[Len(t) - 1] = h[n]
        BY ONLY <2>4
    <2> QED BY ONLY <2>2, <2>3, <2>5
<1> QED BY <1>m, <1>3, <1>4, <1>7, <1>8 DEF t

-----------------------------------------------------------------------------
(***************************************************************************)
(* What bytes are parsed to.                                               *)
(***************************************************************************)

ParseState == [packets : Seq(Packets \cup {Garbled}), rest : Seq(Packets)]

Nothing == [packets |-> <<>>, rest |-> <<>>]

\* One byte more.
ParseByte(parsed, b) ==
    LET rest == Append(parsed.rest, b)
    IN  IF Len(rest) < Size[Head(rest)] THEN [parsed EXCEPT !.rest = rest]
        ELSE [packets |-> Append(parsed.packets, IF ToSet(rest) = {b} THEN b ELSE Garbled),
              rest |-> <<>>]

\* It keeps the shape of what is parsed.
LEMMA ParseByteType ==
    ASSUME NEW parsed \in ParseState, NEW b \in Packets
    PROVE  /\ ParseByte(parsed, b) \in ParseState
           /\ Append(parsed.rest, b) \in Seq(Packets)
<1> DEFINE rest == Append(parsed.rest, b)
           next == IF ToSet(rest) = {b} THEN b ELSE Garbled
<1>1. parsed.packets \in Seq(Packets \cup {Garbled}) /\ parsed.rest \in Seq(Packets)
    BY DEF ParseState
<1>2. rest \in Seq(Packets)
    BY <1>1, AppendProperties
<1>3. next \in Packets \cup {Garbled}
    OBVIOUS
<1> HIDE DEF next, rest
<1>4. Append(parsed.packets, next) \in Seq(Packets \cup {Garbled}) /\ <<>> \in Seq(Packets)
    BY <1>1, <1>3, AppendProperties, EmptySeq
<1>5. [packets |-> Append(parsed.packets, next), rest |-> <<>>] \in ParseState
    BY <1>4 DEF ParseState
<1>6. [parsed EXCEPT !.rest = rest] \in ParseState
    BY <1>2 DEF ParseState
<1>7. ParseByte(parsed, b) =
          IF Len(rest) < Size[Head(rest)] THEN [parsed EXCEPT !.rest = rest]
          ELSE [packets |-> Append(parsed.packets, next), rest |-> <<>>]
    BY DEF ParseByte, rest, next
<1> QED BY <1>2, <1>5, <1>6, <1>7 DEF rest

\* What the first k bytes are parsed to, for every k.
LEMMA ParsedOfPrefixes ==
    ASSUME NEW s \in Seq(Packets)
    PROVE  \E g : /\ g[0] = Nothing /\ g[Len(s)] = Parsed(s)
                  /\ \A k \in 1 .. Len(s) : g[k] = ParseByte(g[k - 1], s[k])
                  /\ \A k \in 0 .. Len(s) : g[k] \in ParseState
<1>1. Len(s) \in Nat
    BY LenProperties
<1>n. PICK n \in Nat : n = Len(s)
    BY <1>1
<1>0. n \in Nat
    BY <1>n
<1>2. DOMAIN s = 1 .. n /\ \A k \in 1 .. n : s[k] \in Packets
    BY <1>n, LenProperties, ElementOfSeq
<1> DEFINE step == [q \in (1 .. n) \X ParseState |-> ParseByte(q[2], s[q[1]])]
<1>3. ASSUME NEW k \in 1 .. n, NEW v \in ParseState
      PROVE  step[<<k, v>>] \in ParseState /\ step[<<k, v>>] = ParseByte(v, s[k])
    <2>1. ParseByte(v, s[k]) \in ParseState
        BY <1>2, ParseByteType
    <2> QED BY <2>1
<1>4. Nothing \in ParseState
    <2>1. <<>> \in Seq(Packets) /\ <<>> \in Seq(Packets \cup {Garbled})
        BY EmptySeq
    <2> QED BY <2>1 DEF Nothing, ParseState
<1>5. PICK f \in [SUBSET (1 .. n) -> ParseState] : \A T \in SUBSET (1 .. n) :
          f[T] = IF T = {} THEN Nothing ELSE step[<<Max(T), f[T \ {Max(T)}]>>]
    <2>1. \A k \in 1 .. n : \A v \in ParseState : step[<<k, v>>] \in ParseState
        BY <1>3
    <2>2. IndexFold(n, ParseState, Nothing, step)
        <3> HIDE DEF step
        <3> QED BY <1>0, <1>4, <2>1, IndexFoldExists
    <2> QED BY <2>2 DEF IndexFold
<1> HIDE DEF step
<1>6. ASSUME NEW T \in SUBSET (1 .. n)
      PROVE  f[T] = IF T = {} THEN Nothing ELSE ParseByte(f[T \ {Max(T)}], s[Max(T)])
    <2>1. T # {} => Max(T) \in 1 .. n
        BY <1>0, GreatestIndex
    <2>2. f[T \ {Max(T)}] \in ParseState
        OBVIOUS
    <2>3. f[T] = IF T = {} THEN Nothing ELSE step[<<Max(T), f[T \ {Max(T)}]>>]
        BY <1>5
    <2> QED BY <1>3, <2>1, <2>2, <2>3
<1>7. f = [T \in SUBSET (1 .. n) |->
              IF T = {} THEN Nothing ELSE ParseByte(f[T \ {Max(T)}], s[Max(T)])]
    BY <1>6
<1> DEFINE iter == CHOOSE h : h = [T \in SUBSET (1 .. n) |->
                       IF T = {} THEN Nothing ELSE ParseByte(h[T \ {Max(T)}], s[Max(T)])]
<1>8. iter = [T \in SUBSET (1 .. n) |->
                 IF T = {} THEN Nothing ELSE ParseByte(iter[T \ {Max(T)}], s[Max(T)])]
    BY <1>7
<1>9. Parsed(s) = iter[1 .. n]
    BY <1>2 DEF Parsed, FoldLeft, MapThenFoldSet, ParseByte, Nothing
<1> HIDE DEF iter
<1> DEFINE g == [k \in 0 .. n |-> iter[1 .. k]]
<1>10. g[0] = Nothing
    <2>1. {} \in SUBSET (1 .. n)
        OBVIOUS
    <2>2. iter[{}] = Nothing
        BY <1>8, <2>1
    <2>3. 1 .. 0 = {} /\ 0 \in 0 .. n
        BY <1>0
    <2> QED BY <2>2, <2>3
<1>11. ASSUME NEW k \in 1 .. n PROVE g[k] = ParseByte(g[k - 1], s[k])
    <2>1. 1 .. k \in SUBSET (1 .. n) /\ 1 .. k # {} /\ k \in 0 .. n /\ k - 1 \in 0 .. n
        BY ONLY <1>0, k \in 1 .. n, FirstNumbers
    <2>2. Max(1 .. k) = k /\ (1 .. k) \ {k} = 1 .. (k - 1)
        BY ONLY <1>0, k \in 1 .. n, FirstNumbers
    <2>3. iter[1 .. k] = ParseByte(iter[(1 .. k) \ {Max(1 .. k)}], s[Max(1 .. k)])
        BY <1>8, <2>1
    <2> QED BY <2>1, <2>2, <2>3
<1>12. g[n] = Parsed(s)
    BY <1>0, <1>9
<1> HIDE DEF g
<1>13. \A k \in 0 .. n : g[k] \in ParseState
    <2> DEFINE A == {k \in Nat : k <= n => g[k] \in ParseState}
    <2>1. 0 \in A
        BY <1>4, <1>10
    <2>2. ASSUME NEW k \in Nat, k \in A PROVE k + 1 \in A
        <3> SUFFICES ASSUME k + 1 <= n PROVE g[k + 1] \in ParseState
            OBVIOUS
        <3>1. g[k] \in ParseState /\ k + 1 \in 1 .. n /\ k + 1 - 1 = k
            BY <1>0, <2>2
        <3>2. g[k + 1] = ParseByte(g[k], s[k + 1])
            BY <1>11, <3>1
        <3> QED BY <1>2, <3>1, <3>2, ParseByteType
    <2>3. Nat \subseteq A
        <3> HIDE DEF A
        <3> QED BY <2>1, <2>2, NatSetInduction
    <2> QED BY <2>3
<1> QED BY <1>n, <1>10, <1>11, <1>12, <1>13

\* Of no bytes nothing is parsed.
LEMMA ParsedOfNone == Parsed(<<>>) = Nothing
<1>1. <<>> \in Seq(Packets) /\ Len(<<>>) = 0
    BY EmptySeq
<1>2. PICK g : g[0] = Nothing /\ g[Len(<<>>)] = Parsed(<<>>)
    BY <1>1, ParsedOfPrefixes
<1> QED BY <1>1, <1>2

\* A byte is parsed behind those before it.
LEMMA ParsedOfAppend ==
    ASSUME NEW s \in Seq(Packets), NEW b \in Packets
    PROVE  Parsed(s) \in ParseState /\ Parsed(Append(s, b)) = ParseByte(Parsed(s), b)
<1> DEFINE t == Append(s, b)
<1>n. Len(s) \in Nat
    BY LenProperties
<1>m. PICK n \in Nat : n = Len(s)
    BY <1>n
<1>0. n \in Nat
    BY <1>m
<1>1. /\ t \in Seq(Packets) /\ Len(t) = n + 1 /\ t[n + 1] = b
      /\ \A i \in 1 .. n : t[i] = s[i]
    BY <1>m, AppendProperties
<1> HIDE DEF t
<1>3. PICK g : /\ g[0] = Nothing /\ g[n] = Parsed(s)
               /\ \A k \in 1 .. n : g[k] = ParseByte(g[k - 1], s[k])
               /\ \A k \in 0 .. n : g[k] \in ParseState
    BY <1>m, ParsedOfPrefixes
<1>4. PICK h : /\ h[0] = Nothing /\ h[Len(t)] = Parsed(t)
               /\ \A k \in 1 .. Len(t) : h[k] = ParseByte(h[k - 1], t[k])
    BY ONLY <1>1, ParsedOfPrefixes
<1>5. ASSUME NEW k \in 1 .. n, g[k - 1] = h[k - 1] PROVE g[k] = h[k]
    <2>1. k \in 1 .. Len(t)
        BY <1>1
    <2> QED BY <1>1, <1>3, <1>4, <1>5, <2>1
<1>6. \A k \in 0 .. n : g[k] = h[k]
    <2>1. g[0] = h[0]
        BY <1>3, <1>4
    <2>2. Inherited(g, h, n)
        BY <1>5 DEF Inherited
    <2>3. Agreement(g, h, n)
        BY ONLY <1>0, <2>1, <2>2, AgreeUpTo
    <2> QED BY ONLY <2>3 DEF Agreement
<1>7. g[n] = h[n] /\ g[n] \in ParseState
    BY <1>3, <1>6
<1>8. h[Len(t)] = ParseByte(h[n], b)
    <2>1. Len(t) \in 1 .. Len(t)
        BY <1>1
    <2>2. h[Len(t)] = ParseByte(h[Len(t) - 1], t[Len(t)])
        BY ONLY <1>4, <2>1
    <2>3. t[Len(t)] = b
        BY <1>1
    <2>4. Len(t) - 1 = n
        BY <1>0, <1>1
    <2> QED BY ONLY <2>2, <2>3, <2>4
<1> QED BY <1>m, <1>3, <1>4, <1>7, <1>8 DEF t

-----------------------------------------------------------------------------
(***************************************************************************)
(* What the elements of a sequence are spread to.                          *)
(***************************************************************************)

Copies(x, k) == [b \in 1 .. k |-> x]

\* m maps the elements of D to sequences over X.
MapsTo(m, D, X) == m \in [D -> Seq(X)]

Mapped(m, s) == [i \in 1 .. Len(s) |-> m[s[i]]]

Spread(m, s) == FlattenSeq(Mapped(m, s))

\* A sequence of copies.
LEMMA CopiesSeq ==
    ASSUME NEW X, NEW x \in X, NEW k \in Nat
    PROVE  /\ Copies(x, k) \in Seq(X) /\ Len(Copies(x, k)) = k
           /\ \A b \in 1 .. k : Copies(x, k)[b] = x
<1>1. Copies(x, k) \in [1 .. k -> X]
    BY DEF Copies
<1>2. Copies(x, k) \in Seq(X)
    BY <1>1
<1>3. DOMAIN Copies(x, k) = 1 .. k
    BY DEF Copies
<1>4. Len(Copies(x, k)) = k
    BY <1>2, <1>3, LenProperties
<1> QED BY <1>2, <1>4 DEF Copies

\* Copies are put behind copies.
LEMMA CopiesOfSum ==
    ASSUME NEW X, NEW x \in X, NEW k \in Nat, NEW l \in Nat
    PROVE  Copies(x, k) \o Copies(x, l) = Copies(x, k + l)
<1> DEFINE a == Copies(x, k)
           b == Copies(x, l)
           c == Copies(x, k + l)
<1>1. k + l \in Nat
    OBVIOUS
<1>2. a \in Seq(X) /\ Len(a) = k /\ \A i \in 1 .. k : a[i] = x
    BY CopiesSeq
<1>3. b \in Seq(X) /\ Len(b) = l /\ \A i \in 1 .. l : b[i] = x
    BY CopiesSeq
<1>4. c \in Seq(X) /\ Len(c) = k + l /\ \A i \in 1 .. k + l : c[i] = x
    BY <1>1, CopiesSeq
<1> HIDE DEF a, b, c
<1>5. /\ a \o b \in Seq(X) /\ Len(a \o b) = k + l
      /\ \A i \in 1 .. k + l : (a \o b)[i] = IF i <= k THEN a[i] ELSE b[i - k]
    BY <1>2, <1>3, ConcatProperties
<1>6. ASSUME NEW i \in 1 .. k + l PROVE (a \o b)[i] = c[i]
    <2>1. i \in Int /\ i >= 1 /\ i <= k + l
        OBVIOUS
    <2>2. CASE i <= k
        <3>1. i \in 1 .. k
            BY <2>1, <2>2
        <3> QED BY <1>2, <1>4, <1>5, <2>2, <3>1
    <2>3. CASE ~(i <= k)
        <3>1. i - k \in 1 .. l
            BY <2>1, <2>3
        <3> QED BY <1>3, <1>4, <1>5, <2>3, <3>1
    <2> QED BY <2>2, <2>3
<1>7. a \o b = c
    <2>1. Len(a \o b) = Len(c) /\ \A i \in 1 .. Len(a \o b) : (a \o b)[i] = c[i]
        BY <1>4, <1>5, <1>6
    <2> QED BY ONLY <1>4, <1>5, <2>1, SeqEqual
<1> QED BY <1>7 DEF a, b, c

\* The sequences the elements are mapped to.
LEMMA MappedSeq ==
    ASSUME NEW D, NEW X, NEW m, MapsTo(m, D, X), NEW s \in Seq(D)
    PROVE  /\ Mapped(m, s) \in Seq(Seq(X)) /\ Len(Mapped(m, s)) = Len(s)
           /\ \A i \in 1 .. Len(s) : Mapped(m, s)[i] = m[s[i]]
<1>1. Len(s) \in Nat
    BY LenProperties
<1>2. \A i \in 1 .. Len(s) : s[i] \in D
    BY ElementOfSeq
<1>3. \A i \in 1 .. Len(s) : m[s[i]] \in Seq(X)
    BY <1>2 DEF MapsTo
<1>4. Mapped(m, s) \in [1 .. Len(s) -> Seq(X)]
    BY <1>3 DEF Mapped
<1>0. PICK t : t = Mapped(m, s)
    OBVIOUS
<1>5. PICK n \in Nat : n = Len(s)
    BY <1>1
<1>6. t \in [1 .. n -> Seq(X)]
    BY <1>0, <1>4, <1>5
<1>7. t \in Seq(Seq(X)) /\ DOMAIN t = 1 .. n
    BY <1>6
<1>8. Len(t) = n
    BY <1>7, LenProperties
<1> QED BY <1>0, <1>5, <1>7, <1>8 DEF Mapped

\* What a sequence is spread to.
LEMMA SpreadType ==
    ASSUME NEW D, NEW X, NEW m, MapsTo(m, D, X), NEW s \in Seq(D)
    PROVE  Spread(m, s) \in Seq(X)
<1>1. Mapped(m, s) \in Seq(Seq(X))
    BY MappedSeq
<1>2. PICK g : /\ g[Len(Mapped(m, s))] = FlattenSeq(Mapped(m, s))
               /\ \A k \in 0 .. Len(Mapped(m, s)) : g[k] \in Seq(X)
    BY <1>1, FlattenOfPrefixes
<1>3. Len(Mapped(m, s)) \in Nat
    BY <1>1, LenProperties
<1>4. Len(Mapped(m, s)) \in 0 .. Len(Mapped(m, s))
    BY <1>3
<1> QED BY <1>2, <1>4 DEF Spread

\* An element more is spread behind the others.
LEMMA SpreadOfAppend ==
    ASSUME NEW D, NEW X, NEW m, MapsTo(m, D, X), NEW s \in Seq(D), NEW e \in D
    PROVE  Spread(m, Append(s, e)) = Spread(m, s) \o m[e]
<1> DEFINE t == Append(s, e)
<1>1. Len(s) \in Nat
    BY LenProperties
<1>2. t \in Seq(D) /\ Len(t) = Len(s) + 1 /\ t[Len(s) + 1] = e
      /\ \A i \in 1 .. Len(s) : t[i] = s[i]
    BY AppendProperties
<1> HIDE DEF t
<1>3. /\ Mapped(m, s) \in Seq(Seq(X)) /\ Len(Mapped(m, s)) = Len(s)
      /\ \A i \in 1 .. Len(s) : Mapped(m, s)[i] = m[s[i]]
    BY MappedSeq
<1>4. /\ Mapped(m, t) \in Seq(Seq(X)) /\ Len(Mapped(m, t)) = Len(t)
      /\ \A i \in 1 .. Len(t) : Mapped(m, t)[i] = m[t[i]]
    BY <1>2, MappedSeq
<1>5. m[e] \in Seq(X)
    BY DEF MapsTo
<1>6. /\ Append(Mapped(m, s), m[e]) \in Seq(Seq(X))
      /\ Len(Append(Mapped(m, s), m[e])) = Len(s) + 1
      /\ \A i \in 1 .. Len(s) : Append(Mapped(m, s), m[e])[i] = Mapped(m, s)[i]
      /\ Append(Mapped(m, s), m[e])[Len(s) + 1] = m[e]
    BY ONLY <1>3, <1>5, AppendProperties
<1>7. PICK a, b : a = Mapped(m, t) /\ b = Append(Mapped(m, s), m[e])
    OBVIOUS
<1>8. PICK n \in Nat : n = Len(s)
    BY <1>1
<1>9. ASSUME NEW i \in 1 .. n + 1 PROVE a[i] = b[i]
    <2>1. CASE i = n + 1
        <3>1. i \in 1 .. Len(t)
            BY <1>2, <1>8
        <3>2. a[i] = m[t[i]]
            BY <1>4, <1>7, <3>1
        <3> QED BY <1>2, <1>6, <1>7, <1>8, <2>1, <3>2
    <2>2. CASE i # n + 1
        <3>1. i \in 1 .. n
            BY <1>8, <2>2
        <3>2. i \in 1 .. Len(t) /\ i \in 1 .. Len(s)
            BY <1>2, <1>8, <3>1
        <3>3. a[i] = m[t[i]] /\ t[i] = s[i]
            BY <1>2, <1>4, <1>7, <3>2
        <3>4. b[i] = m[s[i]]
            BY <1>3, <1>6, <1>7, <3>2
        <3> QED BY <3>3, <3>4
    <2> QED BY <2>1, <2>2
<1>10. a = b
    <2>1. a \in Seq(Seq(X)) /\ b \in Seq(Seq(X)) /\ Len(a) = n + 1 /\ Len(b) = n + 1
        BY <1>2, <1>4, <1>6, <1>7, <1>8
    <2>2. Len(a) = Len(b) /\ \A i \in 1 .. Len(a) : a[i] = b[i]
        BY <1>9, <2>1
    <2> QED BY ONLY <2>1, <2>2, SeqEqual
<1>11. /\ FlattenSeq(Mapped(m, s)) \in Seq(X)
       /\ FlattenSeq(Append(Mapped(m, s), m[e])) = FlattenSeq(Mapped(m, s)) \o m[e]
    BY ONLY <1>3, <1>5, FlattenOfAppend
<1> QED BY <1>7, <1>10, <1>11 DEF Spread, t

\* No elements are spread to nothing.
LEMMA SpreadOfNone ==
    ASSUME NEW D, NEW X, NEW m, MapsTo(m, D, X)
    PROVE  Spread(m, <<>>) = <<>>
<1>1. <<>> \in Seq(D) /\ Len(<<>>) = 0
    BY EmptySeq
<1>2. PICK nil : nil = <<>>
    OBVIOUS
<1>3. nil \in Seq(D)
    BY <1>1, <1>2
<1>4. Mapped(m, nil) \in Seq(Seq(X)) /\ Len(Mapped(m, nil)) = Len(nil)
    BY ONLY <1>3, MapsTo(m, D, X), MappedSeq
<1>5. Mapped(m, nil) = <<>>
    BY <1>1, <1>2, <1>4, EmptySeq
<1>6. FlattenSeq(<<>>) = <<>>
    BY <1>1 DEF FlattenSeq
<1> QED BY <1>2, <1>5, <1>6 DEF Spread

\* One is spread to what it is mapped to.
LEMMA SpreadOfOne ==
    ASSUME NEW D, NEW X, NEW m, MapsTo(m, D, X), NEW e \in D
    PROVE  Spread(m, <<e>>) = m[e]
<1>1. <<>> \in Seq(D) /\ m[e] \in Seq(X)
    BY EmptySeq DEF MapsTo
<1>2. Append(<<>>, e) = <<>> \o <<e>> /\ <<e>> \in Seq(D)
    BY <1>1, AppendIsConcat
<1>3. <<>> \o <<e>> = <<e>>
    BY <1>2, ConcatEmptySeq
<1>4. PICK nil : nil = <<>>
    OBVIOUS
<1>5. nil \in Seq(D)
    BY <1>1, <1>4
<1>6. Spread(m, Append(nil, e)) = Spread(m, nil) \o m[e]
    BY ONLY <1>5, e \in D, MapsTo(m, D, X), SpreadOfAppend
<1>7. Spread(m, nil) = <<>>
    BY ONLY <1>4, MapsTo(m, D, X), SpreadOfNone
<1>8. <<>> \o m[e] = m[e]
    BY <1>1, ConcatEmptySeq
<1> QED BY <1>2, <1>3, <1>4, <1>6, <1>7, <1>8

\* The elements of two sequences are spread one behind the other.
LEMMA SpreadOfConcat ==
    ASSUME NEW D, NEW X, NEW m, MapsTo(m, D, X), NEW s \in Seq(D), NEW t \in Seq(D)
    PROVE  /\ Spread(m, s \o t) = Spread(m, s) \o Spread(m, t)
           /\ Spread(m, s) \in Seq(X) /\ Spread(m, t) \in Seq(X)
<1>1. ASSUME NEW r \in Seq(D) PROVE Spread(m, r) \in Seq(X)
    BY SpreadType
<1> DEFINE A == {k \in Nat : \A r \in Seq(D) : Len(r) = k =>
                     Spread(m, s \o r) = Spread(m, s) \o Spread(m, r)}
<1>2. 0 \in A
    <2>1. ASSUME NEW r \in Seq(D), Len(r) = 0
          PROVE  Spread(m, s \o r) = Spread(m, s) \o Spread(m, r)
        <3>1. r = <<>>
            BY <2>1, EmptySeq
        <3>2. s \o r = s
            BY <3>1, ConcatEmptySeq
        <3>5. Spread(m, r) = <<>>
            BY ONLY <3>1, MapsTo(m, D, X), SpreadOfNone
        <3>6. Spread(m, s) \o <<>> = Spread(m, s)
            BY <1>1, ConcatEmptySeq
        <3> QED BY <3>2, <3>5, <3>6
    <2> QED BY <2>1
<1>3. ASSUME NEW k \in Nat, k \in A PROVE k + 1 \in A
    <2>1. ASSUME NEW r \in Seq(D), Len(r) = k + 1
          PROVE  Spread(m, s \o r) = Spread(m, s) \o Spread(m, r)
        <3>1. r # <<>>
            BY <2>1, EmptySeq
        <3> PICK front \in Seq(D), e \in D : r = Append(front, e)
            BY <3>1, SequenceEmptyOrAppend
        <3>2. Len(front) \in Nat /\ Len(r) = Len(front) + 1
            BY LenProperties, AppendProperties
        <3>3. Len(front) = k
            BY <2>1, <3>2
        <3>4. Spread(m, s \o front) = Spread(m, s) \o Spread(m, front)
            BY <1>3, <3>3
        <3>5. s \o front \in Seq(D) /\ s \o r = Append(s \o front, e)
            <4>1. r = front \o <<e>> /\ <<e>> \in Seq(D)
                BY AppendIsConcat
            <4>2. s \o front \in Seq(D)
                BY ConcatProperties
            <4>3. s \o r = (s \o front) \o <<e>>
                <5>1. Regrouped(s, front, <<e>>)
                    BY <4>1, Regroup
                <5> QED BY <4>1, <5>1 DEF Regrouped
            <4> QED BY <4>2, <4>3, AppendIsConcat
        <3>6. Spread(m, Append(s \o front, e)) = Spread(m, s \o front) \o m[e]
            <4>1. PICK sf : sf = s \o front
                OBVIOUS
            <4>2. sf \in Seq(D)
                BY <3>5, <4>1
            <4>3. Spread(m, Append(sf, e)) = Spread(m, sf) \o m[e]
                BY ONLY <4>2, e \in D, MapsTo(m, D, X), SpreadOfAppend
            <4> QED BY <4>1, <4>3
        <3>7. Spread(m, Append(front, e)) = Spread(m, front) \o m[e]
            BY ONLY front \in Seq(D), e \in D, MapsTo(m, D, X), SpreadOfAppend
        <3>8. m[e] \in Seq(X) /\ Spread(m, s) \in Seq(X) /\ Spread(m, front) \in Seq(X)
            BY <1>1 DEF MapsTo
        <3>9. PICK a, b, c : a = Spread(m, s) /\ b = Spread(m, front) /\ c = m[e]
            OBVIOUS
        <3>10. a \in Seq(X) /\ b \in Seq(X) /\ c \in Seq(X)
            BY <3>8, <3>9
        <3>11. (a \o b) \o c = a \o (b \o c)
            <4>1. Regrouped(a, b, c)
                BY ONLY <3>10, Regroup
            <4> QED BY ONLY <4>1 DEF Regrouped
        <3> QED BY <3>4, <3>5, <3>6, <3>7, <3>9, <3>11
    <2>2. k + 1 \in Nat
        OBVIOUS
    <2> QED BY <2>1, <2>2
<1>4. Nat \subseteq A
    <2> HIDE DEF A
    <2> QED BY <1>2, <1>3, NatSetInduction
<1>5. Len(t) \in Nat
    BY LenProperties
<1> QED BY <1>1, <1>4, <1>5

\* The part of the first element comes first.
LEMMA SpreadOfHead ==
    ASSUME NEW D, NEW X, NEW m, MapsTo(m, D, X), NEW s \in Seq(D), s # <<>>
    PROVE  /\ Spread(m, s) = m[Head(s)] \o Spread(m, Tail(s))
           /\ Head(s) \in D /\ m[Head(s)] \in Seq(X)
           /\ Tail(s) \in Seq(D) /\ Spread(m, Tail(s)) \in Seq(X)
<1>1. Head(s) \in D /\ Tail(s) \in Seq(D)
    BY HeadTailProperties
<1>2. m[Head(s)] \in Seq(X)
    BY <1>1 DEF MapsTo
<1>3. s = <<Head(s)>> \o Tail(s) /\ <<Head(s)>> \in Seq(D)
    <2>1. Len(s) \in Nat /\ Len(s) # 0
        BY LenProperties, EmptySeq
    <2>2. 1 \in 1 .. Len(s) /\ Len(s) \in 1 .. Len(s)
        BY <2>1
    <2>3. SubSeq(s, 1, Len(s)) = <<s[1]>> \o SubSeq(s, 1 + 1, Len(s))
        BY ONLY <2>2, s \in Seq(D), SubSeqRecursiveFirst
    <2>4. SubSeq(s, 1, Len(s)) = s
        BY SubSeqFull
    <2>5. Tail(s) = SubSeq(s, 2, Len(s))
        BY TailIsSubSeq
    <2>6. Head(s) = s[1]
        OBVIOUS
    <2>7. <<Head(s)>> \in Seq(D)
        BY <1>1
    <2> QED BY <2>3, <2>4, <2>5, <2>6, <2>7
<1>4. Spread(m, <<Head(s)>> \o Tail(s)) = Spread(m, <<Head(s)>>) \o Spread(m, Tail(s))
    <2>1. PICK a, b : a = <<Head(s)>> /\ b = Tail(s)
        OBVIOUS
    <2>2. a \in Seq(D) /\ b \in Seq(D)
        BY <1>1, <1>3, <2>1
    <2>3. Spread(m, a \o b) = Spread(m, a) \o Spread(m, b)
        BY ONLY <2>2, MapsTo(m, D, X), SpreadOfConcat
    <2> QED BY <2>1, <2>3
<1>5. Spread(m, <<Head(s)>>) = m[Head(s)] /\ Spread(m, Tail(s)) \in Seq(X)
    BY ONLY <1>1, MapsTo(m, D, X), SpreadOfOne, SpreadType
<1> QED BY <1>1, <1>2, <1>3, <1>4, <1>5

-----------------------------------------------------------------------------
(***************************************************************************)
(* The weight of a set of priorities: the frames a round gives them and    *)
(* one more of each.                                                       *)
(***************************************************************************)

Weight(S) == MapThenSumSet(LAMBDA q : Distribution[q] + 1, S)

AnyOf(T) == CHOOSE x \in T : TRUE

\* f sums the weights of the subsets of S, an element at a time.
Sums(f, S) ==
    \A T \in SUBSET S :
        f[T] = IF T = {} THEN 0 ELSE Distribution[AnyOf(T)] + 1 + f[T \ {AnyOf(T)}]

\* There are as many priorities as PriorityCount says.
LEMMA PrioritiesFinite ==
    /\ IsFiniteSet(Priorities)
    /\ \A S \in SUBSET Priorities : IsFiniteSet(S) /\ Cardinality(S) \in Nat
<1>1. 0 \in Int /\ PriorityCount - 1 \in Int
    BY DistributionAssumption DEF DistributionAssumption
<1>2. IsFiniteSet(0 .. (PriorityCount - 1))
    BY <1>1, FS_Interval
<1>3. IsFiniteSet(Priorities)
    BY <1>2 DEF Priorities
<1>4. \A S \in SUBSET Priorities : IsFiniteSet(S)
    BY <1>3, FS_Subset
<1>5. \A S \in SUBSET Priorities : Cardinality(S) \in Nat
    BY <1>4, FS_CardinalityType
<1> QED BY <1>3, <1>4, <1>5

\* A weight is a number.
LEMMA WeightOfOne ==
    ASSUME NEW x \in Priorities
    PROVE  Distribution[x] \in Nat /\ Distribution[x] > 0
BY DistributionAssumption DEF DistributionAssumption

\* A set has one element fewer than with an element of it.
LEMMA OneFewer ==
    ASSUME NEW T \in SUBSET Priorities, NEW x \in T
    PROVE  /\ Cardinality(T \ {x}) \in Nat /\ Cardinality(T) \in Nat
           /\ Cardinality(T \ {x}) + 1 = Cardinality(T)
<1>1. IsFiniteSet(T) /\ Cardinality(T) \in Nat
    BY PrioritiesFinite
<1>2. Cardinality(T \ {x}) = Cardinality(T) - 1
    BY <1>1, FS_RemoveElement
<1>3. T \ {x} \in SUBSET Priorities
    OBVIOUS
<1>4. Cardinality(T \ {x}) \in Nat
    BY <1>3, PrioritiesFinite
<1> QED BY <1>1, <1>2, <1>4

\* The sums of the subsets of a set are numbers.
LEMMA SumsAreNumbers ==
    ASSUME NEW S \in SUBSET Priorities, NEW f, Sums(f, S)
    PROVE  \A T \in SUBSET S : f[T] \in Nat
<1> DEFINE A == {k \in Nat : \A T \in SUBSET S : Cardinality(T) = k => f[T] \in Nat}
<1>1. 0 \in A
    <2>1. ASSUME NEW T \in SUBSET S, Cardinality(T) = 0 PROVE f[T] \in Nat
        <3>1. T = {}
            BY <2>1, PrioritiesFinite, FS_EmptySet
        <3>2. f[T] = 0
            BY <3>1 DEF Sums
        <3> QED BY <3>2
    <2> QED BY <2>1
<1>2. ASSUME NEW k \in Nat, k \in A PROVE k + 1 \in A
    <2>1. ASSUME NEW T \in SUBSET S, Cardinality(T) = k + 1 PROVE f[T] \in Nat
        <3>1. T # {}
            BY <2>1, FS_EmptySet
        <3>2. AnyOf(T) \in T
            BY <3>1 DEF AnyOf
        <3>3. Cardinality(T \ {AnyOf(T)}) = k
            BY <2>1, <3>2, OneFewer
        <3>4. f[T \ {AnyOf(T)}] \in Nat
            BY <1>2, <3>3
        <3>5. Distribution[AnyOf(T)] \in Nat
            BY <3>2, WeightOfOne
        <3>6. f[T] = Distribution[AnyOf(T)] + 1 + f[T \ {AnyOf(T)}]
            BY <3>1 DEF Sums
        <3> QED BY <3>4, <3>5, <3>6
    <2> QED BY <2>1
<1>3. Nat \subseteq A
    <2> HIDE DEF A
    <2> QED BY <1>1, <1>2, NatSetInduction
<1> QED BY <1>3, PrioritiesFinite

\* The sums over two sets agree on what is a subset of both.
LEMMA SumsAgree ==
    ASSUME NEW S \in SUBSET Priorities, NEW f, Sums(f, S),
           NEW R \in SUBSET Priorities, NEW g, Sums(g, R)
    PROVE  \A T \in SUBSET (S \cap R) : f[T] = g[T]
<1> DEFINE A == {k \in Nat : \A T \in SUBSET (S \cap R) : Cardinality(T) = k => f[T] = g[T]}
<1>1. 0 \in A
    <2>1. ASSUME NEW T \in SUBSET (S \cap R), Cardinality(T) = 0 PROVE f[T] = g[T]
        <3>1. T = {}
            BY <2>1, PrioritiesFinite, FS_EmptySet
        <3> QED BY <3>1 DEF Sums
    <2> QED BY <2>1
<1>2. ASSUME NEW k \in Nat, k \in A PROVE k + 1 \in A
    <2>1. ASSUME NEW T \in SUBSET (S \cap R), Cardinality(T) = k + 1 PROVE f[T] = g[T]
        <3>1. T # {}
            BY <2>1, FS_EmptySet
        <3>2. AnyOf(T) \in T
            BY <3>1 DEF AnyOf
        <3>3. Cardinality(T \ {AnyOf(T)}) = k
            BY <2>1, <3>2, OneFewer
        <3>4. f[T \ {AnyOf(T)}] = g[T \ {AnyOf(T)}]
            BY <1>2, <3>3
        <3>5. /\ f[T] = Distribution[AnyOf(T)] + 1 + f[T \ {AnyOf(T)}]
              /\ g[T] = Distribution[AnyOf(T)] + 1 + g[T \ {AnyOf(T)}]
            BY <3>1 DEF Sums
        <3> QED BY <3>4, <3>5
    <2> QED BY <2>1
<1>3. Nat \subseteq A
    <2> HIDE DEF A
    <2> QED BY <1>1, <1>2, NatSetInduction
<1> QED BY <1>3, PrioritiesFinite

\* A sum does not depend on which element is taken first.
LEMMA SumsInAnyOrder ==
    ASSUME NEW S \in SUBSET Priorities, NEW f, Sums(f, S)
    PROVE  \A T \in SUBSET S : \A x \in T : f[T] = Distribution[x] + 1 + f[T \ {x}]
<1> DEFINE A == {k \in Nat : \A T \in SUBSET S : Cardinality(T) = k =>
                     \A x \in T : f[T] = Distribution[x] + 1 + f[T \ {x}]}
<1>1. 0 \in A
    <2>1. ASSUME NEW T \in SUBSET S, Cardinality(T) = 0 PROVE T = {}
        BY <2>1, PrioritiesFinite, FS_EmptySet
    <2> QED BY <2>1
<1>2. ASSUME NEW k \in Nat, k \in A PROVE k + 1 \in A
    <2>1. ASSUME NEW T \in SUBSET S, Cardinality(T) = k + 1, NEW x \in T
          PROVE  f[T] = Distribution[x] + 1 + f[T \ {x}]
        <3> PICK c : c = AnyOf(T)
            OBVIOUS
        <3>1. c \in T
            BY DEF AnyOf
        <3>2. f[T] = Distribution[c] + 1 + f[T \ {c}]
            BY <3>1 DEF Sums
        <3>3. CASE x = c
            BY <3>2, <3>3
        <3>4. CASE x # c
            <4>1. /\ T \ {c} \in SUBSET S /\ x \in T \ {c} /\ (T \ {c}) \ {x} = (T \ {x}) \ {c}
                  /\ T \ {x} \in SUBSET S /\ c \in T \ {x}
                BY <3>1, <3>4
            <4>2. Cardinality(T \ {c}) = k /\ Cardinality(T \ {x}) = k
                BY <2>1, <3>1, OneFewer
            <4>3. f[T \ {c}] = Distribution[x] + 1 + f[(T \ {c}) \ {x}]
                BY <1>2, <4>1, <4>2
            <4>4. f[T \ {x}] = Distribution[c] + 1 + f[(T \ {x}) \ {c}]
                BY <1>2, <4>1, <4>2
            <4>5. f[(T \ {x}) \ {c}] \in Nat
                <5>1. (T \ {x}) \ {c} \in SUBSET S
                    OBVIOUS
                <5> QED BY <5>1, SumsAreNumbers
            <4>6. Distribution[x] \in Nat /\ Distribution[c] \in Nat
                BY <3>1, WeightOfOne
            <4>7. PICK rest : rest = f[(T \ {x}) \ {c}]
                OBVIOUS
            <4>8. /\ rest \in Nat /\ f[T \ {c}] = Distribution[x] + 1 + rest
                  /\ f[T \ {x}] = Distribution[c] + 1 + rest
                BY <4>1, <4>3, <4>4, <4>5, <4>7
            <4> QED BY <3>2, <4>6, <4>8
        <3> QED BY <3>3, <3>4
    <2> QED BY <2>1
<1>3. Nat \subseteq A
    <2> HIDE DEF A
    <2> QED BY <1>1, <1>2, NatSetInduction
<1> QED BY <1>3, PrioritiesFinite

\* The weight of a set is its sum.
LEMMA WeightIsSum ==
    ASSUME NEW S \in SUBSET Priorities
    PROVE  \E f : Sums(f, S) /\ Weight(S) = f[S]
<1> DEFINE taken == [T \in SUBSET S |-> AnyOf(T)]
           step == [q \in (SUBSET S) \X Nat |-> Distribution[AnyOf(q[1])] + 1 + q[2]]
           iter == CHOOSE h : h = [T \in SUBSET S |->
                       IF T = {} THEN 0 ELSE Distribution[AnyOf(T)] + 1 + h[T \ {AnyOf(T)}]]
<1>1. \A T \in SUBSET S : T # {} => AnyOf(T) \in T /\ Distribution[AnyOf(T)] \in Nat
    <2>1. \A T \in SUBSET S : T # {} => AnyOf(T) \in T
        BY DEF AnyOf
    <2> QED BY <2>1, WeightOfOne
<1>2. \A T \in SUBSET S : \A v \in Nat : T # {} =>
          step[<<T, v>>] \in Nat /\ step[<<T, v>>] = Distribution[AnyOf(T)] + 1 + v
    BY <1>1
<1>3. SetFold(S, Nat, 0, taken, step)
    <2>1. \A T \in SUBSET S : T # {} => taken[T] \in T
        BY <1>1
    <2>2. \A T \in SUBSET S : \A v \in Nat : T # {} => step[<<T, v>>] \in Nat
        BY <1>2
    <2>3. IsFiniteSet(S) /\ 0 \in Nat
        BY PrioritiesFinite
    <2> HIDE DEF taken, step
    <2> QED BY <2>1, <2>2, <2>3, FoldExists
<1>4. PICK f \in [SUBSET S -> Nat] : \A T \in SUBSET S :
          f[T] = IF T = {} THEN 0 ELSE step[<<T, f[T \ {taken[T]}]>>]
    BY <1>3 DEF SetFold
<1>5. ASSUME NEW T \in SUBSET S
      PROVE  f[T] = IF T = {} THEN 0 ELSE Distribution[AnyOf(T)] + 1 + f[T \ {AnyOf(T)}]
    <2>1. taken[T] = AnyOf(T)
        OBVIOUS
    <2>2. f[T \ {AnyOf(T)}] \in Nat
        OBVIOUS
    <2>3. f[T] = IF T = {} THEN 0 ELSE step[<<T, f[T \ {taken[T]}]>>]
        BY <1>4
    <2> HIDE DEF taken, step
    <2> QED BY <1>2, <2>1, <2>2, <2>3
<1>6. f = [T \in SUBSET S |-> IF T = {} THEN 0 ELSE Distribution[AnyOf(T)] + 1 + f[T \ {AnyOf(T)}]]
    BY <1>5
<1>7. iter = [T \in SUBSET S |->
                 IF T = {} THEN 0 ELSE Distribution[AnyOf(T)] + 1 + iter[T \ {AnyOf(T)}]]
    <2> HIDE DEF taken, step
    <2> QED BY <1>6
<1>8. Weight(S) = iter[S]
    BY DEF Weight, MapThenSumSet, MapThenFoldSet, AnyOf
<1> HIDE DEF iter
<1>9. Sums(iter, S)
    BY <1>7 DEF Sums
<1> QED BY <1>8, <1>9

\* An element of a set adds its weight to that of the others.
LEMMA WeightOfElement ==
    ASSUME NEW S \in SUBSET Priorities, NEW x \in S
    PROVE  /\ Weight(S) = Weight(S \ {x}) + Distribution[x] + 1
           /\ Weight(S) \in Nat /\ Weight(S \ {x}) \in Nat /\ Distribution[x] \in Nat
<1>1. PICK f : Sums(f, S) /\ Weight(S) = f[S]
    BY WeightIsSum
<1>2. S \ {x} \in SUBSET Priorities /\ S \ {x} \in SUBSET (S \cap (S \ {x})) /\ S \ {x} \in SUBSET S
    OBVIOUS
<1>3. PICK g : Sums(g, S \ {x}) /\ Weight(S \ {x}) = g[S \ {x}]
    BY <1>2, WeightIsSum
<1>4. f[S \ {x}] = g[S \ {x}]
    BY <1>1, <1>2, <1>3, SumsAgree
<1>5. f[S] = Distribution[x] + 1 + f[S \ {x}]
    BY <1>1, SumsInAnyOrder
<1>6. f[S \ {x}] \in Nat /\ f[S] \in Nat
    BY <1>1, <1>2, SumsAreNumbers
<1>7. Distribution[x] \in Nat
    BY WeightOfOne
<1> QED BY <1>1, <1>3, <1>4, <1>5, <1>6, <1>7

\* A weight is a number, and no less than that of a subset.
LEMMA WeightOfSubset ==
    ASSUME NEW S \in SUBSET Priorities, NEW T \in SUBSET S
    PROVE  Weight(T) <= Weight(S) /\ Weight(T) \in Nat /\ Weight(S) \in Nat
<1>0. ASSUME NEW R \in SUBSET Priorities PROVE Weight(R) \in Nat
    <2>1. PICK f : Sums(f, R) /\ Weight(R) = f[R]
        BY WeightIsSum
    <2> QED BY <2>1, SumsAreNumbers
<1> DEFINE A == {k \in Nat : \A R \in SUBSET S : Cardinality(R) = k /\ T \subseteq R =>
                     Weight(T) <= Weight(R)}
<1>1. 0 \in A
    <2>1. ASSUME NEW R \in SUBSET S, Cardinality(R) = 0, T \subseteq R
          PROVE  Weight(T) <= Weight(R)
        <3>1. R = {}
            BY <2>1, PrioritiesFinite, FS_EmptySet
        <3>2. T = R
            BY <2>1, <3>1
        <3> QED BY <1>0, <3>2
    <2> QED BY <2>1
<1>2. ASSUME NEW k \in Nat, k \in A PROVE k + 1 \in A
    <2>1. ASSUME NEW R \in SUBSET S, Cardinality(R) = k + 1, T \subseteq R
          PROVE  Weight(T) <= Weight(R)
        <3>1. CASE T = R
            BY <1>0, <3>1
        <3>2. CASE T # R
            <4> PICK x \in R : x \notin T
                BY <2>1, <3>2
            <4>1. Cardinality(R \ {x}) = k /\ R \ {x} \in SUBSET S /\ T \subseteq R \ {x}
                BY <2>1, OneFewer
            <4>2. Weight(T) <= Weight(R \ {x})
                BY <1>2, <4>1
            <4>3. /\ Weight(R) = Weight(R \ {x}) + Distribution[x] + 1
                  /\ Weight(R) \in Nat /\ Weight(R \ {x}) \in Nat /\ Distribution[x] \in Nat
                BY WeightOfElement
            <4>4. Weight(T) \in Nat
                BY <1>0
            <4> QED BY <4>2, <4>3, <4>4
        <3> QED BY <3>1, <3>2
    <2> QED BY <2>1
<1>3. Nat \subseteq A
    <2> HIDE DEF A
    <2> QED BY <1>1, <1>2, NatSetInduction
<1>4. Cardinality(S) \in Nat
    BY PrioritiesFinite
<1> QED BY <1>0, <1>3, <1>4

-----------------------------------------------------------------------------
(***************************************************************************)
(* Sizes and rates.                                                        *)
(***************************************************************************)

\* The lesser and the greater of two numbers.
LEMMA LeastOfTwo ==
    ASSUME NEW a \in Nat, NEW b \in Nat
    PROVE  Min({a, b}) = IF a <= b THEN a ELSE b
<1>1. {a, b} \subseteq Nat /\ {a, b} # {}
    OBVIOUS
<1>2. Min({a, b}) \in {a, b} /\ \A x \in {a, b} : Min({a, b}) <= x
    BY <1>1, LeastOf
<1> QED BY <1>2

LEMMA GreatestOfTwo ==
    ASSUME NEW a \in Nat, NEW b \in Nat
    PROVE  Max({a, b}) = IF a <= b THEN b ELSE a
<1>1. {a, b} \subseteq Nat /\ {a, b} # {} /\ a + b \in Nat /\ \A x \in {a, b} : x <= a + b
    OBVIOUS
<1>2. Max({a, b}) \in {a, b} /\ \A x \in {a, b} : Max({a, b}) >= x
    BY <1>1, GreatestOf
<1> QED BY <1>2

\* No frame is larger than the largest.
LEMMA LargestFrame ==
    /\ Max(FrameSizes) \in Nat
    /\ \A f \in FrameSizes : f \in Nat /\ f > EmptyFrame /\ f <= Max(FrameSizes)
    /\ EmptyFrame \in Nat /\ EmptyFrame > 0
<1>1. FrameSizes \subseteq Nat /\ IsFiniteSet(FrameSizes) /\ FrameSizes # {}
    BY StreamAssumption DEF StreamAssumption
<1>2. PICK bound \in Nat : \A x \in FrameSizes : x <= bound
    BY <1>1, FiniteHasBound
<1>3. Max(FrameSizes) \in FrameSizes /\ \A x \in FrameSizes : Max(FrameSizes) >= x
    BY <1>1, <1>2, GreatestOf
<1>4. \A f \in FrameSizes : f \in Nat /\ f > EmptyFrame /\ f <= Max(FrameSizes)
    BY <1>1, <1>3, StreamAssumption DEF StreamAssumption
<1>5. EmptyFrame \in Nat /\ EmptyFrame > 0
    BY StreamAssumption DEF StreamAssumption
<1>6. Max(FrameSizes) \in Nat
    BY <1>1, <1>3
<1> QED BY <1>4, <1>5, <1>6

\* A slower rate is a rate.
LEMMA RateStays ==
    ASSUME rate \in 1 .. RateLimit
    PROVE  RateNow \in 1 .. RateLimit /\ RateNow <= rate
<1>1. rate \in Nat /\ rate >= 1 /\ rate <= RateLimit /\ RateLimit \in Nat
    BY StreamAssumption DEF StreamAssumption
<1>2. SlowerRate \in Nat /\ SlowerRate >= 1 /\ SlowerRate <= rate
    <2>1. rate >= 1024 * 1024 * 1024 => rate \div 10 \in Nat /\ rate \div 10 >= 1 /\ rate \div 10 <= rate
        BY <1>1
    <2>2. rate >= 1024 * 1024 => (rate * 2) \div 3 \in Nat /\ (rate * 2) \div 3 >= 1 /\ (rate * 2) \div 3 <= rate
        BY <1>1
    <2>3. rate >= 1024 => (rate * 10) \div 11 \in Nat /\ (rate * 10) \div 11 >= 1 /\ (rate * 10) \div 11 <= rate
        BY <1>1
    <2>4. rate > 2 => (rate * 100) \div 101 \in Nat /\ (rate * 100) \div 101 >= 1 /\ (rate * 100) \div 101 <= rate
        BY <1>1
    <2> QED BY <1>1, <2>1, <2>2, <2>3, <2>4 DEF SlowerRate
<1> QED BY <1>1, <1>2 DEF RateNow

\* The size a frame may have is no larger than max_frame_size, and without a limit or
\* with a new second or with something left of the limit it is not zero.
LEMMA SizeFits ==
    ASSUME maxFrame \in FrameSizes, rate \in 1 .. RateLimit, recent \in Nat, NEW over
    PROVE  /\ Tuned(over) \in Nat /\ Tuned(over) <= maxFrame
           /\ Tuned(over) > 0 /\ Throttling # "unlimited" /\ ~over => recent < RateNow
           /\ maxFrame \in Nat /\ maxFrame <= Max(FrameSizes)
           /\ Tuned(over) \in {0, maxFrame, Min({maxFrame, RateNow})}
<1>1. maxFrame \in Nat /\ maxFrame <= Max(FrameSizes)
    BY LargestFrame
<1>2. RateNow \in Nat
    BY RateStays
<1>3. Min({maxFrame, RateNow}) = IF maxFrame <= RateNow THEN maxFrame ELSE RateNow
    BY <1>1, <1>2, LeastOfTwo
<1>4. recent < RateNow => Max({Min({maxFrame, RateNow - recent}), maxFrame}) = maxFrame
    <2> HAVE recent < RateNow
    <2>1. RateNow - recent \in Nat
        BY <1>2
    <2> PICK left \in Nat : left = RateNow - recent
        BY <2>1
    <2>2. Min({maxFrame, left}) = IF maxFrame <= left THEN maxFrame ELSE left
        BY <1>1, LeastOfTwo
    <2> PICK less \in Nat : less = Min({maxFrame, left})
        BY <1>1, <2>2
    <2>3. less <= maxFrame
        BY <1>1, <2>2
    <2>4. Max({less, maxFrame}) = IF less <= maxFrame THEN maxFrame ELSE less
        BY <1>1, GreatestOfTwo
    <2> QED BY <2>3, <2>4
<1> QED BY <1>1, <1>2, <1>3, <1>4 DEF Tuned

-----------------------------------------------------------------------------
(***************************************************************************)
(* The round of the priorities.                                            *)
(***************************************************************************)

Distance(a, b) == (b - a) % PriorityCount

\* How far it is from one priority to another.
LEMMA DistanceIs ==
    ASSUME NEW a \in Priorities, NEW b \in Priorities
    PROVE  /\ Distance(a, b) = IF a <= b THEN b - a ELSE b - a + PriorityCount
           /\ Distance(a, b) \in Nat /\ Distance(a, b) < PriorityCount
           /\ a \in Nat /\ b \in Nat /\ a < PriorityCount /\ b < PriorityCount
<1>1. PriorityCount \in Nat /\ PriorityCount > 0
    BY DistributionAssumption DEF DistributionAssumption
<1>2. a \in Nat /\ b \in Nat /\ a < PriorityCount /\ b < PriorityCount
    BY <1>1 DEF Priorities
<1>3. a <= b => (b - a) % PriorityCount = b - a
    BY <1>1, <1>2
<1>4. ~(a <= b) => (b - a) % PriorityCount = b - a + PriorityCount
    BY <1>1, <1>2
<1> QED BY <1>1, <1>2, <1>3, <1>4 DEF Distance

\* The priority that follows.
LEMMA FollowingIs ==
    ASSUME NEW a \in Priorities
    PROVE  /\ Following(a) = IF a + 1 = PriorityCount THEN 0 ELSE a + 1
           /\ Following(a) \in Priorities
<1>1. PriorityCount \in Nat /\ PriorityCount > 0
    BY DistributionAssumption DEF DistributionAssumption
<1>2. a \in Nat /\ a < PriorityCount
    BY <1>1 DEF Priorities
<1>3. a + 1 # PriorityCount => (a + 1) % PriorityCount = a + 1
    BY <1>1, <1>2
<1>4. a + 1 = PriorityCount => (a + 1) % PriorityCount = 0
    <2> HAVE a + 1 = PriorityCount
    <2>1. PriorityCount % PriorityCount = 0
        BY <1>1
    <2> QED BY <2>1
<1>5. Following(a) = IF a + 1 = PriorityCount THEN 0 ELSE a + 1
    BY <1>3, <1>4 DEF Following
<1> QED BY <1>1, <1>2, <1>5 DEF Priorities

\* The turn is one of a priority, and it has not had more than its frames.
TurnFits(t) ==
    /\ t.priority \in Priorities /\ t.counter \in Nat
    /\ t.counter <= Distribution[t.priority]

LEMMA NextTurnFits ==
    ASSUME turn \in PriorityTracker, TurnFits(turn)
    PROVE  /\ TurnFits(NextTurn(turn)) /\ NextTurn(turn) \in PriorityTracker
           /\ \/ /\ NextTurn(turn).priority = turn.priority
                 /\ NextTurn(turn).counter = turn.counter + 1
              \/ /\ NextTurn(turn).priority = Following(turn.priority)
                 /\ NextTurn(turn).counter = 1
<1> DEFINE c == turn.priority
           k == turn.counter
<1>1. c \in Priorities /\ k \in Nat /\ k <= Distribution[c] /\ turn = [priority |-> c, counter |-> k]
    BY DEF TurnFits, PriorityTracker
<1>2. Distribution[c] \in Nat
    BY <1>1, WeightOfOne
<1>3. CASE k = Distribution[c]
    <2>1. NextTurn(turn) = [priority |-> Following(c), counter |-> 1]
        BY <1>3 DEF NextTurn
    <2>2. Following(c) \in Priorities
        BY <1>1, FollowingIs
    <2>3. Distribution[Following(c)] \in Nat /\ Distribution[Following(c)] > 0
        BY <2>2, WeightOfOne
    <2> QED BY <2>1, <2>2, <2>3 DEF TurnFits, PriorityTracker
<1>4. CASE k # Distribution[c]
    <2>1. NextTurn(turn) = [turn EXCEPT !.counter = @ + 1]
        BY <1>4 DEF NextTurn
    <2>2. NextTurn(turn) = [priority |-> c, counter |-> k + 1]
        BY <1>1, <2>1
    <2> HIDE DEF c, k
    <2>3. k + 1 \in Nat /\ k + 1 <= Distribution[c]
        BY <1>1, <1>2, <1>4
    <2>4. /\ NextTurn(turn).priority = c /\ NextTurn(turn).counter = k + 1
          /\ NextTurn(turn) \in PriorityTracker
        BY <1>1, <2>2, <2>3 DEF PriorityTracker
    <2> QED BY <1>1, <2>3, <2>4 DEF TurnFits, c, k
<1> QED BY <1>3, <1>4

\* The first priority with packets.
LEMMA FirstReadyIs ==
    ASSUME Ready # {}, NEW t, t.priority \in Priorities
    PROVE  /\ FirstReady(t, Ready) \in Ready
           /\ \A q \in Ready : Distance(t.priority, FirstReady(t, Ready)) <= Distance(t.priority, q)
<1> DEFINE far == {Distance(t.priority, q) : q \in Ready}
<1>1. \A q \in Ready : Distance(t.priority, q) \in Nat
    <2>1. \A q \in Ready : q \in Priorities
        BY DEF Ready
    <2> QED BY <2>1, DistanceIs
<1>2. far \subseteq Nat /\ far # {}
    BY <1>1
<1>3. Min(far) \in far /\ \A d \in far : Min(far) <= d
    BY <1>2, LeastOf
<1>4. PICK p \in Ready : Distance(t.priority, p) = Min(far)
    BY <1>3
<1>5. \A q \in Ready : Distance(t.priority, p) <= Distance(t.priority, q)
    BY <1>3, <1>4
<1>6. \A q \in Ready : Skips(t, q) = Distance(t.priority, q)
    BY DEF Skips, Distance
<1>7. \A q \in Ready : Skips(t, p) <= Skips(t, q)
    BY <1>5, <1>6
<1>8. FirstReady(t, Ready) \in Ready /\ \A q \in Ready : Skips(t, FirstReady(t, Ready)) <= Skips(t, q)
    BY <1>7 DEF FirstReady
<1> QED BY <1>6, <1>8

\* The priority a frame is packed of.
LEMMA NextPriorityIs ==
    ASSUME turn \in PriorityTracker, TurnFits(turn), PriorityCount = 1 \/ Ready # {}
    PROVE  /\ NextPriority \in Priorities
           /\ PriorityCount = 1 => NextPriority = 0 /\ Priorities = {0}
           /\ PriorityCount # 1 =>
                  /\ NextPriority \in Ready
                  /\ \A q \in Ready : Distance(NextTurn(turn).priority, NextPriority)
                                          <= Distance(NextTurn(turn).priority, q)
<1>1. CASE PriorityCount = 1
    <2>1. Priorities = {0}
        BY <1>1 DEF Priorities
    <2> QED BY <1>1, <2>1 DEF NextPriority
<1>2. CASE PriorityCount # 1
    <2>1. NextPriority = FirstReady(NextTurn(turn), Ready)
        BY <1>2 DEF NextPriority
    <2>2. NextTurn(turn).priority \in Priorities
        BY NextTurnFits DEF TurnFits
    <2> PICK t : t = NextTurn(turn)
        OBVIOUS
    <2>3. /\ FirstReady(t, Ready) \in Ready
          /\ \A q \in Ready : Distance(t.priority, FirstReady(t, Ready)) <= Distance(t.priority, q)
        BY <1>2, <2>2, FirstReadyIs
    <2>4. NextPriority \in Priorities
        BY <2>1, <2>3 DEF Ready
    <2> QED BY <1>2, <2>1, <2>3, <2>4
<1> QED BY <1>1, <1>2

\* The turn after a frame of a priority, and after a round without one.
LEMMA TurnAfter ==
    ASSUME turn \in PriorityTracker, TurnFits(turn), NEW p \in Priorities
    PROVE  /\ TurnOf(p) \in PriorityTracker /\ TurnFits(TurnOf(p))
           /\ SkipAll(NextTurn(turn)) \in PriorityTracker /\ TurnFits(SkipAll(NextTurn(turn)))
<1>1. NextTurn(turn) \in PriorityTracker /\ TurnFits(NextTurn(turn))
    BY NextTurnFits
<1> PICK t : t = NextTurn(turn)
    OBVIOUS
<1>2. [priority |-> p, counter |-> 0] \in PriorityTracker /\ TurnFits([priority |-> p, counter |-> 0])
    <2>1. Distribution[p] \in Nat
        BY WeightOfOne
    <2> QED BY <2>1 DEF PriorityTracker, TurnFits
<1>3. SkipAll(t) = [priority |-> t.priority, counter |-> 0]
    BY <1>1 DEF SkipAll, PriorityTracker
<1>4. SkipAll(t) \in PriorityTracker /\ TurnFits(SkipAll(t))
    <2>1. t.priority \in Priorities
        BY <1>1 DEF TurnFits
    <2>2. Distribution[t.priority] \in Nat
        BY <2>1, WeightOfOne
    <2> QED BY <1>3, <2>1, <2>2 DEF PriorityTracker, TurnFits
<1> QED BY <1>1, <1>2, <1>4 DEF TurnOf, SkipTo

-----------------------------------------------------------------------------
(***************************************************************************)
(* What the writer keeps to: its types, and that it has been refused as    *)
(* often as writable_counter says.                                         *)
(***************************************************************************)

AccountOK ==
    /\ maxFrame \in FrameSizes /\ rate \in 1 .. RateLimit /\ recent \in Nat
    /\ writable \in {"no", "soon", "yes"}
    /\ again \in Nat /\ refusals \in Nat /\ again <= refusals /\ refusals <= MaxRefusals
    /\ watched \in BOOLEAN /\ dropping \in BOOLEAN /\ polling \in BOOLEAN

StreamOK ==
    /\ queue \in [Priorities -> Seq(Entry)]
    /\ turn \in PriorityTracker /\ TurnFits(turn)
    /\ frame \in Nat /\ frame <= Max(FrameSizes)
    /\ cut \in Nat /\ frame <= cut /\ cut <= Max(FrameSizes)
    /\ idle \in BOOLEAN /\ failed \in BOOLEAN
    /\ flight \in Seq(Frame) /\ raw \in Nat /\ InTransit \in Nat
    /\ pool \in [Priorities -> Seq(Packets)]
    /\ written \in [Priorities -> Seq(Packets)] /\ waiting \in [Priorities -> Nat]

Sound == AccountOK /\ StreamOK

\* What is sent is counted, and a refusal too.
LEMMA TransmitCounts ==
    ASSUME AccountOK, NEW over \in BOOLEAN, NEW left \in Nat, left > 0, Transmit(over, left)
    PROVE  /\ frame' \in Nat /\ frame' <= left
           /\ recent' \in Nat
           /\ recent' <= (IF over THEN 0 ELSE recent) + left
           /\ again' \in Nat /\ refusals' \in Nat /\ again' <= refusals' /\ refusals' <= MaxRefusals
           /\ writable' \in {"no", "soon", "yes"} /\ watched' \in BOOLEAN
<1> PICK before \in Nat : before = IF over THEN 0 ELSE recent
    BY DEF AccountOK
<1>1. AgainNow \in Nat /\ AgainNow <= again
    BY DEF AccountOK, AgainNow
<1>2. CASE \E n \in 1 .. left :
               /\ frame' = left - n
               /\ Counted(over, n)
               /\ again' = AgainNow
               /\ UNCHANGED <<writable, watched, refusals>>
    <2> PICK n \in 1 .. left :
                 /\ frame' = left - n
                 /\ Counted(over, n)
                 /\ again' = AgainNow
                 /\ UNCHANGED <<writable, watched, refusals>>
        BY <1>2
    <2>1. frame' \in Nat /\ frame' <= left
        OBVIOUS
    <2>2. recent' = IF Throttling = "unlimited" THEN 0 ELSE before + n
        BY DEF Counted
    <2>3. recent' \in Nat /\ recent' <= before + left
        BY <2>2
    <2> QED BY <1>1, <2>1, <2>3 DEF AccountOK
<1>3. CASE Refused(left) /\ Counted(over, 0)
    <2>1. recent' = IF Throttling = "unlimited" THEN 0 ELSE before + 0
        BY <1>3 DEF Counted
    <2>2. recent' \in Nat /\ recent' <= before + left
        BY <2>1
    <2>3. MaxRefusals \in Nat
        BY StreamAssumption DEF StreamAssumption
    <2> QED BY <1>1, <1>3, <2>2, <2>3 DEF AccountOK, Refused
<1> QED BY <1>2, <1>3 DEF Transmit

\* A step that sends keeps the account.
LEMMA SendKeepsAccount ==
    ASSUME AccountOK, NEW over \in BOOLEAN, NEW size, Sends(over, size),
           SendsNothing(over) \/ \E left \in Nat : left > 0 /\ Transmit(over, left)
    PROVE  AccountOK'
<1>1. rate' \in 1 .. RateLimit
    BY RateStays DEF Sends, AccountOK
<1>2. maxFrame' = maxFrame /\ dropping' = dropping /\ polling' = TRUE
    BY DEF Sends
<1>3. CASE SendsNothing(over)
    <2>1. AgainNow \in Nat /\ AgainNow <= again
        BY DEF AccountOK, AgainNow
    <2>2. recent' \in Nat
        BY <1>3 DEF SendsNothing, Counted, AccountOK
    <2> QED BY <1>1, <1>2, <1>3, <2>1, <2>2 DEF SendsNothing, AccountOK
<1>4. CASE \E left \in Nat : left > 0 /\ Transmit(over, left)
    <2> PICK left \in Nat : left > 0 /\ Transmit(over, left)
        BY <1>4
    <2>1. /\ recent' \in Nat
          /\ again' \in Nat /\ refusals' \in Nat /\ again' <= refusals' /\ refusals' <= MaxRefusals
          /\ writable' \in {"no", "soon", "yes"} /\ watched' \in BOOLEAN
        BY TransmitCounts
    <2> QED BY <1>1, <1>2, <2>1 DEF AccountOK
<1> QED BY <1>3, <1>4

-----------------------------------------------------------------------------
(***************************************************************************)
(* The bytes on their way: those of the entries of a queue, those of a     *)
(* priority in the frames, and those of whole packets.                     *)
(***************************************************************************)

EntryBytes == [e \in Entry |-> Copies(e.packet, e.left)]

ChunkOf(p) == [f \in Frame |-> Copies(f.packet, IF f.priority = p THEN f.bytes ELSE 0)]

Whole == [x \in Packets |-> Copies(x, Size[x])]

\* They are sequences of bytes.
LEMMA BytesMaps ==
    /\ MapsTo(EntryBytes, Entry, Packets)
    /\ MapsTo(Whole, Packets, Packets)
    /\ \A p : MapsTo(ChunkOf(p), Frame, Packets)
<1>1. \A e \in Entry : Copies(e.packet, e.left) \in Seq(Packets)
    <2>1. \A e \in Entry : e.packet \in Packets /\ e.left \in Nat
        BY DEF Entry
    <2> QED BY <2>1, CopiesSeq
<1>2. \A x \in Packets : Copies(x, Size[x]) \in Seq(Packets)
    <2>1. \A x \in Packets : Size[x] \in Nat
        BY StreamAssumption DEF StreamAssumption
    <2> QED BY <2>1, CopiesSeq
<1>3. ASSUME NEW p, NEW f \in Frame
      PROVE  Copies(f.packet, IF f.priority = p THEN f.bytes ELSE 0) \in Seq(Packets)
    <2>1. f.packet \in Packets /\ f.bytes \in Nat
        BY DEF Frame
    <2>2. PICK k \in Nat : k = IF f.priority = p THEN f.bytes ELSE 0
        BY <2>1
    <2> QED BY <2>1, <2>2, CopiesSeq
<1>4. MapsTo(EntryBytes, Entry, Packets)
    BY <1>1 DEF MapsTo, EntryBytes
<1>5. MapsTo(Whole, Packets, Packets)
    BY <1>2 DEF MapsTo, Whole
<1>6. \A p : MapsTo(ChunkOf(p), Frame, Packets)
    BY <1>3 DEF MapsTo, ChunkOf
<1> QED BY <1>4, <1>5, <1>6

\* pack takes its payload from the front of a queue.
LEMMA AfterPackIs ==
    ASSUME queue \in [Priorities -> Seq(Entry)], NEW p \in Priorities, queue[p] # <<>>,
           NEW n \in Nat, n > 0, n <= Head(queue[p]).left
    PROVE  /\ AfterPack(p, n) \in [Priorities -> Seq(Entry)]
           /\ \A q \in Priorities : q # p => AfterPack(p, n)[q] = queue[q]
           /\ Spread(EntryBytes, queue[p])
                  = Copies(Head(queue[p]).packet, n) \o Spread(EntryBytes, AfterPack(p, n)[p])
<1> PICK q : q = queue[p]
    OBVIOUS
<1>0. q \in Seq(Entry) /\ q # <<>>
    OBVIOUS
<1>1. Head(q) \in Entry /\ Tail(q) \in Seq(Entry)
    BY <1>0, HeadTailProperties
<1>2. PICK x, left : x = Head(q).packet /\ left = Head(q).left
    OBVIOUS
<1>3. x \in Packets /\ left \in Nat /\ Head(q) = [packet |-> x, left |-> left] /\ n <= left
    BY <1>1, <1>2 DEF Entry
<1>4. EntryBytes[Head(q)] = Copies(x, left)
    BY <1>1, <1>2 DEF EntryBytes
<1>5. /\ Spread(EntryBytes, q) = Copies(x, left) \o Spread(EntryBytes, Tail(q))
      /\ Spread(EntryBytes, Tail(q)) \in Seq(Packets)
    <2>1. /\ Spread(EntryBytes, q) = EntryBytes[Head(q)] \o Spread(EntryBytes, Tail(q))
          /\ Spread(EntryBytes, Tail(q)) \in Seq(Packets)
        BY ONLY <1>0, BytesMaps, SpreadOfHead
    <2> QED BY <1>4, <2>1
<1>6. CASE left = n
    <2>1. AfterPack(p, n) = [queue EXCEPT ![p] = Tail(q)]
        BY <1>2, <1>6 DEF AfterPack
    <2>2. /\ AfterPack(p, n) \in [Priorities -> Seq(Entry)] /\ AfterPack(p, n)[p] = Tail(q)
          /\ \A r \in Priorities : r # p => AfterPack(p, n)[r] = queue[r]
        BY <1>1, <2>1
    <2> QED BY <1>2, <1>5, <1>6, <2>2
<1>7. CASE left # n
    <2>1. PICK e, s : e = [packet |-> x, left |-> left - n] /\ s = <<e>> \o Tail(q)
        OBVIOUS
    <2>2. left - n \in Nat \ {0} /\ n + (left - n) = left
        BY <1>3, <1>7
    <2>3. e \in Entry /\ <<e>> \in Seq(Entry)
        BY <1>3, <2>1, <2>2 DEF Entry
    <2>4. s \in Seq(Entry)
        BY <1>1, <2>1, <2>3, ConcatProperties
    <2>5. /\ AfterPack(p, n) \in [Priorities -> Seq(Entry)] /\ AfterPack(p, n)[p] = s
          /\ \A r \in Priorities : r # p => AfterPack(p, n)[r] = queue[r]
        <3>1. AfterPack(p, n) = [queue EXCEPT ![p] =
                  IF Head(queue[p]).left = n THEN Tail(queue[p])
                  ELSE <<[Head(queue[p]) EXCEPT !.left = Head(queue[p]).left - n]>> \o Tail(queue[p])]
            BY DEF AfterPack
        <3>2. [Head(q) EXCEPT !.left = Head(q).left - n] = e
            BY <1>2, <1>3, <2>1
        <3>3. AfterPack(p, n) = [queue EXCEPT ![p] = s]
            BY <1>2, <1>7, <2>1, <3>1, <3>2
        <3> QED BY <2>4, <3>3
    <2>6. left - n \in Nat
        BY <2>2
    <2>7. Spread(EntryBytes, s) = Spread(EntryBytes, <<e>>) \o Spread(EntryBytes, Tail(q))
        <3>1. PICK one, others : one = <<e>> /\ others = Tail(q)
            OBVIOUS
        <3>2. one \in Seq(Entry) /\ others \in Seq(Entry)
            BY <1>1, <2>3, <3>1
        <3>3. Spread(EntryBytes, one \o others) = Spread(EntryBytes, one) \o Spread(EntryBytes, others)
            <4>1. MapsTo(EntryBytes, Entry, Packets)
                BY BytesMaps
            <4> QED BY ONLY <3>2, <4>1, SpreadOfConcat
        <3> QED BY <2>1, <3>1, <3>3
    <2>8. Spread(EntryBytes, <<e>>) = Copies(x, left - n)
        <3>1. Spread(EntryBytes, <<e>>) = EntryBytes[e]
            BY ONLY <2>3, BytesMaps, SpreadOfOne
        <3> QED BY <2>1, <2>3, <3>1 DEF EntryBytes
    <2>9. PICK a, b, c : /\ a = Copies(x, n) /\ b = Copies(x, left - n)
                         /\ c = Spread(EntryBytes, Tail(q))
        OBVIOUS
    <2>10. a \in Seq(Packets) /\ b \in Seq(Packets) /\ c \in Seq(Packets)
        BY <1>3, <1>5, <2>6, <2>9, CopiesSeq
    <2>11. a \o b = Copies(x, left)
        <3>1. PICK k \in Nat : k = left - n
            BY <2>6
        <3>2. Copies(x, n) \o Copies(x, k) = Copies(x, n + k)
            BY <1>3, CopiesOfSum
        <3> QED BY <2>2, <2>9, <3>1, <3>2
    <2>12. (a \o b) \o c = a \o (b \o c)
        <3>1. Regrouped(a, b, c)
            BY ONLY <2>10, Regroup
        <3> QED BY ONLY <3>1 DEF Regrouped
    <2>13. Spread(EntryBytes, s) = b \o c
        BY <2>7, <2>8, <2>9
    <2> QED BY <1>2, <1>5, <2>5, <2>9, <2>11, <2>12, <2>13
<1> QED BY <1>6, <1>7

\* The frame packed is of a priority with packets, and its payload of the packet in front.
LEMMA FramePacked ==
    ASSUME Sound, NEW over, NEW size, SendFrame(over, size), ~failed', size <= Max(FrameSizes), size \in Nat
    PROVE  \E p \in Priorities, n \in Nat :
               /\ p = NextPriority
               /\ n > 0 /\ n + EmptyFrame <= size
               /\ queue[p] # <<>> /\ Head(queue[p]) \in Entry /\ n <= Head(queue[p]).left
               /\ frame = 0 /\ Transmit(over, n + EmptyFrame)
               /\ queue' = AfterPack(p, n) /\ turn' = TurnOf(p)
               /\ flight' = Append(flight, [priority |-> p, packet |-> Head(queue[p]).packet,
                                            bytes |-> n])
               /\ waiting' = Waited(p) /\ cut' = size
               /\ idle' = idle /\ failed' = failed
<1> DEFINE p == NextPriority
           front == Head(queue[p])
           n == Payload(front, size)
<1>1. turn \in PriorityTracker /\ TurnFits(turn) /\ queue \in [Priorities -> Seq(Entry)]
    BY DEF Sound, StreamOK
<1>2. PriorityCount = 1 \/ Ready # {}
    BY DEF SendFrame
<1>3. p \in Priorities
    BY <1>1, <1>2, NextPriorityIs
<1>4. ~(queue[p] = <<>> \/ n <= 0)
    BY DEF SendFrame, SendThrows
<1>5. /\ Transmit(over, n + EmptyFrame)
      /\ queue' = AfterPack(p, n)
      /\ turn' = TurnOf(p)
      /\ flight' = Append(flight, [priority |-> p, packet |-> front.packet, bytes |-> n])
      /\ waiting' = Waited(p) /\ cut' = size
      /\ frame = 0 /\ idle' = idle /\ failed' = failed
    BY <1>4 DEF SendFrame
<1>6. queue[p] \in Seq(Entry)
    BY <1>1, <1>3
<1>7. front \in Entry
    BY <1>4, <1>6, HeadTailProperties
<1>8. front.left \in Nat /\ EmptyFrame \in Nat
    BY <1>7, LargestFrame DEF Entry
<1>9. n \in Int /\ n <= front.left /\ n + EmptyFrame <= size
    <2>1. PICK a \in Nat : a = front.left + EmptyFrame
        BY <1>8
    <2>2. Min({a, size}) = IF a <= size THEN a ELSE size
        BY LeastOfTwo
    <2>3. n = Min({a, size}) - EmptyFrame
        BY <2>1 DEF Payload
    <2> HIDE DEF n, front
    <2> QED BY <1>8, <2>1, <2>2, <2>3
<1>10. n \in Nat /\ n > 0
    <2> HIDE DEF n
    <2> QED BY <1>4, <1>9
<1> HIDE DEF n, p, front
<1>11. p = NextPriority /\ front = Head(queue[p])
    BY DEF p, front
<1> QED BY <1>3, <1>4, <1>5, <1>7, <1>9, <1>10, <1>11

\* The payloads of the first frames.
LEMMA PayloadsAre ==
    ASSUME flight \in Seq(Frame), NEW p, NEW j \in 0 .. Len(flight)
    PROVE  Payloads(p, j) = Spread(ChunkOf(p), SubSeq(flight, 1, j))
<1> PICK first : first = SubSeq(flight, 1, j)
    OBVIOUS
<1>1. j \in Nat /\ j <= Len(flight) /\ Len(flight) \in Nat
    BY LenProperties
<1>2. \A i \in 1 .. j : flight[i] \in Frame
    <2>1. \A i \in 1 .. Len(flight) : flight[i] \in Frame
        BY ElementOfSeq
    <2> QED BY <1>1, <2>1
<1>3. Len(first) = j /\ \A i \in 1 .. j : first[i] = flight[i]
    <2>1. PICK one, last : one = 1 /\ last = j
        OBVIOUS
    <2>2. one \in Int /\ last \in Int /\ \A i \in one .. last : flight[i] \in Frame
        BY <1>1, <1>2, <2>1
    <2>3. /\ Len(SubSeq(flight, one, last)) = IF one <= last THEN last - one + 1 ELSE 0
          /\ \A i \in 1 .. last - one + 1 : SubSeq(flight, one, last)[i] = flight[one + i - 1]
        BY ONLY <2>2, SubSeqProperties
    <2>4. Len(first) = IF one <= last THEN last - one + 1 ELSE 0
        BY <2>1, <2>3
    <2>5. Len(first) = j
        BY <1>1, <2>1, <2>4
    <2>6. ASSUME NEW i \in 1 .. j PROVE first[i] = flight[i]
        <3>1. i \in 1 .. last - one + 1 /\ one + i - 1 = i
            BY <1>1, <2>1
        <3> QED BY <2>1, <2>3, <3>1
    <2> QED BY <2>5, <2>6
<1> DEFINE here == [i \in 1 .. j |->
                [b \in 1 .. IF flight[i].priority = p THEN flight[i].bytes ELSE 0 |-> flight[i].packet]]
           there == Mapped(ChunkOf(p), first)
<1>4. ASSUME NEW i \in 1 .. j PROVE here[i] = there[i]
    <2>1. here[i] = Copies(flight[i].packet, IF flight[i].priority = p THEN flight[i].bytes ELSE 0)
        BY DEF Copies
    <2>2. ChunkOf(p)[flight[i]]
              = Copies(flight[i].packet, IF flight[i].priority = p THEN flight[i].bytes ELSE 0)
        BY <1>2 DEF ChunkOf
    <2>3. there[i] = ChunkOf(p)[first[i]]
        BY <1>3 DEF Mapped
    <2> QED BY <1>3, <2>1, <2>2, <2>3
<1>5. there = [i \in 1 .. j |-> there[i]]
    BY <1>3 DEF Mapped
<1>6. here = [i \in 1 .. j |-> here[i]]
    OBVIOUS
<1>7. here = there
    <2> HIDE DEF here, there
    <2> QED BY <1>4, <1>5, <1>6
<1> QED BY <1>7 DEF Payloads, Spread

\* The frames that are complete, and the rest.
LEMMA Completed ==
    ASSUME flight \in Seq(Frame), NEW bytes \in Nat
    PROVE  LET j == Complete(bytes)
               first == SubSeq(flight, 1, j)
               rest == SubSeq(flight, j + 1, Len(flight))
           IN  /\ j \in 0 .. Len(flight)
               /\ first \in Seq(Frame) /\ rest \in Seq(Frame) /\ flight = first \o rest
               /\ Bytes(first) <= bytes /\ Bytes(first) \in Nat /\ Bytes(rest) \in Nat
               /\ Bytes(flight) = Bytes(first) + Bytes(rest)
<1> DEFINE fits == {j \in 0 .. Len(flight) : Bytes(SubSeq(flight, 1, j)) <= bytes}
<1>1. Len(flight) \in Nat
    BY LenProperties
<1>2. 0 \in fits
    <2>1. SubSeq(flight, 1, 0) = <<>>
        BY SubSeqEmpty
    <2>2. Bytes(SubSeq(flight, 1, 0)) = 0
        BY <2>1, BytesOfNone
    <2>3. 0 \in 0 .. Len(flight) /\ 0 <= bytes
        BY <1>1
    <2> QED BY <2>2, <2>3
<1>3. fits \subseteq Nat /\ fits # {} /\ \A x \in fits : x <= Len(flight)
    BY <1>1, <1>2
<1>4. Max(fits) \in fits
    BY <1>1, <1>3, GreatestOf
<1>5. PICK j : j = Complete(bytes)
    OBVIOUS
<1>6. j \in 0 .. Len(flight) /\ Bytes(SubSeq(flight, 1, j)) <= bytes
    BY <1>4, <1>5 DEF Complete
<1>7. PICK first, rest : first = SubSeq(flight, 1, j) /\ rest = SubSeq(flight, j + 1, Len(flight))
    OBVIOUS
<1>8. first \in Seq(Frame) /\ rest \in Seq(Frame) /\ flight = first \o rest
    <2>1. j \in Nat /\ j <= Len(flight)
        BY <1>1, <1>6
    <2>2. \A i \in 1 .. Len(flight) : flight[i] \in Frame
        BY ElementOfSeq
    <2>3. first \in Seq(Frame)
        <3>1. 1 \in Int /\ j \in Int /\ \A i \in 1 .. j : flight[i] \in Frame
            BY <1>1, <2>1, <2>2
        <3> QED BY <1>7, <3>1, SubSeqProperties
    <2>4. rest \in Seq(Frame)
        <3>1. j + 1 \in Int /\ Len(flight) \in Int /\ \A i \in (j + 1) .. Len(flight) : flight[i] \in Frame
            BY <1>1, <2>1, <2>2
        <3>2. PICK m, n : m = j + 1 /\ n = Len(flight)
            OBVIOUS
        <3>3. m \in Int /\ n \in Int /\ \A i \in m .. n : flight[i] \in Frame
            BY <3>1, <3>2
        <3>4. SubSeq(flight, m, n) \in Seq(Frame)
            BY ONLY <3>3, SubSeqProperties
        <3> QED BY <1>7, <3>2, <3>4
    <2>5. flight = first \o rest
        <3>1. PICK one, n : one = 1 /\ n = Len(flight)
            OBVIOUS
        <3>2. one \in 1 .. Len(flight) + 1 /\ j \in one - 1 .. Len(flight) /\ n \in j .. Len(flight)
            BY <1>1, <2>1, <3>1
        <3>3. SubSeq(flight, one, j) \o SubSeq(flight, j + 1, n) = SubSeq(flight, one, n)
            BY ONLY <3>2, flight \in Seq(Frame), ConcatAdjacentSubSeq
        <3>4. SubSeq(flight, 1, Len(flight)) = flight
            BY SubSeqFull
        <3> QED BY <1>7, <3>1, <3>3, <3>4
    <2> QED BY <2>3, <2>4, <2>5
<1>9. Bytes(flight) = Bytes(first) + Bytes(rest) /\ Bytes(first) \in Nat /\ Bytes(rest) \in Nat
    BY <1>8, BytesOfConcat
<1> QED BY <1>5, <1>6, <1>7, <1>8, <1>9

\* What is in the pool and what has arrived are bytes, and so is what is left of them.
LEMMA PoolStays ==
    ASSUME flight \in Seq(Frame), pool \in [Priorities -> Seq(Packets)],
           NEW p \in Priorities, NEW j \in 0 .. Len(flight)
    PROVE  /\ pool[p] \o Payloads(p, j) \in Seq(Packets)
           /\ Parsed(pool[p] \o Payloads(p, j)).rest \in Seq(Packets)
<1>1. SubSeq(flight, 1, j) \in Seq(Frame)
    <2>1. 1 \in Int /\ j \in Int /\ \A i \in 1 .. j : flight[i] \in Frame
        <3>1. Len(flight) \in Nat
            BY LenProperties
        <3>2. \A i \in 1 .. Len(flight) : flight[i] \in Frame
            BY ElementOfSeq
        <3> QED BY <3>1, <3>2
    <2> QED BY <2>1, SubSeqProperties
<1>2. MapsTo(ChunkOf(p), Frame, Packets)
    BY BytesMaps
<1>3. PICK first, chunk : first = SubSeq(flight, 1, j) /\ chunk = ChunkOf(p)
    OBVIOUS
<1>4. first \in Seq(Frame) /\ MapsTo(chunk, Frame, Packets)
    BY <1>1, <1>2, <1>3
<1>5. Spread(chunk, first) \in Seq(Packets)
    BY ONLY <1>4, SpreadType
<1>6. Payloads(p, j) \in Seq(Packets)
    BY <1>3, <1>5, PayloadsAre
<1>7. PICK bytes : bytes = pool[p] \o Payloads(p, j)
    OBVIOUS
<1>8. bytes \in Seq(Packets)
    BY <1>6, <1>7, ConcatProperties
<1>9. Parsed(bytes) \in ParseState
    <2>1. PICK g : g[Len(bytes)] = Parsed(bytes) /\ \A k \in 0 .. Len(bytes) : g[k] \in ParseState
        BY <1>8, ParsedOfPrefixes
    <2>2. Len(bytes) \in Nat
        BY <1>8, LenProperties
    <2>3. Len(bytes) \in 0 .. Len(bytes)
        BY <2>2
    <2> QED BY <2>1, <2>3
<1> QED BY <1>7, <1>8, <1>9 DEF ParseState

-----------------------------------------------------------------------------
(***************************************************************************)
(* Every step keeps them.                                                  *)
(***************************************************************************)

\* A frame that is sent, in part or not at all, keeps the stream.
LEMMA SendRestKeeps ==
    ASSUME Sound, NEW over \in BOOLEAN, NEW size, SendRest(over, size)
    PROVE  Sound'
<1>1. Sends(over, size) /\ frame > 0 /\ frame \in Nat
    BY DEF SendRest, Sound, StreamOK
<1>2. UNCHANGED <<pool, read, raw, written>>
    BY <1>1 DEF Sends, receiver
<1>3. CASE frame > size
    <2>1. SendThrows(over)
        BY <1>3 DEF SendRest
    <2>2. AccountOK'
        BY <1>1, <2>1, SendKeepsAccount DEF Sound, SendThrows
    <2>3. UNCHANGED <<queue, frame, idle, turn, flight, cut, waiting>> /\ failed' = TRUE
        BY <2>1 DEF SendThrows, SendsNothing
    <2>4. StreamOK'
        BY <1>2, <2>3 DEF Sound, StreamOK, InTransit
    <2> QED BY <2>2, <2>4 DEF Sound
<1>4. CASE ~(frame > size)
    <2>1. Transmit(over, frame) /\ UNCHANGED <<queue, idle, turn, flight, cut, waiting, failed>>
        BY <1>4 DEF SendRest
    <2>2. AccountOK'
        BY <1>1, <2>1, SendKeepsAccount DEF Sound
    <2>3. frame' \in Nat /\ frame' <= frame
        BY <1>1, <2>1, TransmitCounts DEF Sound
    <2>4. InTransit' \in Nat
        <3>1. InTransit' = Bytes(flight) - frame' - raw
            BY <1>2, <2>1 DEF InTransit
        <3>2. Bytes(flight) \in Nat
            BY BytesOfConcat DEF Sound, StreamOK
        <3>3. raw \in Nat /\ Bytes(flight) - frame - raw \in Nat
            BY DEF Sound, StreamOK, InTransit
        <3> QED BY <1>1, <2>3, <3>1, <3>2, <3>3
    <2>5. frame' <= Max(FrameSizes) /\ frame' <= cut
        BY <1>1, <2>3, LargestFrame DEF Sound, StreamOK
    <2>6. StreamOK'
        BY <1>2, <2>1, <2>3, <2>4, <2>5 DEF Sound, StreamOK
    <2> QED BY <2>2, <2>6 DEF Sound
<1> QED BY <1>3, <1>4

\* A step without a frame keeps the stream.
LEMMA SendNothingKeeps ==
    ASSUME Sound, NEW over \in BOOLEAN, NEW size, Throttle(over) \/ SendNoFrame(over, size)
    PROVE  Sound'
<1>1. \E s : Sends(over, s)
    BY DEF Throttle, SendNoFrame
<1> PICK s : Sends(over, s)
    BY <1>1
<1>2. SendsNothing(over) /\ failed' = failed
    BY DEF Throttle, SendNoFrame
<1>3. AccountOK'
    BY <1>2, SendKeepsAccount DEF Sound
<1>4. UNCHANGED <<pool, read, raw, written, queue, frame, flight, cut, waiting>>
    BY <1>2 DEF Sends, receiver, SendsNothing
<1>5. turn' \in PriorityTracker /\ TurnFits(turn') /\ idle' \in BOOLEAN
    <2>1. turn \in PriorityTracker /\ TurnFits(turn) /\ idle \in BOOLEAN
        BY DEF Sound, StreamOK
    <2>2. turn' \in {turn, SkipAll(NextTurn(turn))} /\ idle' \in {idle, TRUE}
        <3>1. CASE Throttle(over)
            BY <3>1 DEF Throttle
        <3>2. CASE SendNoFrame(over, size)
            BY <3>2 DEF SendNoFrame
        <3> QED BY <3>1, <3>2
    <2>3. 0 \in Priorities
        BY DistributionAssumption DEF DistributionAssumption, Priorities
    <2>4. SkipAll(NextTurn(turn)) \in PriorityTracker /\ TurnFits(SkipAll(NextTurn(turn)))
        BY <2>1, <2>3, TurnAfter
    <2> QED BY <2>1, <2>2, <2>4
<1>6. StreamOK'
    BY <1>2, <1>4, <1>5 DEF Sound, StreamOK, InTransit, TurnFits
<1> QED BY <1>3, <1>6 DEF Sound

\* A frame that is packed keeps the stream.
LEMMA SendFrameKeeps ==
    ASSUME Sound, NEW over \in BOOLEAN, NEW size \in Nat, SendFrame(over, size)
    PROVE  Sound'
<1>1. Sends(over, size) /\ size = Tuned(over)
    BY DEF SendFrame, Sends
<1>2. UNCHANGED <<pool, read, raw, written>>
    BY <1>1 DEF Sends, receiver
<1>3. CASE failed'
    <2>1. SendThrows(over)
        BY <1>1, <1>3 DEF SendFrame, Sends
    <2>2. AccountOK'
        BY <1>1, <2>1, SendKeepsAccount DEF Sound, SendThrows
    <2>3. UNCHANGED <<queue, frame, idle, turn, flight, cut, waiting>> /\ failed' = TRUE
        BY <2>1 DEF SendThrows, SendsNothing
    <2>4. StreamOK'
        BY <1>2, <2>3 DEF Sound, StreamOK, InTransit
    <2> QED BY <2>2, <2>4 DEF Sound
<1>4. CASE ~failed'
    <2>1. size <= Max(FrameSizes)
        <3>1. Tuned(over) <= maxFrame /\ maxFrame \in Nat /\ maxFrame <= Max(FrameSizes)
            BY SizeFits DEF Sound, AccountOK
        <3> QED BY <1>1, <3>1, LargestFrame
    <2>2. PICK p \in Priorities, n \in Nat :
              /\ p = NextPriority
              /\ n > 0 /\ n + EmptyFrame <= size
              /\ queue[p] # <<>> /\ Head(queue[p]) \in Entry /\ n <= Head(queue[p]).left
              /\ frame = 0 /\ Transmit(over, n + EmptyFrame)
              /\ queue' = AfterPack(p, n) /\ turn' = TurnOf(p)
              /\ flight' = Append(flight, [priority |-> p, packet |-> Head(queue[p]).packet,
                                           bytes |-> n])
              /\ waiting' = Waited(p) /\ cut' = size
              /\ idle' = idle /\ failed' = failed
        BY <1>4, <2>1, FramePacked
    <2>3. PICK left \in Nat : left = n + EmptyFrame
        BY LargestFrame
    <2>4. left > 0 /\ left <= Max(FrameSizes) /\ Max(FrameSizes) \in Nat
        BY <2>1, <2>2, <2>3, LargestFrame
    <2>5. AccountOK'
        BY <1>1, <2>2, <2>3, <2>4, SendKeepsAccount DEF Sound
    <2>6. frame' \in Nat /\ frame' <= left
        BY <2>2, <2>3, <2>4, TransmitCounts DEF Sound
    <2>7. queue' \in [Priorities -> Seq(Entry)]
        BY <2>2, AfterPackIs DEF Sound, StreamOK
    <2>8. turn' \in PriorityTracker /\ TurnFits(turn')
        BY <2>2, TurnAfter DEF Sound, StreamOK
    <2>9. PICK f : f = [priority |-> p, packet |-> Head(queue[p]).packet, bytes |-> n]
        OBVIOUS
    <2>10. f \in Frame /\ f.bytes = n
        BY <2>2, <2>9 DEF Frame, Entry
    <2>11. flight \in Seq(Frame) /\ flight' = Append(flight, f)
        BY <2>2, <2>9 DEF Sound, StreamOK
    <2>12. flight' \in Seq(Frame)
        BY <2>10, <2>11, AppendProperties
    <2>13. InTransit' \in Nat
        <3>1. Bytes(flight) \in Nat /\ Bytes(flight') = Bytes(flight) + n + EmptyFrame
            BY <2>10, <2>11, BytesOfAppend
        <3>2. InTransit' = Bytes(flight') - frame' - raw
            BY <1>2 DEF InTransit
        <3>3. raw \in Nat /\ Bytes(flight) - 0 - raw \in Nat
            BY <2>2 DEF Sound, StreamOK, InTransit
        <3> QED BY <2>3, <2>6, <3>1, <3>2, <3>3, LargestFrame
    <2>14. waiting' \in [Priorities -> Nat]
        BY <2>2 DEF Waited, Sound, StreamOK
    <2>15. frame' <= Max(FrameSizes) /\ cut' \in Nat /\ frame' <= cut' /\ cut' <= Max(FrameSizes)
        <3>1. left <= size /\ cut' = size
            BY <2>2, <2>3
        <3> QED BY <2>1, <2>4, <2>6, <3>1
    <2>16. idle' \in BOOLEAN /\ failed' \in BOOLEAN
        BY <2>2 DEF Sound, StreamOK
    <2>17. (pool \in [Priorities -> Seq(Packets)])' /\ (written \in [Priorities -> Seq(Packets)])' /\ raw' \in Nat
        BY <1>2 DEF Sound, StreamOK
    <2>18. StreamOK'
        BY ONLY <2>6, <2>7, <2>8, <2>12, <2>13, <2>14, <2>15, <2>16, <2>17 DEF StreamOK, TurnFits
    <2> QED BY <2>5, <2>18 DEF Sound
<1> QED BY <1>3, <1>4

\* What arrives keeps the stream.
LEMMA ReceiveKeeps ==
    ASSUME Sound, NEW n \in Nat, Receive(n)
    PROVE  Sound'
<1> PICK j : j = Complete(raw + n)
    OBVIOUS
<1>1. flight \in Seq(Frame) /\ raw \in Nat /\ raw + n \in Nat
    BY DEF Sound, StreamOK
<1> PICK first, rest : first = SubSeq(flight, 1, j) /\ rest = SubSeq(flight, j + 1, Len(flight))
    OBVIOUS
<1>2. /\ j \in 0 .. Len(flight)
      /\ first \in Seq(Frame) /\ rest \in Seq(Frame) /\ flight = first \o rest
      /\ Bytes(first) <= raw + n /\ Bytes(first) \in Nat /\ Bytes(rest) \in Nat
      /\ Bytes(flight) = Bytes(first) + Bytes(rest)
    <2>1. PICK bytes \in Nat : bytes = raw + n
        BY <1>1
    <2> QED BY <1>1, <2>1, Completed
<1>3. n <= InTransit /\ raw' = raw + n - Bytes(first) /\ flight' = rest
    BY DEF Receive
<1>4. pool' = [p \in Priorities |-> Parsed(pool[p] \o Payloads(p, j)).rest]
    BY DEF Receive
<1>5. UNCHANGED <<queue, frame, idle, turn, cut, waiting, account, poller, failed, written, refusals>>
    BY DEF Receive
<1>a. PICK here, later : here = Bytes(first) /\ later = Bytes(rest)
    OBVIOUS
<1>b. here \in Nat /\ later \in Nat /\ here <= raw + n /\ raw' = raw + n - here
    BY <1>2, <1>3, <1>a
<1>6. raw' \in Nat
    BY ONLY <1>1, <1>b, n \in Nat
<1>7. InTransit' \in Nat
    <2>1. InTransit' = later - frame - raw'
        BY <1>3, <1>5, <1>a DEF InTransit
    <2>a. PICK all : all = Bytes(flight)
        OBVIOUS
    <2>2. InTransit = all - frame - raw
        BY <2>a DEF InTransit
    <2>b. all = here + later
        BY <1>2, <1>a, <2>a
    <2>3. InTransit \in Nat /\ frame \in Nat
        BY DEF Sound, StreamOK
    <2>4. n <= InTransit
        BY <1>3
    <2> QED BY ONLY <1>1, <1>b, <2>1, <2>b, <2>2, <2>3, <2>4, n \in Nat
<1>8. pool' \in [Priorities -> Seq(Packets)]
    <2>1. \A p \in Priorities : Parsed(pool[p] \o Payloads(p, j)).rest \in Seq(Packets)
        BY <1>1, <1>2, PoolStays DEF Sound, StreamOK
    <2> QED BY <1>4, <2>1
<1>9. AccountOK'
    BY <1>5 DEF Sound, AccountOK, account, poller
<1>10. StreamOK'
    BY <1>2, <1>3, <1>5, <1>6, <1>7, <1>8 DEF Sound, StreamOK, TurnFits
<1> QED BY <1>9, <1>10 DEF Sound

\* A packet written keeps the stream.
LEMMA EnqueueKeeps ==
    ASSUME Sound, NEW p \in Priorities, NEW packet \in Packets, Enqueue(p, packet)
    PROVE  Sound'
<1>1. PICK e : e = [packet |-> packet, left |-> Size[packet]]
    OBVIOUS
<1>2. e \in Entry
    BY <1>1, StreamAssumption DEF Entry, StreamAssumption
<1>3. queue' = [queue EXCEPT ![p] = Append(queue[p], e)]
    BY <1>1 DEF Enqueue
<1>4. queue' \in [Priorities -> Seq(Entry)]
    BY <1>2, <1>3, AppendProperties DEF Sound, StreamOK
<1>5. written' \in [Priorities -> Seq(Packets)]
    <2>1. written' = [written EXCEPT ![p] = Append(written[p], packet)]
        BY DEF Enqueue
    <2> QED BY <2>1, AppendProperties DEF Sound, StreamOK
<1>6. idle' = FALSE
    BY DEF Enqueue
<1>7. UNCHANGED <<frame, turn, flight, cut, waiting, account, poller, receiver, failed, refusals>>
    BY DEF Enqueue
<1>8. AccountOK'
    BY <1>7 DEF Sound, AccountOK, account, poller
<1>9. StreamOK'
    BY <1>4, <1>5, <1>6, <1>7 DEF Sound, StreamOK, InTransit, TurnFits, receiver
<1> QED BY <1>8, <1>9 DEF Sound

\* The steps of the account and of the poller keep the stream.
LEMMA PollerKeeps ==
    ASSUME Sound, (\E size \in FrameSizes : SetFrameSize(size)) \/ NotWritable \/ Poll \/ Ripens
    PROVE  Sound'
<1>1. UNCHANGED <<sender, receiver, failed, written>>
    BY DEF SetFrameSize, NotWritable, Poll, Ripens
<1>2. StreamOK'
    BY <1>1 DEF Sound, StreamOK, InTransit, TurnFits, sender, receiver
<1>3. /\ maxFrame' \in FrameSizes
      /\ rate' = rate /\ recent' = recent /\ again' = again /\ refusals' = refusals
    <2>1. CASE \E size \in FrameSizes : SetFrameSize(size)
        BY <2>1 DEF SetFrameSize
    <2>2. CASE NotWritable \/ Poll \/ Ripens
        BY <2>2 DEF NotWritable, Poll, Ripens, account, Sound, AccountOK
    <2> QED BY <2>1, <2>2
<1>4. /\ writable' \in {"no", "soon", "yes"}
      /\ watched' \in BOOLEAN /\ dropping' \in BOOLEAN /\ polling' \in BOOLEAN
    <2>0. /\ writable \in {"no", "soon", "yes"}
          /\ watched \in BOOLEAN /\ dropping \in BOOLEAN /\ polling \in BOOLEAN
        BY DEF Sound, AccountOK
    <2>1. CASE \E size \in FrameSizes : SetFrameSize(size)
        BY <2>0, <2>1 DEF SetFrameSize, poller
    <2>2. CASE NotWritable
        BY <2>0, <2>2 DEF NotWritable
    <2>3. CASE Poll
        <3>1. polling' = FALSE /\ watched' \in BOOLEAN
            BY <2>0, <2>3 DEF Poll
        <3>2. writable' \in {"no", "soon", "yes"} /\ dropping' \in BOOLEAN
            BY <2>0, <2>3 DEF Poll
        <3> QED BY <3>1, <3>2
    <2>4. CASE Ripens
        BY <2>0, <2>4 DEF Ripens
    <2> QED BY <2>1, <2>2, <2>3, <2>4
<1>7. AccountOK'
    BY <1>3, <1>4 DEF Sound, AccountOK
<1> QED BY <1>2, <1>7 DEF Sound

\* Every step keeps the invariant.
LEMMA SoundStep ==
    ASSUME Sound, [Next]_vars
    PROVE  Sound'
<1>1. ASSUME NEW over \in BOOLEAN, SendAt(over) PROVE Sound'
    <2>1. Tuned(over) \in Nat
        BY SizeFits DEF Sound, AccountOK
    <2>2. CASE Throttle(over)
        BY <2>2, SendNothingKeeps
    <2>3. CASE \E size \in {Tuned(over)} : SendRest(over, size) \/ SendNoFrame(over, size) \/ SendFrame(over, size)
        BY <2>1, <2>3, SendRestKeeps, SendNothingKeeps, SendFrameKeeps
    <2> QED BY <1>1, <2>2, <2>3 DEF SendAt
<1>2. CASE Send
    BY <1>1, <1>2, PollerKeeps DEF Send
<1>3. CASE Arrive
    <2> PICK n \in 1 .. Bytes(flight) : Receive(n)
        BY <1>3 DEF Arrive
    <2>1. n \in Nat
        OBVIOUS
    <2> QED BY <2>1, ReceiveKeeps
<1>4. CASE UNCHANGED vars
    BY <1>4 DEF vars, sender, account, poller, receiver, Sound, AccountOK, StreamOK, InTransit, TurnFits
<1> QED BY <1>2, <1>3, <1>4, EnqueueKeeps, PollerKeeps DEF Next

\* The invariant holds at the start.
LEMMA SoundAtStart == Init => Sound
<1> SUFFICES ASSUME Init PROVE Sound
    OBVIOUS
<1>1. 0 \in Priorities /\ Distribution[0] \in Nat
    <2>1. 0 \in Priorities
        BY DistributionAssumption DEF DistributionAssumption, Priorities
    <2> QED BY <2>1, WeightOfOne
<1>2. <<>> \in Seq(Entry) /\ <<>> \in Seq(Packets) /\ <<>> \in Seq(Frame)
    BY EmptySeq
<1>3. AccountOK
    <2>1. RateLimit \in Nat /\ RateLimit > 0 /\ MaxRefusals \in Nat
        BY StreamAssumption DEF StreamAssumption
    <2>2. rate = RateLimit /\ maxFrame \in FrameSizes /\ recent = 0 /\ again = 0 /\ refusals = 0
        BY DEF Init
    <2>3. rate \in 1 .. RateLimit
        BY <2>1, <2>2
    <2>4. /\ writable \in {"no", "soon", "yes"}
          /\ watched \in BOOLEAN /\ dropping \in BOOLEAN /\ polling \in BOOLEAN
        BY DEF Init
    <2> QED BY <2>1, <2>2, <2>3, <2>4 DEF AccountOK
<1>4. InTransit = 0
    BY BytesOfNone DEF InTransit, Init
<1>5. StreamOK
    <2>1. turn \in PriorityTracker /\ TurnFits(turn)
        BY <1>1 DEF Init, InitialTurn, PriorityTracker, TurnFits
    <2>2. /\ queue \in [Priorities -> Seq(Entry)] /\ pool \in [Priorities -> Seq(Packets)]
          /\ written \in [Priorities -> Seq(Packets)] /\ waiting \in [Priorities -> Nat]
        BY <1>2 DEF Init
    <2>3. /\ frame \in Nat /\ frame <= Max(FrameSizes) /\ raw \in Nat
          /\ cut \in Nat /\ frame <= cut /\ cut <= Max(FrameSizes)
        BY LargestFrame DEF Init
    <2> QED BY <1>2, <1>4, <2>1, <2>2, <2>3 DEF Init, StreamOK
<1> QED BY <1>3, <1>5 DEF Sound

\* The invariant holds always.
LEMMA SoundAlways == Spec => []Sound
<1>1. Sound /\ [Next]_vars => Sound'
    BY SoundStep
<1> QED BY <1>1, SoundAtStart, PTL DEF Spec

\* The variables of a stream keep their types: the queues and the frames are of packets with
\* bytes left, no frame is larger than the largest size set, the rate does not fall to zero or
\* rise, and no more arrives than was sent (writer_pool.hpp:509, priority_frame.hpp:96).
THEOREM TypeCorrect == Spec => []TypeOK
<1>1. Sound => TypeOK
    <2> SUFFICES ASSUME Sound PROVE TypeOK
        OBVIOUS
    <2>1. frame \in 0 .. Max(FrameSizes) /\ cut \in 0 .. Max(FrameSizes)
        BY LargestFrame DEF Sound, StreamOK
    <2>2. again \in 0 .. MaxRefusals
        BY StreamAssumption DEF Sound, AccountOK, StreamAssumption
    <2>3. {idle, watched, dropping, polling, failed} \subseteq BOOLEAN
        BY DEF Sound, StreamOK, AccountOK
    <2>4. flight \in Seq([priority : Priorities, packet : Packets, bytes : Nat \ {0}])
        BY DEF Sound, StreamOK, Frame
    <2> QED BY <2>1, <2>2, <2>3, <2>4 DEF TypeOK, Sound, StreamOK, AccountOK
<1> QED BY <1>1, SoundAlways, PTL

-----------------------------------------------------------------------------
(***************************************************************************)
(* Every priority with packets has its turn.                               *)
(***************************************************************************)

\* The priorities a round passes between one and another.
Between(a, b) == {x \in Priorities : 0 < Distance(a, x) /\ Distance(a, x) < Distance(a, b)}

\* A priority waits for what is left of the turn and for those that come before it: for no
\* more than a round, however much of it is over.
TurnsOK ==
    /\ \A q \in Priorities : queue[q] = <<>> => waiting[q] = 0
    /\ waiting[turn.priority] = 0
    /\ \A q \in Ready : q # turn.priority =>
           waiting[q] + (Distribution[turn.priority] - turn.counter) + Weight(Between(turn.priority, q))
               <= Weight(Priorities \ {q})

\* A priority that comes first leaves those between to wait for.
LEMMA Nearer ==
    ASSUME NEW c \in Priorities, NEW p \in Priorities, NEW q \in Priorities,
           p # c, Distance(c, p) < Distance(c, q)
    PROVE  /\ Distribution[p] + 1 + Weight(Between(p, q)) <= Weight(Between(c, q))
           /\ Weight(Between(p, q)) \in Nat /\ Weight(Between(c, q)) \in Nat
<1>1. PriorityCount \in Nat /\ PriorityCount > 0
    BY DistributionAssumption DEF DistributionAssumption
<1>2. 0 < Distance(c, p) /\ p \in Between(c, q)
    <2>1. 0 < Distance(c, p)
        BY <1>1, DistanceIs
    <2> QED BY <2>1 DEF Between
<1>3. p \notin Between(p, q)
    <2>1. Distance(p, p) = 0
        BY DistanceIs
    <2> QED BY <2>1 DEF Between
<1>4. ASSUME NEW x \in Between(p, q) PROVE x \in Between(c, q)
    <2>1. x \in Priorities /\ 0 < Distance(p, x) /\ Distance(p, x) < Distance(p, q)
        BY DEF Between
    <2>2. Distance(c, p) + Distance(p, q) = Distance(c, q)
        BY <1>1, DistanceIs
    <2>3. Distance(c, x) = Distance(c, p) + Distance(p, x)
        BY <1>1, <2>1, <2>2, DistanceIs
    <2>4. /\ Distance(c, p) \in Nat /\ Distance(p, x) \in Nat
          /\ Distance(p, q) \in Nat /\ Distance(c, q) \in Nat
        BY <2>1, DistanceIs
    <2>5. 0 < Distance(c, x) /\ Distance(c, x) < Distance(c, q)
        BY <2>1, <2>2, <2>3, <2>4
    <2> QED BY <2>1, <2>5 DEF Between
<1>5. PICK S : S = Between(c, q)
    OBVIOUS
<1>6. S \in SUBSET Priorities /\ p \in S /\ Between(p, q) \in SUBSET (S \ {p}) /\ S \ {p} \in SUBSET Priorities
    <2>1. S \in SUBSET Priorities
        BY <1>5 DEF Between
    <2> QED BY <1>2, <1>3, <1>4, <1>5, <2>1
<1>7. /\ Weight(S) = Weight(S \ {p}) + Distribution[p] + 1
      /\ Weight(S) \in Nat /\ Weight(S \ {p}) \in Nat /\ Distribution[p] \in Nat
    BY <1>6, WeightOfElement
<1>8. Weight(Between(p, q)) <= Weight(S \ {p}) /\ Weight(Between(p, q)) \in Nat
    BY <1>6, WeightOfSubset
<1> QED BY <1>5, <1>7, <1>8

\* A round is no longer than that of all others.
LEMMA AllTheWay ==
    ASSUME NEW p \in Priorities, NEW q \in Priorities, p # q
    PROVE  /\ Distribution[p] + 1 + Weight(Between(p, q)) <= Weight(Priorities \ {q})
           /\ Weight(Between(p, q)) \in Nat /\ Weight(Priorities \ {q}) \in Nat
<1>1. Distance(p, p) = 0
    BY DistanceIs
<1>2. PICK S : S = Priorities \ {q}
    OBVIOUS
<1>3. S \in SUBSET Priorities /\ p \in S /\ S \ {p} \in SUBSET Priorities
    BY <1>2
<1>4. Between(p, q) \in SUBSET (S \ {p})
    <2> SUFFICES ASSUME NEW x \in Between(p, q) PROVE x \in S \ {p}
        OBVIOUS
    <2>1. x \in Priorities /\ 0 < Distance(p, x) /\ Distance(p, x) < Distance(p, q)
        BY DEF Between
    <2>2. Distance(p, x) \in Nat /\ Distance(p, q) \in Nat
        BY <2>1, DistanceIs
    <2>3. x # p /\ x # q
        BY <1>1, <2>1, <2>2
    <2> QED BY <1>2, <2>1, <2>3
<1>5. /\ Weight(S) = Weight(S \ {p}) + Distribution[p] + 1
      /\ Weight(S) \in Nat /\ Weight(S \ {p}) \in Nat /\ Distribution[p] \in Nat
    BY <1>3, WeightOfElement
<1>6. Weight(Between(p, q)) <= Weight(S \ {p}) /\ Weight(Between(p, q)) \in Nat
    BY <1>3, <1>4, WeightOfSubset
<1> QED BY <1>2, <1>5, <1>6

\* Of two priorities with packets, the one that is packed of is nearer, unless the other has
\* had the turn; and it has the turn now.
LEMMA PackedComesFirst ==
    ASSUME turn \in PriorityTracker, TurnFits(turn), PriorityCount # 1, Ready # {},
           NEW q \in Ready, q # NextPriority, q # turn.priority
    PROVE  \/ /\ NextPriority = turn.priority /\ TurnOf(NextPriority).counter = turn.counter + 1
           \/ /\ NextPriority # turn.priority
              /\ Distance(turn.priority, NextPriority) < Distance(turn.priority, q)
<1>1. PriorityCount \in Nat /\ PriorityCount > 0
    BY DistributionAssumption DEF DistributionAssumption
<1> PICK c, p, t : c = turn.priority /\ p = NextPriority /\ t = NextTurn(turn)
    OBVIOUS
<1>2. c \in Priorities /\ p \in Priorities /\ q \in Priorities
    BY NextPriorityIs DEF TurnFits, Ready
<1>3. p \in Ready /\ Distance(t.priority, p) <= Distance(t.priority, q)
    BY NextPriorityIs
<1>4. (t.priority = c /\ t.counter = turn.counter + 1) \/ t.priority = Following(c)
    BY NextTurnFits
<1>5. CASE t.priority = c /\ t.counter = turn.counter + 1
    <2>1. CASE p = c
        <3>1. TurnOf(p) = t
            BY <1>5, <2>1 DEF TurnOf, SkipTo
        <3> QED BY <1>5, <2>1, <3>1
    <2>2. CASE p # c
        <3>1. Distance(c, p) <= Distance(c, q)
            BY <1>3, <1>5
        <3>2. Distance(c, p) # Distance(c, q)
            BY <1>1, <1>2, DistanceIs
        <3>3. Distance(c, p) < Distance(c, q)
            BY <1>2, <3>1, <3>2, DistanceIs
        <3> QED BY <2>2, <3>3
    <2> QED BY <2>1, <2>2
<1>6. CASE t.priority = Following(c)
    <2> PICK f : f = Following(c)
        OBVIOUS
    <2>1. f = (IF c + 1 = PriorityCount THEN 0 ELSE c + 1) /\ f \in Priorities
        BY <1>2, FollowingIs
    <2>2. Distance(f, p) <= Distance(f, q)
        BY <1>3, <1>6
    <2>3. /\ Distance(f, p) = IF f <= p THEN p - f ELSE p - f + PriorityCount
          /\ Distance(f, q) = IF f <= q THEN q - f ELSE q - f + PriorityCount
          /\ Distance(c, p) = IF c <= p THEN p - c ELSE p - c + PriorityCount
          /\ Distance(c, q) = IF c <= q THEN q - c ELSE q - c + PriorityCount
        BY <1>2, <2>1, DistanceIs
    <2>4. /\ f \in Nat /\ p \in Nat /\ q \in Nat /\ c \in Nat
          /\ f < PriorityCount /\ p < PriorityCount /\ q < PriorityCount /\ c < PriorityCount
        BY <1>2, <2>1, DistanceIs
    <2>5. p # q /\ q # c
        OBVIOUS
    <2>6. p # c /\ Distance(c, p) < Distance(c, q)
        BY ONLY <1>1, <2>1, <2>2, <2>3, <2>4, <2>5
    <2> QED BY <2>6
<1> QED BY <1>4, <1>5, <1>6

\* The frame that is packed gives its priority the turn.
LEMMA TurnOfPacked ==
    ASSUME turn \in PriorityTracker, TurnFits(turn), PriorityCount = 1 \/ Ready # {}
    PROVE  TurnOf(NextPriority).priority = NextPriority
<1>1. CASE PriorityCount = 1
    BY <1>1, NextPriorityIs DEF TurnOf, TurnFits
<1>2. CASE PriorityCount # 1
    BY <1>2 DEF TurnOf, SkipTo
<1> QED BY <1>1, <1>2

\* A frame that is packed leaves no one to wait for more than a round.
LEMMA FrameKeepsTurns ==
    ASSUME Sound, TurnsOK, NEW over, NEW size \in Nat, size <= Max(FrameSizes),
           SendFrame(over, size), ~failed'
    PROVE  TurnsOK'
<1>0. turn \in PriorityTracker /\ TurnFits(turn) /\ queue \in [Priorities -> Seq(Entry)]
      /\ waiting \in [Priorities -> Nat]
    BY DEF Sound, StreamOK
<1>1. PICK p \in Priorities, n \in Nat :
          /\ p = NextPriority
          /\ n > 0 /\ queue[p] # <<>> /\ n <= Head(queue[p]).left
          /\ queue' = AfterPack(p, n) /\ turn' = TurnOf(p) /\ waiting' = Waited(p)
    BY FramePacked
<1>2. \A q \in Priorities : q # p => queue'[q] = queue[q]
    BY <1>0, <1>1, AfterPackIs
<1>3. /\ waiting'[p] = 0
      /\ \A q \in Priorities : queue[q] = <<>> => waiting'[q] = 0
      /\ \A q \in Ready : q # p => waiting'[q] = waiting[q] + 1
    BY <1>1 DEF Waited, Ready
<1>4. PriorityCount = 1 \/ Ready # {}
    BY DEF SendFrame
<1>5. turn'.priority = p
    BY <1>0, <1>1, <1>4, TurnOfPacked
<1>6. \A q \in Priorities : queue'[q] = <<>> => waiting'[q] = 0
    BY <1>2, <1>3
<1>7. ASSUME NEW q \in Ready', q # p
      PROVE  waiting'[q] + (Distribution[p] - turn'.counter) + Weight(Between(p, q))
                 <= Weight(Priorities \ {q})
    <2>1. q \in Priorities /\ q \in Ready /\ waiting'[q] = waiting[q] + 1 /\ waiting[q] \in Nat
        BY <1>0, <1>2, <1>3, <1>7 DEF Ready
    <2>2. turn'.counter \in Nat /\ Distribution[p] \in Nat /\ turn'.counter <= Distribution[p]
        BY <1>0, <1>1, <1>5, TurnAfter, WeightOfOne DEF TurnFits
    <2>3. PriorityCount # 1
        BY <1>0, <1>1, <1>4, <1>7, <2>1, NextPriorityIs
    <2> PICK c, k : c = turn.priority /\ k = turn.counter
        OBVIOUS
    <2>4. c \in Priorities /\ k \in Nat /\ Distribution[c] \in Nat /\ k <= Distribution[c]
        BY <1>0, WeightOfOne DEF TurnFits
    <2>5. CASE q = c
        <3>1. waiting[q] = 0
            BY <2>5 DEF TurnsOK
        <3>2. /\ Distribution[p] + 1 + Weight(Between(p, q)) <= Weight(Priorities \ {q})
              /\ Weight(Between(p, q)) \in Nat /\ Weight(Priorities \ {q}) \in Nat
            BY <1>7, <2>1, AllTheWay
        <3> QED BY <2>1, <2>2, <3>1, <3>2
    <2>6. CASE q # c
        <3>1. waiting[q] + (Distribution[c] - k) + Weight(Between(c, q)) <= Weight(Priorities \ {q})
            BY <2>1, <2>6 DEF TurnsOK
        <3>2. /\ Weight(Priorities \ {q}) \in Nat /\ Weight(Between(p, q)) \in Nat
              /\ Weight(Between(c, q)) \in Nat
            BY <1>7, <2>1, <2>4, <2>6, AllTheWay
        <3>3. CASE p = c /\ turn'.counter = k + 1
            BY <2>1, <2>2, <2>4, <3>1, <3>2, <3>3
        <3>4. CASE p # c /\ Distance(c, p) < Distance(c, q)
            <4>1. Distribution[p] + 1 + Weight(Between(p, q)) <= Weight(Between(c, q))
                BY <2>1, <2>4, <3>4, Nearer
            <4> QED BY <2>1, <2>2, <2>4, <3>1, <3>2, <4>1
        <3>5. Ready # {}
            BY <2>1
        <3> QED BY <1>0, <1>1, <1>7, <2>1, <2>3, <2>6, <3>3, <3>4, <3>5, PackedComesFirst
    <2> QED BY <2>5, <2>6
<1> QED BY <1>3, <1>5, <1>6, <1>7 DEF TurnsOK

\* A packet that is written waits for no more than a round.
LEMMA EnqueueKeepsTurns ==
    ASSUME Sound, TurnsOK, NEW p \in Priorities, NEW packet \in Packets, Enqueue(p, packet)
    PROVE  TurnsOK'
<1>1. turn' = turn /\ waiting' = waiting
    BY DEF Enqueue
<1>2. TurnFits(turn) /\ queue \in [Priorities -> Seq(Entry)] /\ waiting \in [Priorities -> Nat]
    BY DEF Sound, StreamOK
<1>3. /\ \A q \in Priorities : q # p => queue'[q] = queue[q]
      /\ queue'[p] # <<>>
    <2>1. PICK e : queue' = [queue EXCEPT ![p] = Append(queue[p], e)]
        BY DEF Enqueue
    <2>2. Append(queue[p], e) # <<>>
        BY <1>2
    <2> QED BY <1>2, <2>1, <2>2
<1>4. PICK c, k : c = turn.priority /\ k = turn.counter
    OBVIOUS
<1>5. c \in Priorities /\ k \in Nat /\ Distribution[c] \in Nat /\ k <= Distribution[c]
    BY <1>2, <1>4, WeightOfOne DEF TurnFits
<1>6. \A q \in Priorities : queue'[q] = <<>> => waiting'[q] = 0
    BY <1>1, <1>3 DEF TurnsOK
<1>7. ASSUME NEW q \in Ready', q # c
      PROVE  waiting[q] + (Distribution[c] - k) + Weight(Between(c, q)) <= Weight(Priorities \ {q})
    <2>1. q \in Priorities
        BY DEF Ready
    <2>2. CASE q \in Ready
        BY <1>4, <1>7, <2>2 DEF TurnsOK
    <2>3. CASE q \notin Ready
        <3>1. waiting[q] = 0
            BY <2>1, <2>3 DEF Ready, TurnsOK
        <3>2. /\ Distribution[c] + 1 + Weight(Between(c, q)) <= Weight(Priorities \ {q})
              /\ Weight(Between(c, q)) \in Nat /\ Weight(Priorities \ {q}) \in Nat
            BY <1>5, <1>7, <2>1, AllTheWay
        <3> QED BY <1>5, <3>1, <3>2
    <2> QED BY <2>2, <2>3
<1>8. waiting'[turn'.priority] = 0
    BY <1>1 DEF TurnsOK
<1> QED BY <1>1, <1>4, <1>6, <1>7, <1>8 DEF TurnsOK

\* A step that packs nothing leaves the turns as they are, or no one waits.
LEMMA SendNothingKeepsTurns ==
    ASSUME Sound, TurnsOK, NEW over, NEW size, SendNoFrame(over, size)
    PROVE  TurnsOK'
<1>1. queue' = queue /\ waiting' = waiting
    BY DEF SendNoFrame, SendsNothing
<1>2. CASE idle
    <2>1. turn' = turn
        BY <1>2 DEF SendNoFrame
    <2> QED BY <1>1, <2>1 DEF TurnsOK, Ready
<1>3. CASE ~idle
    <2>1. Ready = {} /\ turn' = SkipAll(NextTurn(turn))
        BY <1>3 DEF SendNoFrame
    <2>2. turn \in PriorityTracker /\ TurnFits(turn) /\ 0 \in Priorities
        BY DistributionAssumption DEF Sound, StreamOK, DistributionAssumption, Priorities
    <2>3. turn'.priority \in Priorities
        BY <2>1, <2>2, TurnAfter DEF TurnFits
    <2>4. \A q \in Priorities : waiting'[q] = 0
        BY <1>1, <2>1 DEF TurnsOK, Ready
    <2>5. Ready' = {}
        BY <1>1, <2>1 DEF Ready
    <2> QED BY <2>3, <2>4, <2>5 DEF TurnsOK
<1> QED BY <1>2, <1>3

\* Every step keeps the turns.
LEMMA TurnsStep ==
    ASSUME Sound, TurnsOK, [Next]_vars
    PROVE  TurnsOK'
<1>0. ASSUME UNCHANGED <<queue, turn, waiting>> PROVE TurnsOK'
    BY <1>0 DEF TurnsOK, Ready
<1>1. ASSUME NEW over \in BOOLEAN, SendAt(over) PROVE TurnsOK'
    <2>1. CASE Throttle(over)
        BY <1>0, <2>1 DEF Throttle, SendsNothing
    <2>2. CASE \E size \in {Tuned(over)} : SendRest(over, size)
        BY <1>0, <2>2 DEF SendRest, SendThrows, SendsNothing
    <2>3. CASE \E size \in {Tuned(over)} : SendNoFrame(over, size)
        BY <2>3, SendNothingKeepsTurns
    <2>4. CASE \E size \in {Tuned(over)} : SendFrame(over, size)
        <3> PICK size \in {Tuned(over)} : SendFrame(over, size)
            BY <2>4
        <3>1. CASE failed'
            <4>1. SendThrows(over)
                BY <3>1 DEF SendFrame, Sends
            <4> QED BY <1>0, <4>1 DEF SendThrows, SendsNothing
        <3>2. CASE ~failed'
            <4>1. size \in Nat /\ size <= maxFrame /\ maxFrame \in Nat /\ maxFrame <= Max(FrameSizes)
                BY SizeFits DEF Sound, AccountOK
            <4>2. size <= Max(FrameSizes)
                BY <4>1, LargestFrame
            <4> QED BY <3>2, <4>1, <4>2, FrameKeepsTurns
        <3> QED BY <3>1, <3>2
    <2> QED BY <1>1, <2>1, <2>2, <2>3, <2>4 DEF SendAt
<1>2. CASE Send
    <2>1. NotWritable => UNCHANGED <<queue, turn, waiting>>
        BY DEF NotWritable, sender
    <2> QED BY <1>0, <1>1, <1>2, <2>1 DEF Send
<1>3. CASE (\E size \in FrameSizes : SetFrameSize(size)) \/ Poll \/ Ripens
    BY <1>0, <1>3 DEF SetFrameSize, Poll, Ripens, sender
<1>4. CASE Arrive
    BY <1>0, <1>4 DEF Arrive, Receive
<1>5. CASE UNCHANGED vars
    BY <1>0, <1>5 DEF vars, sender
<1> QED BY <1>2, <1>3, <1>4, <1>5, EnqueueKeepsTurns DEF Next

\* A priority that has packets waits for no more frames of the others than a round of their
\* weights and one more of each, whatever the weights (priority_tracker.hpp:52).
THEOREM TurnsComeRound == Spec => []ServedInTurn
<1>1. Init => TurnsOK
    <2> SUFFICES ASSUME Init PROVE TurnsOK
        OBVIOUS
    <2>1. 0 \in Priorities
        BY DistributionAssumption DEF DistributionAssumption, Priorities
    <2>2. Ready = {}
        BY DEF Init, Ready
    <2> QED BY <2>1, <2>2 DEF Init, TurnsOK, InitialTurn
<1>2. Sound /\ TurnsOK /\ [Next]_vars => TurnsOK'
    BY TurnsStep
<1>3. Sound /\ TurnsOK => ServedInTurn
    <2> SUFFICES ASSUME Sound, TurnsOK, NEW p \in Priorities
                 PROVE  waiting[p] <= Weight(Priorities \ {p})
        BY DEF ServedInTurn, Weight
    <2>1. Weight(Priorities \ {p}) \in Nat /\ waiting[p] \in Nat
        BY WeightOfSubset DEF Sound, StreamOK
    <2>2. CASE p \in Ready /\ p # turn.priority
        <3> PICK c, k : c = turn.priority /\ k = turn.counter
            OBVIOUS
        <3>1. c \in Priorities /\ k \in Nat /\ Distribution[c] \in Nat /\ k <= Distribution[c]
            BY WeightOfOne DEF Sound, StreamOK, TurnFits
        <3>2. waiting[p] + (Distribution[c] - k) + Weight(Between(c, p)) <= Weight(Priorities \ {p})
            BY <2>2 DEF TurnsOK
        <3>3. Weight(Between(c, p)) \in Nat
            BY <2>2, <3>1, AllTheWay
        <3> QED BY <2>1, <3>1, <3>2, <3>3
    <2>3. CASE ~(p \in Ready /\ p # turn.priority)
        <3>1. waiting[p] = 0
            BY <2>3 DEF TurnsOK, Ready
        <3> QED BY <2>1, <3>1
    <2> QED BY <2>2, <2>3
<1> QED BY <1>1, <1>2, <1>3, SoundAlways, PTL DEF Spec
-----------------------------------------------------------------------------
(***************************************************************************)
(* The limit on what is sent in a second.                                  *)
(***************************************************************************)

\* What has been sent is counted up to less than a frame over the limit: more is sent only
\* while the count is below it, and then no more than a frame.
LEMMA RateStep ==
    ASSUME Sound, RateWithinFrame, [Next]_vars
    PROVE  RateWithinFrame'
<1> SUFFICES ASSUME Throttling # "unlimited"
             PROVE  recent' < RateLimit + Max(FrameSizes)
    BY DEF RateWithinFrame
<1>0. /\ recent \in Nat /\ recent < RateLimit + Max(FrameSizes)
      /\ RateLimit \in Nat /\ RateLimit > 0 /\ Max(FrameSizes) \in Nat
    BY LargestFrame, StreamAssumption DEF Sound, AccountOK, RateWithinFrame, StreamAssumption
<1>1. ASSUME recent' = recent PROVE recent' < RateLimit + Max(FrameSizes)
    BY <1>0, <1>1
<1>2. ASSUME NEW over \in BOOLEAN, SendsNothing(over) PROVE recent' < RateLimit + Max(FrameSizes)
    <2>1. recent' = (IF over THEN 0 ELSE recent) + 0
        BY <1>2 DEF SendsNothing, Counted
    <2> QED BY <1>0, <2>1
<1>3. ASSUME NEW over \in BOOLEAN, NEW left \in Nat, left > 0, left <= Tuned(over), Transmit(over, left)
      PROVE  recent' < RateLimit + Max(FrameSizes)
    <2>1. recent' \in Nat /\ recent' <= (IF over THEN 0 ELSE recent) + left
        BY <1>3, TransmitCounts DEF Sound
    <2>2. /\ Tuned(over) \in Nat /\ Tuned(over) <= maxFrame
          /\ Tuned(over) > 0 /\ ~over => recent < RateNow
          /\ maxFrame \in Nat /\ maxFrame <= Max(FrameSizes)
        BY SizeFits DEF Sound, AccountOK
    <2>3. RateNow \in Nat /\ RateNow <= RateLimit
        BY <1>0, RateStays DEF Sound, AccountOK
    <2>4. left <= Max(FrameSizes)
        BY <1>0, <1>3, <2>2
    <2>5. CASE over
        BY <1>0, <2>1, <2>4, <2>5
    <2>6. CASE ~over
        <3>1. recent < RateLimit
            BY <1>0, <1>3, <2>2, <2>3, <2>6
        <3> QED BY <1>0, <2>1, <2>4, <2>6, <3>1
    <2> QED BY <2>5, <2>6
<1>4. ASSUME NEW over \in BOOLEAN, SendAt(over) PROVE recent' < RateLimit + Max(FrameSizes)
    <2>1. CASE Throttle(over)
        BY <1>2, <2>1 DEF Throttle
    <2>2. ASSUME NEW size \in {Tuned(over)}, SendRest(over, size)
          PROVE  recent' < RateLimit + Max(FrameSizes)
        <3>1. CASE frame > size
            BY <1>2, <2>2, <3>1 DEF SendRest, SendThrows
        <3>2. CASE ~(frame > size)
            <4>1. Transmit(over, frame) /\ frame > 0 /\ frame \in Nat
                BY <2>2, <3>2 DEF SendRest, Sound, StreamOK
            <4>2. Tuned(over) \in Nat
                BY SizeFits DEF Sound, AccountOK
            <4> QED BY <1>3, <3>2, <4>1, <4>2
        <3> QED BY <3>1, <3>2
    <2>3. ASSUME NEW size \in {Tuned(over)}, SendNoFrame(over, size)
          PROVE  recent' < RateLimit + Max(FrameSizes)
        BY <1>2, <2>3 DEF SendNoFrame
    <2>4. ASSUME NEW size \in {Tuned(over)}, SendFrame(over, size)
          PROVE  recent' < RateLimit + Max(FrameSizes)
        <3>1. CASE failed'
            <4>1. SendThrows(over)
                BY <2>4, <3>1 DEF SendFrame, Sends
            <4> QED BY <1>2, <4>1 DEF SendThrows
        <3>2. CASE ~failed'
            <4>1. size \in Nat /\ size <= maxFrame /\ maxFrame \in Nat /\ maxFrame <= Max(FrameSizes)
                BY SizeFits DEF Sound, AccountOK
            <4>2. size <= Max(FrameSizes)
                BY <1>0, <4>1
            <4>3. \E n \in Nat : n > 0 /\ n + EmptyFrame <= size /\ Transmit(over, n + EmptyFrame)
                BY <2>4, <3>2, <4>1, <4>2, FramePacked
            <4> PICK n \in Nat : n > 0 /\ n + EmptyFrame <= size /\ Transmit(over, n + EmptyFrame)
                BY <4>3
            <4>4. PICK left \in Nat : left = n + EmptyFrame
                BY LargestFrame
            <4>5. left > 0 /\ left <= Tuned(over) /\ Transmit(over, left)
                BY <4>4, LargestFrame
            <4> QED BY <1>3, <4>5
        <3> QED BY <3>1, <3>2
    <2> QED BY <1>4, <2>1, <2>2, <2>3, <2>4 DEF SendAt
<1>5. CASE Send
    <2>1. NotWritable => recent' = recent
        BY DEF NotWritable, account
    <2> QED BY <1>1, <1>4, <1>5, <2>1 DEF Send
<1>6. CASE (\E p \in Priorities, packet \in Packets : Enqueue(p, packet))
            \/ (\E size \in FrameSizes : SetFrameSize(size)) \/ Poll \/ Ripens
    BY <1>1, <1>6 DEF Enqueue, SetFrameSize, Poll, Ripens, account
<1>7. CASE Arrive
    BY <1>1, <1>7 DEF Arrive, Receive, account
<1>8. CASE UNCHANGED vars
    BY <1>1, <1>8 DEF vars, account
<1> QED BY <1>5, <1>6, <1>7, <1>8 DEF Next

\* A limit is exceeded by less than a frame, while the adaptive rate goes down too
\* (writer_pool.hpp:509, :515).
THEOREM LimitIsKept == Spec => []RateWithinFrame
<1>1. Init => RateWithinFrame
    <2> SUFFICES ASSUME Init PROVE RateWithinFrame
        OBVIOUS
    <2>1. recent = 0 /\ RateLimit \in Nat /\ RateLimit > 0 /\ Max(FrameSizes) \in Nat
        BY LargestFrame, StreamAssumption DEF Init, StreamAssumption
    <2> QED BY <2>1 DEF RateWithinFrame
<1>2. Sound /\ RateWithinFrame /\ [Next]_vars => RateWithinFrame'
    BY RateStep
<1> QED BY <1>1, <1>2, SoundAlways, PTL DEF Spec

-----------------------------------------------------------------------------
(***************************************************************************)
(* What an assertion throws for.                                           *)
(***************************************************************************)

\* No step asks for a size below the smallest there is after it.
LEMMA SmallestIsAsked ==
    ASSUME Sound, NEW over, NEW size, Sends(over, size), size > 0
    PROVE  size \in Nat /\ SmallestSize' \in Nat /\ SmallestSize' <= size
<1>1. size = Tuned(over) /\ rate' = RateNow /\ maxFrame' = maxFrame
    BY DEF Sends
<1>2. maxFrame \in Nat /\ size \in Nat /\ size \in {0, maxFrame, Min({maxFrame, RateNow})}
    BY <1>1, SizeFits DEF Sound, AccountOK
<1>3. RateNow \in Nat
    BY RateStays DEF Sound, AccountOK
<1>4. Throttling = "unlimited" => size = maxFrame
    BY <1>1 DEF Tuned
<1>5. PICK r \in Nat : r = RateNow
    BY <1>3
<1>6. Min({maxFrame, r}) = IF maxFrame <= r THEN maxFrame ELSE r
    BY <1>2, LeastOfTwo
<1>7. SmallestSize' = IF Throttling = "unlimited" THEN maxFrame ELSE Min({maxFrame, r})
    BY <1>1, <1>5 DEF SmallestSize
<1> QED BY ONLY <1>2, <1>4, <1>5, <1>6, <1>7, size > 0

\* The rest of a frame, which is no longer than the size it was cut for, throws only if
\* a smaller one is asked for.
LEMMA RestThrows ==
    ASSUME Sound, NEW over \in BOOLEAN, NEW size, SendRest(over, size), failed'
    PROVE  ThrowsOnlyWhenShrunk'
<1>1. Sends(over, size) /\ size > 0 /\ ~failed
    BY DEF SendRest, Sends
<1>2. frame > size /\ SendThrows(over)
    BY <1>1 DEF SendRest
<1>3. frame' = frame /\ cut' = cut
    BY <1>2 DEF SendThrows, SendsNothing
<1>4. size \in Nat /\ SmallestSize' \in Nat /\ SmallestSize' <= size
    BY <1>1, SmallestIsAsked
<1>5. frame \in Nat /\ frame <= cut
    BY DEF Sound, StreamOK
<1>6. SmallestSize' < frame' /\ frame' <= cut'
    BY ONLY <1>2, <1>3, <1>4, <1>5
<1> QED BY <1>6 DEF ThrowsOnlyWhenShrunk

\* A frame that is packed throws only without room for a byte, or if the one queue there
\* is has no packet.
LEMMA FrameThrows ==
    ASSUME Sound, NEW over \in BOOLEAN, NEW size, SendFrame(over, size), failed'
    PROVE  ThrowsOnlyWhenShrunk'
<1> DEFINE p == NextPriority
           front == Head(queue[p])
           n == Payload(front, size)
<1>1. Sends(over, size) /\ size > 0 /\ ~failed
    BY DEF SendFrame, Sends
<1>2. (queue[p] = <<>> \/ n <= 0) /\ SendThrows(over)
    BY <1>1 DEF SendFrame
<1>3. queue' = queue
    BY <1>2 DEF SendThrows, SendsNothing
<1>4. turn \in PriorityTracker /\ TurnFits(turn) /\ queue \in [Priorities -> Seq(Entry)]
    BY DEF Sound, StreamOK
<1>5. PriorityCount = 1 \/ Ready # {}
    BY DEF SendFrame
<1>6. p \in Priorities
    BY <1>4, <1>5, NextPriorityIs
<1>7. CASE queue[p] = <<>>
    <2>1. PriorityCount = 1
        <3> SUFFICES ASSUME PriorityCount # 1 PROVE FALSE
            OBVIOUS
        <3>1. p \in Ready
            BY <1>4, <1>5, NextPriorityIs
        <3> HIDE DEF p
        <3> QED BY <1>7, <3>1 DEF Ready
    <2>2. p = 0
        BY <2>1 DEF NextPriority
    <2>3. queue'[0] = <<>>
        BY <1>3, <1>7, <2>2
    <2> QED BY <2>1, <2>3 DEF ThrowsOnlyWhenShrunk
<1>8. CASE queue[p] # <<>>
    <2>1. n <= 0
        BY <1>2, <1>8
    <2>2. front \in Entry
        <3> HIDE DEF p
        <3>1. queue[p] \in Seq(Entry)
            BY <1>4, <1>6
        <3> QED BY <1>8, <3>1, HeadTailProperties
    <2>3. front.left \in Nat /\ front.left > 0 /\ EmptyFrame \in Nat
        <3> HIDE DEF front
        <3> QED BY <2>2, LargestFrame DEF Entry
    <2>4. size \in Nat /\ SmallestSize' \in Nat /\ SmallestSize' <= size
        BY <1>1, SmallestIsAsked
    <2>5. PICK whole \in Nat : whole = front.left + EmptyFrame
        BY <2>3
    <2>6. Min({whole, size}) = IF whole <= size THEN whole ELSE size
        BY <2>4, LeastOfTwo
    <2>7. n = Min({whole, size}) - EmptyFrame
        BY <2>5 DEF Payload
    <2>8. size <= EmptyFrame
        <3> HIDE DEF n, front
        <3> QED BY ONLY <2>1, <2>3, <2>4, <2>5, <2>6, <2>7
    <2>9. SmallestSize' <= EmptyFrame
        BY ONLY <2>3, <2>4, <2>8
    <2> QED BY <2>9 DEF ThrowsOnlyWhenShrunk
<1> QED BY <1>7, <1>8

\* Once an assertion has thrown nothing is sent, and its reason stays.
LEMMA ThrowStep ==
    ASSUME Sound, ThrowsOnlyWhenShrunk, [Next]_vars
    PROVE  ThrowsOnlyWhenShrunk'
<1>1. ASSUME UNCHANGED <<failed, queue, frame, cut, maxFrame, rate>> PROVE ThrowsOnlyWhenShrunk'
    BY <1>1 DEF ThrowsOnlyWhenShrunk, SmallestSize
<1>2. ASSUME ~failed' PROVE ThrowsOnlyWhenShrunk'
    BY <1>2 DEF ThrowsOnlyWhenShrunk
<1>3. ASSUME NEW over \in BOOLEAN, SendAt(over) PROVE ThrowsOnlyWhenShrunk'
    <2>1. CASE Throttle(over)
        <3>1. ~failed'
            BY <2>1 DEF Throttle, Sends
        <3> QED BY <1>2, <3>1
    <2>2. ASSUME NEW size \in {Tuned(over)}, SendRest(over, size) PROVE ThrowsOnlyWhenShrunk'
        BY <1>2, <2>2, RestThrows
    <2>3. ASSUME NEW size \in {Tuned(over)}, SendNoFrame(over, size) PROVE ThrowsOnlyWhenShrunk'
        <3>1. ~failed'
            BY <2>3 DEF SendNoFrame, Sends
        <3> QED BY <1>2, <3>1
    <2>4. ASSUME NEW size \in {Tuned(over)}, SendFrame(over, size) PROVE ThrowsOnlyWhenShrunk'
        BY <1>2, <2>4, FrameThrows
    <2> QED BY <1>3, <2>1, <2>2, <2>3, <2>4 DEF SendAt
<1>4. CASE Send
    <2>1. NotWritable => ~failed'
        BY DEF NotWritable
    <2> QED BY <1>2, <1>3, <1>4, <2>1 DEF Send
<1>5. CASE \/ \E p \in Priorities, packet \in Packets : Enqueue(p, packet)
           \/ \E size \in FrameSizes : SetFrameSize(size)
           \/ Poll
    <2>1. ~failed'
        BY <1>5 DEF Enqueue, SetFrameSize, Poll
    <2> QED BY <1>2, <2>1
<1>6. CASE Ripens
    BY <1>1, <1>6 DEF Ripens, sender, account
<1>7. CASE Arrive
    BY <1>1, <1>7 DEF Arrive, Receive, account
<1>8. CASE UNCHANGED vars
    BY <1>1, <1>8 DEF vars, sender, account
<1> QED BY <1>4, <1>5, <1>6, <1>7, <1>8 DEF Next

\* An assertion throws only for an empty queue of one priority, for a rate without room
\* for a byte, or for a frame cut for a larger size than is asked for now
\* (priority_writer_queue.hpp:58, :125, priority_frame.hpp:96).  With several priorities
\* and sizes that have room and do not become smaller under a frame none throws.
THEOREM ThrowsAreKnown == Spec => []ThrowsOnlyWhenShrunk
<1>1. Init => ThrowsOnlyWhenShrunk
    BY DEF Init, ThrowsOnlyWhenShrunk
<1>2. Sound /\ ThrowsOnlyWhenShrunk /\ [Next]_vars => ThrowsOnlyWhenShrunk'
    BY ThrowStep
<1> QED BY <1>1, <1>2, SoundAlways, PTL DEF Spec

-----------------------------------------------------------------------------
(***************************************************************************)
(* Bytes that are those of whole packets are parsed to these packets.      *)
(***************************************************************************)

\* A sequence is its head and what follows.
LEMMA HeadFirst ==
    ASSUME NEW D, NEW s \in Seq(D), s # <<>>
    PROVE  s = <<Head(s)>> \o Tail(s) /\ <<Head(s)>> \in Seq(D)
<1>1. Len(s) \in Nat /\ Len(s) # 0
    BY LenProperties, EmptySeq
<1>2. 1 \in 1 .. Len(s) /\ Len(s) \in 1 .. Len(s)
    BY <1>1
<1>3. SubSeq(s, 1, Len(s)) = <<s[1]>> \o SubSeq(s, 1 + 1, Len(s))
    BY ONLY <1>2, s \in Seq(D), SubSeqRecursiveFirst
<1>4. SubSeq(s, 1, Len(s)) = s
    BY SubSeqFull
<1>5. Tail(s) = SubSeq(s, 2, Len(s))
    BY TailIsSubSeq
<1>6. Head(s) = s[1]
    OBVIOUS
<1>7. <<Head(s)>> \in Seq(D)
    BY HeadTailProperties
<1> QED BY <1>3, <1>4, <1>5, <1>6, <1>7

\* The head of a sequence may as well be the end of what comes before it.
LEMMA FirstMoved ==
    ASSUME NEW D, NEW v \in Seq(D), NEW w \in Seq(D), w # <<>>
    PROVE  Append(v, Head(w)) \o Tail(w) = v \o w /\ Append(v, Head(w)) \in Seq(D)
<1>1. PICK one, rest : one = <<Head(w)>> /\ rest = Tail(w)
    OBVIOUS
<1>2. one \in Seq(D) /\ rest \in Seq(D) /\ w = one \o rest /\ Head(w) \in D
    BY <1>1, HeadFirst, HeadTailProperties
<1>3. Append(v, Head(w)) = v \o one /\ Append(v, Head(w)) \in Seq(D)
    BY <1>1, <1>2, AppendIsConcat, AppendProperties
<1>4. (v \o one) \o rest = v \o (one \o rest)
    <2>1. Regrouped(v, one, rest)
        BY ONLY <1>2, v \in Seq(D), Regroup
    <2> QED BY ONLY <2>1 DEF Regrouped
<1> QED BY <1>1, <1>2, <1>3, <1>4

\* What is put in front of something is a prefix.
LEMMA PutInFront ==
    ASSUME NEW D, NEW s \in Seq(D), NEW t \in Seq(D)
    PROVE  IsPrefix(s, s \o t)
<1>1. /\ Len(s) \in Nat /\ Len(t) \in Nat /\ s \o t \in Seq(D) /\ Len(s \o t) = Len(s) + Len(t)
    BY LenProperties, ConcatProperties
<1>2. CASE Len(s) = 0
    <2>1. SubSeq(s, 1, 0) = <<>> /\ SubSeq(s \o t, 1, 0) = <<>>
        BY SubSeqEmpty
    <2> QED BY <1>1, <1>2, <2>1 DEF IsPrefix
<1>3. CASE Len(s) # 0
    <2>1. PICK one, n : one = 1 /\ n = Len(s)
        OBVIOUS
    <2>2. one \in 1 .. Len(s) /\ n \in 1 .. Len(s)
        BY <1>1, <1>3, <2>1
    <2>3. SubSeq(s \o t, one, n) = SubSeq(s, one, n)
        BY ONLY <2>2, s \in Seq(D), t \in Seq(D), SubSeqOfConcat1
    <2> QED BY <1>1, <2>1, <2>3 DEF IsPrefix
<1> QED BY <1>2, <1>3

\* Of the same sequence, prefixes of the same length are the same.
LEMMA CutAlike ==
    ASSUME NEW D, NEW a \in Seq(D), NEW s \in Seq(D), NEW b \in Seq(D), NEW t \in Seq(D),
           a \o s = b \o t, Len(a) = Len(b)
    PROVE  a = b /\ s = t
<1>1. Len(a) \in Nat /\ Len(s) \in Nat /\ Len(t) \in Nat
    BY LenProperties
<1>2. \A i \in 1 .. Len(a) + Len(s) : (a \o s)[i] = IF i <= Len(a) THEN a[i] ELSE s[i - Len(a)]
    BY ConcatProperties
<1>3. \A i \in 1 .. Len(b) + Len(t) : (b \o t)[i] = IF i <= Len(b) THEN b[i] ELSE t[i - Len(b)]
    BY ConcatProperties
<1>4. ASSUME NEW i \in 1 .. Len(a) PROVE a[i] = b[i]
    <2>1. i \in 1 .. Len(a) + Len(s) /\ i \in 1 .. Len(b) + Len(t) /\ i <= Len(a) /\ i <= Len(b)
        BY <1>1
    <2>2. (a \o s)[i] = a[i] /\ (b \o t)[i] = b[i]
        BY <1>2, <1>3, <2>1
    <2> QED BY <2>2
<1>5. a = b
    BY <1>4, SeqEqual
<1>6. s = t
    BY <1>5, ConcatSimplifications
<1> QED BY <1>5, <1>6

\* Bytes of whole packets begin with the first of these packets.
LEMMA FirstOfWhole ==
    ASSUME NEW s \in Seq(Packets), NEW t \in Seq(Packets), NEW w \in Seq(Packets),
           s # <<>>, s \o t = Spread(Whole, w)
    PROVE  /\ w # <<>> /\ Head(w) \in Packets /\ Tail(w) \in Seq(Packets)
           /\ Head(s) = Head(w)
           /\ s \o t = Copies(Head(w), Size[Head(w)]) \o Spread(Whole, Tail(w))
           /\ Spread(Whole, Tail(w)) \in Seq(Packets)
<1>0. MapsTo(Whole, Packets, Packets)
    BY BytesMaps
<1>1. w # <<>>
    <2> SUFFICES ASSUME w = <<>> PROVE FALSE
        OBVIOUS
    <2>1. Spread(Whole, <<>>) = <<>>
        BY ONLY <1>0, SpreadOfNone
    <2>2. s \o t = <<>>
        BY <2>1
    <2> QED BY <2>2, ConcatEqualIffEmpty
<1>2. /\ Spread(Whole, w) = Whole[Head(w)] \o Spread(Whole, Tail(w))
      /\ Head(w) \in Packets /\ Tail(w) \in Seq(Packets) /\ Spread(Whole, Tail(w)) \in Seq(Packets)
    BY ONLY <1>0, <1>1, w \in Seq(Packets), SpreadOfHead
<1>3. PICK x, k, c, later : /\ x = Head(w) /\ k = Size[x] /\ c = Copies(x, k)
                            /\ later = Spread(Whole, Tail(w))
    OBVIOUS
<1>4. x \in Packets /\ k \in Nat /\ k > 0 /\ later \in Seq(Packets)
    BY <1>2, <1>3, StreamAssumption DEF StreamAssumption
<1>5. c \in Seq(Packets) /\ Len(c) = k /\ \A b \in 1 .. k : c[b] = x
    BY <1>3, <1>4, CopiesSeq
<1>6. s \o t = c \o later
    BY <1>2, <1>3, <1>4 DEF Whole
<1>7. Head(s) = x
    <2>1. Len(s) \in Nat /\ Len(s) # 0 /\ Len(t) \in Nat /\ Len(later) \in Nat
        BY <1>4, LenProperties, EmptySeq
    <2>2. \A i \in 1 .. Len(s) + Len(t) : (s \o t)[i] = IF i <= Len(s) THEN s[i] ELSE t[i - Len(s)]
        BY ConcatProperties
    <2>3. \A i \in 1 .. Len(c) + Len(later) :
              (c \o later)[i] = IF i <= Len(c) THEN c[i] ELSE later[i - Len(c)]
        BY <1>4, <1>5, ConcatProperties
    <2>4. 1 \in 1 .. Len(s) + Len(t) /\ 1 <= Len(s) /\ 1 \in 1 .. Len(c) + Len(later) /\ 1 <= Len(c)
        BY <1>4, <1>5, <2>1
    <2>5. (s \o t)[1] = s[1] /\ (c \o later)[1] = c[1]
        BY <2>2, <2>3, <2>4
    <2>6. 1 \in 1 .. k
        BY <1>4
    <2>7. c[1] = x
        BY <1>5, <2>6
    <2> QED BY <1>6, <2>5, <2>7
<1> QED BY <1>1, <1>2, <1>3, <1>6, <1>7

\* What is parsed are packets v, and what is left, with what is to come, is packets w.
Left(parsed, tail, v, w) ==
    /\ parsed.packets = v /\ parsed.rest \o tail = Spread(Whole, w)
    /\ parsed.rest = <<>> \/ Len(parsed.rest) < Size[Head(parsed.rest)]

\* A byte more makes the next packet whole, or not yet.
LEMMA ByteKeeps ==
    ASSUME NEW parsed \in ParseState, NEW b \in Packets, NEW tail \in Seq(Packets),
           NEW v \in Seq(Packets), NEW w \in Seq(Packets), Left(parsed, <<b>> \o tail, v, w)
    PROVE  \/ Left(ParseByte(parsed, b), tail, v, w)
           \/ /\ w # <<>> /\ Head(w) \in Packets /\ Tail(w) \in Seq(Packets)
              /\ Left(ParseByte(parsed, b), tail, Append(v, Head(w)), Tail(w))
<1>1. parsed.rest \in Seq(Packets)
    BY DEF ParseState
<1> PICK old, rest, n : old = parsed.rest /\ rest = Append(old, b) /\ n = Len(old)
    OBVIOUS
<1>2. /\ old \in Seq(Packets) /\ n \in Nat
      /\ rest \in Seq(Packets) /\ Len(rest) = n + 1 /\ rest[n + 1] = b /\ rest # <<>>
    <2>1. old \in Seq(Packets)
        BY <1>1
    <2>2. rest \in Seq(Packets) /\ Len(rest) = Len(old) + 1 /\ rest[Len(old) + 1] = b
        BY <2>1, AppendProperties
    <2>3. n \in Nat
        BY <2>1, LenProperties
    <2>4. rest # <<>>
        <3>1. Len(rest) # Len(<<>>)
            BY <2>2, <2>3, EmptySeq
        <3> QED BY <3>1
    <2> QED BY <2>1, <2>2, <2>3, <2>4
<1>3. rest \o tail = Spread(Whole, w)
    <2>1. rest = old \o <<b>> /\ <<b>> \in Seq(Packets)
        BY <1>2, AppendIsConcat
    <2>2. PICK one : one = <<b>>
        OBVIOUS
    <2>3. old \in Seq(Packets) /\ one \in Seq(Packets)
        BY <1>2, <2>1, <2>2
    <2>4. (old \o one) \o tail = old \o (one \o tail)
        <3>1. Regrouped(old, one, tail)
            BY ONLY <2>3, tail \in Seq(Packets), Regroup
        <3> QED BY ONLY <3>1 DEF Regrouped
    <2>5. parsed.rest \o (<<b>> \o tail) = Spread(Whole, w)
        BY DEF Left
    <2> QED BY <2>1, <2>2, <2>4, <2>5
<1>4. /\ w # <<>> /\ Head(w) \in Packets /\ Tail(w) \in Seq(Packets)
      /\ Head(rest) = Head(w)
      /\ rest \o tail = Copies(Head(w), Size[Head(w)]) \o Spread(Whole, Tail(w))
      /\ Spread(Whole, Tail(w)) \in Seq(Packets)
    BY <1>2, <1>3, FirstOfWhole
<1> PICK x, k, whole, later : /\ x = Head(w) /\ k = Size[x] /\ whole = Copies(x, k)
                              /\ later = Spread(Whole, Tail(w))
    OBVIOUS
<1>5. x \in Packets /\ k \in Nat /\ k > 0
    BY <1>4, StreamAssumption DEF StreamAssumption
<1>6. whole \in Seq(Packets) /\ Len(whole) = k /\ \A i \in 1 .. k : whole[i] = x
    BY <1>5, CopiesSeq
<1>7. ParseByte(parsed, b) =
          IF Len(rest) < Size[Head(rest)] THEN [parsed EXCEPT !.rest = rest]
          ELSE [packets |-> Append(parsed.packets, IF ToSet(rest) = {b} THEN b ELSE Garbled),
                rest |-> <<>>]
    BY DEF ParseByte
<1>8. CASE Len(rest) < Size[Head(rest)]
    <2>1. ParseByte(parsed, b) = [parsed EXCEPT !.rest = rest]
        BY <1>7, <1>8
    <2>2. ParseByte(parsed, b).packets = parsed.packets /\ ParseByte(parsed, b).rest = rest
        BY <2>1 DEF ParseState
    <2> QED BY <1>3, <1>8, <2>2 DEF Left
<1>9. CASE ~(Len(rest) < Size[Head(rest)])
    <2>1. Len(rest) = k
        <3>0. n \in Nat /\ k \in Nat /\ k > 0 /\ Len(rest) = n + 1
            BY <1>2, <1>5
        <3>1. n + 1 >= k
            BY <1>4, <1>9, <3>0
        <3>2. CASE old = <<>>
            <4>1. n = 0
                BY <3>2, EmptySeq
            <4> QED BY ONLY <3>0, <3>1, <4>1
        <3>3. CASE old # <<>>
            <4>1. Head(rest) = Head(old)
                BY <1>2, <3>3, HeadTailAppend
            <4>2. n < Size[Head(old)]
                BY <3>3 DEF Left
            <4>3. n < k
                BY <1>4, <4>1, <4>2
            <4> QED BY ONLY <3>0, <3>1, <4>3
        <3> QED BY <3>2, <3>3
    <2>2. rest = whole /\ tail = later
        <3>1. rest \o tail = whole \o later /\ Len(rest) = Len(whole) /\ later \in Seq(Packets)
            BY <1>4, <1>6, <2>1
        <3>2. rest \in Seq(Packets) /\ whole \in Seq(Packets)
            BY <1>2, <1>6
        <3> QED BY ONLY <3>1, <3>2, tail \in Seq(Packets), CutAlike
    <2>3. b = x /\ ToSet(rest) = {b}
        <3>1. n + 1 \in 1 .. k /\ DOMAIN whole = 1 .. k
            BY <1>2, <1>6, <2>1, LenProperties
        <3>2. b = x
            BY <1>2, <1>6, <2>2, <3>1
        <3>3. \A i \in DOMAIN rest : rest[i] = b
            BY <1>6, <2>2, <3>1, <3>2
        <3>4. n + 1 \in DOMAIN rest
            BY <2>2, <3>1
        <3>5. ToSet(rest) = {rest[i] : i \in DOMAIN rest}
            BY DEF ToSet
        <3> QED BY ONLY <3>2, <3>3, <3>4, <3>5
    <2>4. ParseByte(parsed, b) = [packets |-> Append(parsed.packets, b), rest |-> <<>>]
        BY <1>7, <1>9, <2>3
    <2>5. parsed.packets = v
        BY DEF Left
    <2>6. /\ ParseByte(parsed, b).packets = Append(v, Head(w))
          /\ ParseByte(parsed, b).rest = <<>>
        BY <2>3, <2>4, <2>5
    <2>7. <<>> \o tail = tail
        BY ConcatEmptySeq
    <2>8. Left(ParseByte(parsed, b), tail, Append(v, Head(w)), Tail(w))
        BY <2>2, <2>6, <2>7 DEF Left
    <2> QED BY <1>4, <2>8
<1> QED BY <1>8, <1>9

\* The packets of bytes are parsed.
ParseKept(bytes, tail, u) ==
    \E v, w \in Seq(Packets) : u = v \o w /\ Left(Parsed(bytes), tail, v, w)

\* Bytes that are, with those to come, the bytes of whole packets are parsed to the first of
\* these packets, and what is left of them to the others.
LEMMA ParsedKeeps ==
    ASSUME NEW bytes \in Seq(Packets), NEW tail \in Seq(Packets), NEW u \in Seq(Packets),
           bytes \o tail = Spread(Whole, u)
    PROVE  ParseKept(bytes, tail, u)
<1> DEFINE A == {k \in Nat : \A s, t \in Seq(Packets) :
                     Len(s) = k /\ s \o t = Spread(Whole, u) => ParseKept(s, t, u)}
<1>1. 0 \in A
    <2>1. ASSUME NEW s \in Seq(Packets), NEW t \in Seq(Packets),
                 Len(s) = 0, s \o t = Spread(Whole, u)
          PROVE  ParseKept(s, t, u)
        <3>1. s = <<>>
            BY <2>1, EmptySeq
        <3>2. Parsed(s) = Nothing
            BY <3>1, ParsedOfNone
        <3>3. <<>> \in Seq(Packets) /\ <<>> \o u = u
            BY EmptySeq, ConcatEmptySeq
        <3>4. Parsed(s).packets = <<>> /\ Parsed(s).rest = <<>>
            BY <3>2 DEF Nothing
        <3>5. Parsed(s).rest \o t = Spread(Whole, u)
            BY <2>1, <3>1, <3>4
        <3>6. Left(Parsed(s), t, <<>>, u)
            BY ONLY <3>4, <3>5 DEF Left
        <3> QED BY <3>3, <3>6 DEF ParseKept
    <2> QED BY <2>1
<1>2. ASSUME NEW k \in Nat, k \in A PROVE k + 1 \in A
    <2>1. ASSUME NEW s \in Seq(Packets), NEW t \in Seq(Packets),
                 Len(s) = k + 1, s \o t = Spread(Whole, u)
          PROVE  ParseKept(s, t, u)
        <3>1. s # <<>>
            BY <2>1, EmptySeq
        <3>2. PICK front \in Seq(Packets), b \in Packets : s = Append(front, b)
            BY <3>1, SequenceEmptyOrAppend
        <3>3. Len(front) = k
            <4>1. Len(front) \in Nat /\ Len(s) = Len(front) + 1
                BY <3>2, LenProperties, AppendProperties
            <4> QED BY <2>1, <4>1
        <3>4. PICK next : next = <<b>> \o t
            OBVIOUS
        <3>5. next \in Seq(Packets) /\ front \o next = Spread(Whole, u)
            <4>1. s = front \o <<b>> /\ <<b>> \in Seq(Packets)
                BY <3>2, AppendIsConcat
            <4>2. (front \o <<b>>) \o t = front \o (<<b>> \o t)
                <5>1. Regrouped(front, <<b>>, t)
                    BY <4>1, Regroup
                <5> QED BY ONLY <5>1 DEF Regrouped
            <4>3. <<b>> \o t \in Seq(Packets)
                BY <4>1, ConcatProperties
            <4> QED BY <2>1, <3>4, <4>1, <4>2, <4>3
        <3>6. ParseKept(front, next, u)
            BY <1>2, <3>3, <3>5
        <3>7. PICK v \in Seq(Packets), w \in Seq(Packets) : u = v \o w /\ Left(Parsed(front), next, v, w)
            BY <3>6 DEF ParseKept
        <3>8. Parsed(front) \in ParseState /\ Parsed(s) = ParseByte(Parsed(front), b)
            BY <3>2, ParsedOfAppend
        <3>9. \/ Left(Parsed(s), t, v, w)
              \/ /\ w # <<>> /\ Head(w) \in Packets /\ Tail(w) \in Seq(Packets)
                 /\ Left(Parsed(s), t, Append(v, Head(w)), Tail(w))
            <4>1. PICK parsed : parsed = Parsed(front)
                OBVIOUS
            <4>2. parsed \in ParseState /\ Left(parsed, <<b>> \o t, v, w)
                BY <3>4, <3>7, <3>8, <4>1
            <4> QED BY <3>8, <4>1, <4>2, ByteKeeps
        <3>10. CASE Left(Parsed(s), t, v, w)
            BY <3>7, <3>10 DEF ParseKept
        <3>11. CASE /\ w # <<>> /\ Head(w) \in Packets /\ Tail(w) \in Seq(Packets)
                    /\ Left(Parsed(s), t, Append(v, Head(w)), Tail(w))
            <4>1. u = Append(v, Head(w)) \o Tail(w) /\ Append(v, Head(w)) \in Seq(Packets)
                BY <3>7, <3>11, FirstMoved
            <4> QED BY <3>11, <4>1 DEF ParseKept
        <3> QED BY <3>9, <3>10, <3>11
    <2>2. k + 1 \in Nat
        OBVIOUS
    <2> QED BY <2>1, <2>2
<1>3. Nat \subseteq A
    <2> HIDE DEF A
    <2> QED BY <1>1, <1>2, NatSetInduction
<1>4. Len(bytes) \in Nat
    BY LenProperties
<1> QED BY <1>3, <1>4

-----------------------------------------------------------------------------
(***************************************************************************)
(* Packets are read as PriorityChannel promises.                           *)
(***************************************************************************)

\* Four sequences in a row, however they are put together.
SameRow(a, b, c, d) ==
    /\ (a \o (b \o c)) \o d = a \o (b \o (c \o d))
    /\ a \o ((b \o c) \o d) = a \o (b \o (c \o d))
    /\ (a \o b) \o (c \o d) = a \o (b \o (c \o d))

\* It makes no difference.
LEMMA InARow ==
    ASSUME NEW D, NEW a \in Seq(D), NEW b \in Seq(D), NEW c \in Seq(D), NEW d \in Seq(D)
    PROVE  SameRow(a, b, c, d)
<1>1. PICK bc, cd : bc = b \o c /\ cd = c \o d
    OBVIOUS
<1>2. bc \in Seq(D) /\ cd \in Seq(D)
    BY <1>1, ConcatProperties
<1>3. (b \o c) \o d = b \o (c \o d)
    <2>1. Regrouped(b, c, d)
        BY ONLY b \in Seq(D), c \in Seq(D), d \in Seq(D), Regroup
    <2> QED BY ONLY <2>1 DEF Regrouped
<1>4. (a \o bc) \o d = a \o (bc \o d)
    <2>1. Regrouped(a, bc, d)
        BY ONLY <1>2, a \in Seq(D), d \in Seq(D), Regroup
    <2> QED BY ONLY <2>1 DEF Regrouped
<1>5. (a \o b) \o cd = a \o (b \o cd)
    <2>1. Regrouped(a, b, cd)
        BY ONLY <1>2, a \in Seq(D), b \in Seq(D), Regroup
    <2> QED BY ONLY <2>1 DEF Regrouped
<1> QED BY <1>1, <1>3, <1>4, <1>5 DEF SameRow

\* The bytes of a priority that are not parsed: those in the pool, those in the frames, and
\* those of the queue.
OnTheWay(p) == pool[p] \o (Spread(ChunkOf(p), flight) \o Spread(EntryBytes, queue[p]))

\* They are the bytes of the packets that are written and not read.
Unread(p) ==
    \E u \in Seq(Packets) : written[p] = read[p] \o u /\ OnTheWay(p) = Spread(Whole, u)

ChannelOK == read \in [Priorities -> Seq(Packets)] /\ \A p \in Priorities : Unread(p)

\* The parts of them are bytes.
LEMMA PartsAre ==
    ASSUME Sound, NEW p \in Priorities
    PROVE  /\ pool[p] \in Seq(Packets) /\ Spread(ChunkOf(p), flight) \in Seq(Packets)
           /\ Spread(EntryBytes, queue[p]) \in Seq(Packets)
<1>1. pool[p] \in Seq(Packets) /\ flight \in Seq(Frame) /\ queue[p] \in Seq(Entry)
    BY DEF Sound, StreamOK
<1>2. MapsTo(EntryBytes, Entry, Packets)
    BY BytesMaps
<1>3. PICK m, s : m = ChunkOf(p) /\ s = queue[p]
    OBVIOUS
<1>4. MapsTo(m, Frame, Packets) /\ s \in Seq(Entry)
    BY <1>1, <1>3, BytesMaps
<1>5. Spread(m, flight) \in Seq(Packets)
    BY ONLY <1>1, <1>4, SpreadType
<1>6. Spread(EntryBytes, s) \in Seq(Packets)
    BY ONLY <1>2, <1>4, SpreadType
<1> QED BY <1>1, <1>3, <1>5, <1>6

\* A packet that is written is put behind those that are not read.
LEMMA EnqueueKeepsChannel ==
    ASSUME Sound, ChannelOK, NEW p \in Priorities, NEW packet \in Packets, Enqueue(p, packet)
    PROVE  ChannelOK'
<1>1. UNCHANGED <<pool, flight, read>>
    BY DEF Enqueue, receiver
<1>2. PICK e : e = [packet |-> packet, left |-> Size[packet]]
    OBVIOUS
<1>3. e \in Entry /\ EntryBytes[e] = Copies(packet, Size[packet]) /\ Whole[packet] = Copies(packet, Size[packet])
    <2>1. e \in Entry
        BY <1>2, StreamAssumption DEF Entry, StreamAssumption
    <2> QED BY <1>2, <2>1 DEF EntryBytes, Whole
<1>4. queue \in [Priorities -> Seq(Entry)] /\ written \in [Priorities -> Seq(Packets)]
    BY DEF Sound, StreamOK
<1>5. queue' = [queue EXCEPT ![p] = Append(queue[p], e)] /\ written' = [written EXCEPT ![p] = Append(written[p], packet)]
    BY <1>2 DEF Enqueue
<1>6. ASSUME NEW q \in Priorities, q # p PROVE Unread(q)'
    <2>1. queue'[q] = queue[q] /\ written'[q] = written[q]
        BY <1>4, <1>5, <1>6
    <2>2. OnTheWay(q)' = OnTheWay(q)
        BY <1>1, <2>1 DEF OnTheWay
    <2>3. Unread(q)
        BY DEF ChannelOK
    <2> QED BY <1>1, <2>1, <2>2, <2>3 DEF Unread
<1>7. Unread(p)'
    <2>1. PICK u \in Seq(Packets) : written[p] = read[p] \o u /\ OnTheWay(p) = Spread(Whole, u)
        BY DEF ChannelOK, Unread
    <2>2. queue'[p] = Append(queue[p], e) /\ written'[p] = Append(written[p], packet)
        BY <1>4, <1>5
    <2>3. MapsTo(EntryBytes, Entry, Packets) /\ MapsTo(Whole, Packets, Packets)
        BY BytesMaps
    <2>4. PICK s, a, b, c, d, r :
              /\ s = queue[p] /\ a = pool[p] /\ b = Spread(ChunkOf(p), flight)
              /\ c = Spread(EntryBytes, queue[p]) /\ d = Whole[packet] /\ r = read[p]
        OBVIOUS
    <2>5. /\ s \in Seq(Entry) /\ a \in Seq(Packets) /\ b \in Seq(Packets) /\ c \in Seq(Packets)
          /\ d \in Seq(Packets) /\ r \in Seq(Packets)
        <3>1. Whole[packet] \in Seq(Packets)
            BY <2>3 DEF MapsTo
        <3>2. read[p] \in Seq(Packets)
            BY DEF ChannelOK
        <3> QED BY <1>4, <2>4, <3>1, <3>2, PartsAre
    <2>6. Spread(EntryBytes, Append(s, e)) = Spread(EntryBytes, s) \o EntryBytes[e]
        <3>1. s \in Seq(Entry) /\ e \in Entry /\ MapsTo(EntryBytes, Entry, Packets)
            BY <1>3, <2>3, <2>5
        <3> QED BY ONLY <3>1, SpreadOfAppend
    <2>7. Spread(Whole, Append(u, packet)) = Spread(Whole, u) \o Whole[packet]
        BY ONLY u \in Seq(Packets), packet \in Packets, <2>3, SpreadOfAppend
    <2>8. OnTheWay(p)' = a \o (b \o (c \o d))
        BY <1>1, <1>3, <2>2, <2>4, <2>6 DEF OnTheWay
    <2>9. OnTheWay(p) = a \o (b \o c)
        BY <2>4 DEF OnTheWay
    <2>10. (a \o (b \o c)) \o d = a \o (b \o (c \o d))
        <3>1. a \in Seq(Packets) /\ b \in Seq(Packets) /\ c \in Seq(Packets) /\ d \in Seq(Packets)
            BY <2>5
        <3>2. SameRow(a, b, c, d)
            BY ONLY <3>1, InARow
        <3> QED BY <3>2 DEF SameRow
    <2>11. OnTheWay(p)' = Spread(Whole, Append(u, packet))
        BY <2>1, <2>4, <2>7, <2>8, <2>9, <2>10
    <2>12. Append(u, packet) \in Seq(Packets) /\ written'[p] = r \o Append(u, packet)
        <3>1. PICK one : one = <<packet>>
            OBVIOUS
        <3>2. one \in Seq(Packets) /\ Append(u, packet) = u \o one /\ Append(u, packet) \in Seq(Packets)
            BY <3>1, AppendIsConcat, AppendProperties
        <3>3. r \o u \in Seq(Packets) /\ written[p] = r \o u
            BY <2>1, <2>4, <2>5, ConcatProperties
        <3>4. Append(written[p], packet) = (r \o u) \o one
            BY <3>1, <3>3, AppendIsConcat
        <3>5. (r \o u) \o one = r \o (u \o one)
            <4>1. r \in Seq(Packets) /\ one \in Seq(Packets)
                BY <2>5, <3>2
            <4>2. Regrouped(r, u, one)
                BY ONLY <4>1, u \in Seq(Packets), Regroup
            <4> QED BY ONLY <4>2 DEF Regrouped
        <3> QED BY <2>2, <3>2, <3>4, <3>5
    <2>13. written'[p] = read'[p] \o Append(u, packet)
        BY <1>1, <2>4, <2>12
    <2> QED BY <2>11, <2>12, <2>13 DEF Unread
<1>8. \A q \in Priorities : Unread(q)'
    BY <1>6, <1>7
<1>9. read' \in [Priorities -> Seq(Packets)]
    BY <1>1 DEF ChannelOK
<1> QED BY <1>8, <1>9 DEF ChannelOK

\* A frame that is packed takes its bytes from the queue of its priority.
LEMMA FrameKeepsChannel ==
    ASSUME Sound, ChannelOK, NEW over, NEW size \in Nat, size <= Max(FrameSizes),
           SendFrame(over, size), ~failed'
    PROVE  ChannelOK' /\ UNCHANGED <<written, read>>
<1>1. PICK p \in Priorities, n \in Nat :
          /\ n > 0 /\ queue[p] # <<>> /\ Head(queue[p]) \in Entry /\ n <= Head(queue[p]).left
          /\ queue' = AfterPack(p, n)
          /\ flight' = Append(flight, [priority |-> p, packet |-> Head(queue[p]).packet,
                                       bytes |-> n])
    BY FramePacked
<1>2. UNCHANGED <<pool, written, read>>
    BY DEF SendFrame, Sends, receiver
<1>3. queue \in [Priorities -> Seq(Entry)] /\ flight \in Seq(Frame)
    BY DEF Sound, StreamOK
<1>4. PICK x, f : x = Head(queue[p]).packet /\ f = [priority |-> p, packet |-> x, bytes |-> n]
    OBVIOUS
<1>5. x \in Packets /\ f \in Frame /\ flight' = Append(flight, f)
    BY <1>1, <1>4 DEF Entry, Frame
<1>6. ASSUME NEW q \in Priorities
      PROVE  /\ Spread(ChunkOf(q), flight') = Spread(ChunkOf(q), flight) \o ChunkOf(q)[f]
             /\ ChunkOf(q)[f] = Copies(x, IF q = p THEN n ELSE 0)
    <2>1. PICK m : m = ChunkOf(q)
        OBVIOUS
    <2>2. MapsTo(m, Frame, Packets)
        BY <2>1, BytesMaps
    <2>3. Spread(m, Append(flight, f)) = Spread(m, flight) \o m[f]
        BY ONLY <1>3, <1>5, <2>2, SpreadOfAppend
    <2>4. ChunkOf(q)[f] = Copies(f.packet, IF f.priority = q THEN f.bytes ELSE 0)
        BY <1>5 DEF ChunkOf
    <2> QED BY <1>4, <1>5, <2>1, <2>3, <2>4
<1>7. ASSUME NEW q \in Priorities PROVE OnTheWay(q)' = OnTheWay(q)
    <2>1. OnTheWay(q)' = pool[q] \o (Spread(ChunkOf(q), flight') \o Spread(EntryBytes, queue'[q]))
        BY <1>2 DEF OnTheWay, ChunkOf, EntryBytes
    <2>2. PICK a, b, c : a = pool[q] /\ b = Spread(ChunkOf(q), flight) /\ c = ChunkOf(q)[f]
        OBVIOUS
    <2>3. a \in Seq(Packets) /\ b \in Seq(Packets)
        BY <2>2, PartsAre
    <2>4. CASE q = p
        <3>1. PICK d : d = Spread(EntryBytes, queue'[q])
            OBVIOUS
        <3>2. /\ queue' \in [Priorities -> Seq(Entry)]
              /\ Spread(EntryBytes, queue[p]) = Copies(x, n) \o Spread(EntryBytes, queue'[p])
            BY <1>1, <1>3, <1>4, AfterPackIs
        <3>3. c = Copies(x, n) /\ c \in Seq(Packets)
            BY <1>5, <1>6, <2>2, <2>4, CopiesSeq
        <3>4. d \in Seq(Packets)
            <4>1. PICK s : s = queue'[q]
                OBVIOUS
            <4>2. s \in Seq(Entry) /\ MapsTo(EntryBytes, Entry, Packets)
                BY <3>2, <4>1, BytesMaps
            <4>3. Spread(EntryBytes, s) \in Seq(Packets)
                BY ONLY <4>2, SpreadType
            <4> QED BY <3>1, <4>1, <4>3
        <3>5. a \o ((b \o c) \o d) = a \o (b \o (c \o d))
            <4>1. a \in Seq(Packets) /\ b \in Seq(Packets) /\ c \in Seq(Packets) /\ d \in Seq(Packets)
                BY <2>3, <3>3, <3>4
            <4>2. SameRow(a, b, c, d)
                BY ONLY <4>1, InARow
            <4> QED BY <4>2 DEF SameRow
        <3>6. OnTheWay(q)' = a \o ((b \o c) \o d)
            BY <1>6, <2>1, <2>2, <3>1
        <3>7. OnTheWay(q) = a \o (b \o (c \o d))
            BY <2>2, <2>4, <3>1, <3>2, <3>3 DEF OnTheWay
        <3> QED BY <3>5, <3>6, <3>7
    <2>5. CASE q # p
        <3>1. queue'[q] = queue[q]
            BY <1>1, <1>3, <2>5, AfterPackIs
        <3>2. c = <<>>
            <4>1. c = Copies(x, 0)
                BY <1>6, <2>2, <2>5
            <4>2. Copies(x, 0) \in Seq(Packets) /\ Len(Copies(x, 0)) = 0
                BY <1>5, CopiesSeq
            <4> QED BY <4>1, <4>2, EmptySeq
        <3>3. b \o c = b
            BY <2>3, <3>2, ConcatEmptySeq
        <3>4. OnTheWay(q)' = a \o ((b \o c) \o Spread(EntryBytes, queue[q]))
            BY <1>6, <2>1, <2>2, <3>1
        <3>5. OnTheWay(q) = a \o (b \o Spread(EntryBytes, queue[q]))
            BY <2>2 DEF OnTheWay
        <3> QED BY <3>3, <3>4, <3>5
    <2> QED BY <2>4, <2>5
<1>8. ASSUME NEW q \in Priorities PROVE Unread(q)'
    <2>1. Unread(q)
        BY DEF ChannelOK
    <2> QED BY <1>2, <1>7, <2>1 DEF Unread
<1> QED BY <1>2, <1>8 DEF ChannelOK

\* What arrives is read as far as it makes packets, and these are the next ones written.
LEMMA ReceiveKeepsChannel ==
    ASSUME Sound, ChannelOK, NEW n \in Nat, Receive(n)
    PROVE  /\ ChannelOK' /\ written' = written
           /\ \A p \in Priorities : IsPrefix(read[p], read'[p]) /\ IsPrefix(read'[p], written[p])
<1> PICK j : j = Complete(raw + n)
    OBVIOUS
<1>1. flight \in Seq(Frame) /\ raw + n \in Nat
    BY DEF Sound, StreamOK
<1>2. PICK first, rest : first = SubSeq(flight, 1, j) /\ rest = SubSeq(flight, j + 1, Len(flight))
    OBVIOUS
<1>3. /\ j \in 0 .. Len(flight)
      /\ first \in Seq(Frame) /\ rest \in Seq(Frame) /\ flight = first \o rest
    <2>1. PICK bytes \in Nat : bytes = raw + n
        BY <1>1
    <2> QED BY <1>1, <1>2, <2>1, Completed
<1>4. /\ flight' = rest /\ queue' = queue /\ written' = written
      /\ pool' = [p \in Priorities |-> Parsed(pool[p] \o Payloads(p, j)).rest]
      /\ read' = [p \in Priorities |-> read[p] \o Parsed(pool[p] \o Payloads(p, j)).packets]
    BY <1>2 DEF Receive
<1>5. ASSUME NEW p \in Priorities
      PROVE  /\ Unread(p)' /\ read'[p] \in Seq(Packets)
             /\ IsPrefix(read[p], read'[p]) /\ IsPrefix(read'[p], written[p])
    <2>1. PICK u \in Seq(Packets) : written[p] = read[p] \o u /\ OnTheWay(p) = Spread(Whole, u)
        BY DEF ChannelOK, Unread
    <2>2. PICK m, a, b, c, d, r :
              /\ m = ChunkOf(p) /\ a = pool[p] /\ b = Spread(m, first) /\ c = Spread(m, rest)
              /\ d = Spread(EntryBytes, queue[p]) /\ r = read[p]
        OBVIOUS
    <2>3. MapsTo(m, Frame, Packets)
        BY <2>2, BytesMaps
    <2>4. Spread(m, first \o rest) = Spread(m, first) \o Spread(m, rest)
          /\ Spread(m, first) \in Seq(Packets) /\ Spread(m, rest) \in Seq(Packets)
        BY ONLY <1>3, <2>3, SpreadOfConcat
    <2>5. a \in Seq(Packets) /\ d \in Seq(Packets) /\ r \in Seq(Packets)
        BY <2>2, PartsAre DEF ChannelOK
    <2>6. b \in Seq(Packets) /\ c \in Seq(Packets)
        BY <2>2, <2>4
    <2>7. PICK bytes, tail : bytes = a \o b /\ tail = c \o d
        OBVIOUS
    <2>8. bytes \in Seq(Packets) /\ tail \in Seq(Packets)
        BY <2>5, <2>6, <2>7, ConcatProperties
    <2>9. bytes \o tail = Spread(Whole, u)
        <3>1. OnTheWay(p) = a \o ((b \o c) \o d)
            BY <1>3, <2>2, <2>4 DEF OnTheWay
        <3>2. a \o ((b \o c) \o d) = a \o (b \o (c \o d)) /\ (a \o b) \o (c \o d) = a \o (b \o (c \o d))
            <4>1. a \in Seq(Packets) /\ b \in Seq(Packets) /\ c \in Seq(Packets) /\ d \in Seq(Packets)
                BY <2>5, <2>6
            <4>2. SameRow(a, b, c, d)
                BY ONLY <4>1, InARow
            <4> QED BY <4>2 DEF SameRow
        <3> QED BY <2>1, <2>7, <3>1, <3>2
    <2>10. ParseKept(bytes, tail, u)
        BY ONLY <2>8, <2>9, u \in Seq(Packets), ParsedKeeps
    <2>11. PICK v \in Seq(Packets), w \in Seq(Packets) : u = v \o w /\ Left(Parsed(bytes), tail, v, w)
        BY <2>10 DEF ParseKept
    <2>12. bytes = pool[p] \o Payloads(p, j)
        <3>1. Payloads(p, j) = Spread(ChunkOf(p), SubSeq(flight, 1, j))
            BY <1>1, <1>3, PayloadsAre
        <3> QED BY <1>2, <2>2, <2>7, <3>1
    <2>13. read'[p] = r \o v
        BY <1>4, <2>2, <2>11, <2>12 DEF Left
    <2>14. OnTheWay(p)' = Spread(Whole, w)
        <3>1. OnTheWay(p)' = pool'[p] \o (Spread(ChunkOf(p), flight') \o Spread(EntryBytes, queue'[p]))
            BY DEF OnTheWay, ChunkOf, EntryBytes
        <3>2. pool'[p] = Parsed(bytes).rest
            BY <1>4, <2>12
        <3>3. OnTheWay(p)' = Parsed(bytes).rest \o tail
            BY <1>4, <2>2, <2>7, <3>1, <3>2
        <3> QED BY <2>11, <3>3 DEF Left
    <2>15. PICK old, new, left : old = r /\ new = v /\ left = w
        OBVIOUS
    <2>16. old \in Seq(Packets) /\ new \in Seq(Packets) /\ left \in Seq(Packets)
        BY <2>5, <2>11, <2>15
    <2>17. (old \o new) \o left = old \o (new \o left)
        <3>1. Regrouped(old, new, left)
            BY ONLY <2>16, Regroup
        <3> QED BY ONLY <3>1 DEF Regrouped
    <2>18. old \o new \in Seq(Packets)
        BY <2>16, ConcatProperties
    <2>19. written[p] = read'[p] \o w /\ read'[p] \in Seq(Packets)
        BY <2>1, <2>2, <2>11, <2>13, <2>15, <2>17, <2>18
    <2>20. IsPrefix(read[p], read'[p])
        <3>1. IsPrefix(old, old \o new)
            BY ONLY <2>16, PutInFront
        <3> QED BY <2>2, <2>13, <2>15, <3>1
    <2>21. IsPrefix(read'[p], written[p])
        <3>1. PICK now : now = read'[p]
            OBVIOUS
        <3>2. now \in Seq(Packets)
            BY <2>19, <3>1
        <3>3. IsPrefix(now, now \o left)
            BY ONLY <2>16, <3>2, PutInFront
        <3> QED BY <2>15, <2>19, <3>1, <3>3
    <2>22. Unread(p)'
        BY <1>4, <2>11, <2>14, <2>19 DEF Unread
    <2> QED BY <2>19, <2>20, <2>21, <2>22
<1>6. read' \in [Priorities -> Seq(Packets)]
    BY <1>4, <1>5
<1> QED BY <1>4, <1>5, <1>6 DEF ChannelOK

\* Every step keeps what is on the way, and is one of the channel.
LEMMA ChannelStep ==
    ASSUME Sound, ChannelOK, [Next]_vars
    PROVE  ChannelOK' /\ [Channel!Next]_(Channel!vars)
<1>0. ASSUME UNCHANGED <<queue, flight, pool, written, read>>
      PROVE  ChannelOK' /\ [Channel!Next]_(Channel!vars)
    <2>1. ASSUME NEW p \in Priorities PROVE Unread(p)'
        <3>1. Unread(p)
            BY DEF ChannelOK
        <3> QED BY <1>0, <3>1 DEF Unread, OnTheWay
    <2>2. ChannelOK'
        BY <1>0, <2>1 DEF ChannelOK
    <2> QED BY <1>0, <2>2 DEF Channel!vars
<1>1. ASSUME NEW over \in BOOLEAN, SendAt(over)
      PROVE  ChannelOK' /\ [Channel!Next]_(Channel!vars)
    <2>1. CASE Throttle(over)
        BY <1>0, <2>1 DEF Throttle, Sends, SendsNothing, receiver
    <2>2. CASE \E size \in {Tuned(over)} : SendRest(over, size)
        BY <1>0, <2>2 DEF SendRest, Sends, SendThrows, SendsNothing, receiver
    <2>3. CASE \E size \in {Tuned(over)} : SendNoFrame(over, size)
        BY <1>0, <2>3 DEF SendNoFrame, Sends, SendsNothing, receiver
    <2>4. CASE \E size \in {Tuned(over)} : SendFrame(over, size)
        <3> PICK size \in {Tuned(over)} : SendFrame(over, size)
            BY <2>4
        <3>1. CASE failed'
            <4>1. SendThrows(over) /\ Sends(over, size)
                BY <3>1 DEF SendFrame, Sends
            <4> QED BY <1>0, <4>1 DEF Sends, SendThrows, SendsNothing, receiver
        <3>2. CASE ~failed'
            <4>1. size \in Nat /\ size <= maxFrame /\ maxFrame \in Nat /\ maxFrame <= Max(FrameSizes)
                BY SizeFits DEF Sound, AccountOK
            <4>2. size <= Max(FrameSizes)
                BY <4>1, LargestFrame
            <4>3. ChannelOK' /\ UNCHANGED <<written, read>>
                BY <3>2, <4>1, <4>2, FrameKeepsChannel
            <4> QED BY <4>3 DEF Channel!vars
        <3> QED BY <3>1, <3>2
    <2> QED BY <1>1, <2>1, <2>2, <2>3, <2>4 DEF SendAt
<1>2. CASE Send
    <2>1. NotWritable => UNCHANGED <<queue, flight, pool, written, read>>
        BY DEF NotWritable, sender, receiver
    <2> QED BY <1>0, <1>1, <1>2, <2>1 DEF Send
<1>3. CASE (\E size \in FrameSizes : SetFrameSize(size)) \/ Poll \/ Ripens
    BY <1>0, <1>3 DEF SetFrameSize, Poll, Ripens, sender, receiver
<1>4. CASE \E p \in Priorities, packet \in Packets : Enqueue(p, packet)
    <2> PICK p \in Priorities, packet \in Packets : Enqueue(p, packet)
        BY <1>4
    <2>1. ChannelOK'
        BY EnqueueKeepsChannel
    <2>2. Channel!Write(p, packet)
        BY DEF Enqueue, receiver, Channel!Write
    <2> QED BY <2>1, <2>2 DEF Channel!Next
<1>5. CASE Arrive
    <2> PICK n \in 1 .. Bytes(flight) : Receive(n)
        BY <1>5 DEF Arrive
    <2>1. n \in Nat
        OBVIOUS
    <2>2. /\ ChannelOK' /\ written' = written
          /\ \A p \in Priorities : IsPrefix(read[p], read'[p]) /\ IsPrefix(read'[p], written[p])
        BY <2>1, ReceiveKeepsChannel
    <2>3. DOMAIN read' = Priorities
        BY <2>2 DEF ChannelOK
    <2>4. CASE read' = read
        BY <2>2, <2>4 DEF Channel!vars
    <2>5. CASE read' # read
        <3>1. Channel!Read
            BY <2>2, <2>3, <2>5 DEF Channel!Read, Channel!IsPrefix, IsPrefix
        <3> QED BY <2>2, <3>1 DEF Channel!Next
    <2> QED BY <2>4, <2>5
<1>6. CASE UNCHANGED vars
    BY <1>0, <1>6 DEF vars, sender, receiver
<1> QED BY <1>2, <1>3, <1>4, <1>5, <1>6 DEF Next

\* However packets are cut, interleaved, sent in parts and put together, every priority reads
\* its packets once, whole and in the order they were written (priority_frame.hpp:96,
\* input_controller.hpp:139).
THEOREM StreamIsChannel == Spec => ImplementsChannel
<1>1. Init => Channel!Init /\ ChannelOK
    <2> SUFFICES ASSUME Init PROVE Channel!Init /\ ChannelOK
        OBVIOUS
    <2>1. /\ queue = [p \in Priorities |-> <<>>] /\ flight = <<>>
          /\ pool = [p \in Priorities |-> <<>>]
          /\ written = [p \in Priorities |-> <<>>] /\ read = [p \in Priorities |-> <<>>]
        BY DEF Init
    <2>2. <<>> \in Seq(Packets) /\ <<>> \o <<>> = <<>>
        BY EmptySeq, ConcatEmptySeq
    <2>3. ASSUME NEW p \in Priorities PROVE Unread(p)
        <3>1. MapsTo(EntryBytes, Entry, Packets) /\ MapsTo(Whole, Packets, Packets)
            BY BytesMaps
        <3>2. PICK m : m = ChunkOf(p)
            OBVIOUS
        <3>3. MapsTo(m, Frame, Packets)
            BY <3>2, BytesMaps
        <3>4. Spread(EntryBytes, <<>>) = <<>> /\ Spread(Whole, <<>>) = <<>>
            BY ONLY <3>1, SpreadOfNone
        <3>5. Spread(m, <<>>) = <<>>
            BY ONLY <3>3, SpreadOfNone
        <3>6. OnTheWay(p) = Spread(Whole, <<>>)
            BY <2>1, <2>2, <3>2, <3>4, <3>5 DEF OnTheWay
        <3> QED BY <2>1, <2>2, <3>6 DEF Unread
    <2>4. ChannelOK
        BY <2>1, <2>2, <2>3 DEF ChannelOK
    <2> QED BY <2>1, <2>4 DEF Channel!Init
<1>2. Sound /\ ChannelOK /\ [Next]_vars => ChannelOK' /\ [Channel!Next]_(Channel!vars)
    BY ChannelStep
<1> QED BY <1>1, <1>2, SoundAlways, PTL DEF Spec, ImplementsChannel, Channel!Spec

=============================================================================
