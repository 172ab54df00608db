--------------------------- MODULE RoutingProofs ----------------------------
(***************************************************************************)
(* What the nodes of a mesh learn of each other, for any nodes, gateways   *)
(* and links: the routes they store run over links that exist, packets go  *)
(* where the assertions of the code want them, the application knows what  *)
(* the table says, and while nothing fails the next hop of a route knows   *)
(* the rest of it, so that no message takes more hops than its route.      *)
(* After failures, where gateways form no ring, a quiet node believes in   *)
(* no route to a node it is cut off from.                                  *)
(***************************************************************************)
EXTENDS Routing, SequenceTheorems, FiniteSetTheorems, WellFoundedInduction, TLAPS

-----------------------------------------------------------------------------
(***************************************************************************)
(* Chains of gateways.                                                     *)
(***************************************************************************)

\* The node number i on the way from x over the gateways of the chain to y.
Hop(x, chain, y, i) ==
    IF i = 0 THEN x ELSE IF i <= Len(chain) THEN chain[i] ELSE y

Runs(x, chain, y) ==
    \A i \in 0 .. Len(chain) : {Hop(x, chain, y, i), Hop(x, chain, y, i + 1)} \in Links

Once(chain) == \A i, j \in 1 .. Len(chain) : chain[i] = chain[j] => i = j

\* A chain of gateways (what a route holds) is a chain of nodes.
LEMMA ChainType ==
    ASSUME NEW chain \in Seq(Gateways)
    PROVE  /\ Len(chain) \in Nat /\ chain \in Seq(Nodes)
           /\ chain = <<>> <=> Len(chain) = 0
           /\ \A i \in 1 .. Len(chain) : chain[i] \in Gateways /\ chain[i] \in Nodes
<1>1. Gateways \subseteq Nodes
    BY RoutingAssumption DEF RoutingAssumption
<1>2. chain \in Seq(Nodes)
    BY <1>1, SeqMonotonic
<1>3. Len(chain) \in Nat /\ \A i \in 1 .. Len(chain) : chain[i] \in Gateways
    BY LenProperties, ElementOfSeq
<1>4. chain = <<>> <=> Len(chain) = 0
    BY <1>3, EmptySeq
<1> QED BY <1>1, <1>2, <1>3, <1>4

\* The links of a route, read off its chain.
LEMMA FollowsHops ==
    ASSUME NEW links, NEW x \in Nodes, NEW y \in Nodes, NEW chain \in Seq(Gateways)
    PROVE  FollowsLinks(links, x, chain, y) <=>
               \A i \in 0 .. Len(chain) : {Hop(x, chain, y, i), Hop(x, chain, y, i + 1)} \in links
<1> DEFINE p == <<x>> \o chain \o <<y>>
           size == Len(chain)
<1>1. size \in Nat /\ chain \in Seq(Nodes)
    BY ChainType
<1>2. PICK left, right :
          /\ left = <<x>> /\ left \in Seq(Nodes) /\ Len(left) = 1 /\ left[1] = x
          /\ right = <<y>> /\ right \in Seq(Nodes) /\ Len(right) = 1 /\ right[1] = y
    <2>1. <<x>> \in Seq(Nodes) /\ Len(<<x>>) = 1 /\ <<x>>[1] = x
        OBVIOUS
    <2>2. <<y>> \in Seq(Nodes) /\ Len(<<y>>) = 1 /\ <<y>>[1] = y
        OBVIOUS
    <2> QED BY <2>1, <2>2
<1>3. PICK q : q = left \o chain
    OBVIOUS
<1>4. /\ q \in Seq(Nodes) /\ Len(q) = 1 + size
      /\ \A i \in 1 .. 1 + size : q[i] = IF i <= 1 THEN left[i] ELSE chain[i - 1]
    BY <1>1, <1>2, <1>3, ConcatProperties
<1>5. p = q \o right
    BY <1>2, <1>3
<1>6. /\ Len(p) = size + 2
      /\ \A i \in 1 .. size + 2 : p[i] = IF i <= 1 + size THEN q[i] ELSE right[i - (1 + size)]
    <2>1. /\ Len(q \o right) = Len(q) + Len(right)
          /\ \A i \in 1 .. Len(q) + Len(right) :
                 (q \o right)[i] = IF i <= Len(q) THEN q[i] ELSE right[i - Len(q)]
        BY <1>2, <1>4, ConcatProperties
    <2> HIDE DEF p, size
    <2> QED BY <1>1, <1>2, <1>4, <1>5, <2>1
<1> HIDE DEF p
<1>7. ASSUME NEW i \in 0 .. size + 1 PROVE p[i + 1] = Hop(x, chain, y, i)
    <2>1. CASE i = 0
        <3>1. 1 \in 1 .. size + 2 /\ 1 \in 1 .. 1 + size /\ i + 1 = 1
            BY <1>1, <2>1
        <3>2. p[1] = q[1] /\ q[1] = left[1]
            BY <1>1, <1>4, <1>6, <3>1
        <3>3. Hop(x, chain, y, i) = x
            BY <2>1 DEF Hop
        <3> QED BY <1>2, <3>1, <3>2, <3>3
    <2>2. CASE i \in 1 .. size
        BY <1>1, <1>4, <1>6, <2>2 DEF Hop
    <2>3. CASE i = size + 1
        <3>1. p[i + 1] = right[1]
            BY <1>1, <1>6, <2>3
        <3>2. Hop(x, chain, y, i) = y
            BY <1>1, <2>3 DEF Hop
        <3> QED BY <1>2, <3>1, <3>2
    <2> QED BY <1>1, <2>1, <2>2, <2>3
<1>8. ASSUME NEW i \in 0 .. size
      PROVE  /\ p[i + 1] = Hop(x, chain, y, i) /\ p[(i + 1) + 1] = Hop(x, chain, y, i + 1)
             /\ i + 1 \in 1 .. Len(p) - 1
    <2>1. i \in 0 .. size + 1 /\ i + 1 \in 0 .. size + 1
        BY <1>1
    <2> QED BY <1>1, <1>6, <1>7, <2>1
<1>9. \A j \in 1 .. Len(p) - 1 : j - 1 \in 0 .. size /\ j = (j - 1) + 1
    BY <1>1, <1>6
<1>10. FollowsLinks(links, x, chain, y) <=> \A i \in 1 .. Len(p) - 1 : {p[i], p[i + 1]} \in links
    BY DEF FollowsLinks, p
<1>11. (\A i \in 0 .. size : {Hop(x, chain, y, i), Hop(x, chain, y, i + 1)} \in links)
           <=> \A i \in 0 .. size : {p[i + 1], p[(i + 1) + 1]} \in links
    BY <1>8
<1> HIDE DEF size
<1>12. ASSUME \A i \in 1 .. Len(p) - 1 : {p[i], p[i + 1]} \in links, NEW i \in 0 .. size
       PROVE  {p[i + 1], p[(i + 1) + 1]} \in links
    BY <1>8, <1>12
<1>13. ASSUME \A i \in 0 .. size : {p[i + 1], p[(i + 1) + 1]} \in links, NEW j \in 1 .. Len(p) - 1
       PROVE  {p[j], p[j + 1]} \in links
    <2>1. PICK i \in 0 .. size : j = i + 1
        BY <1>9
    <2> QED BY <1>13, <2>1
<1> QED BY <1>10, <1>11, <1>12, <1>13 DEF size

\* The same for the links of the mesh.
LEMMA FollowsIsRuns ==
    ASSUME NEW x \in Nodes, NEW y \in Nodes, NEW chain \in Seq(Gateways)
    PROVE  FollowsLinks(Links, x, chain, y) <=> Runs(x, chain, y)
BY FollowsHops DEF Runs

\* The same route from its other end.
LEMMA ReverseRuns ==
    ASSUME NEW x \in Nodes, NEW y \in Nodes, NEW chain \in Seq(Gateways), Runs(x, chain, y)
    PROVE  /\ Reverse(chain) \in Seq(Gateways) /\ Len(Reverse(chain)) = Len(chain)
           /\ Reverse(chain) = <<>> <=> chain = <<>>
           /\ chain # <<>> => Head(Reverse(chain)) = chain[Len(chain)]
           /\ Runs(y, Reverse(chain), x)
<1> DEFINE size == Len(chain)
           back == Reverse(chain)
<1>1. size \in Nat /\ \A i \in 1 .. size : chain[i] \in Gateways
    BY ChainType
<1>2. back = [i \in 1 .. size |-> chain[(size - i) + 1]]
    BY DEF Reverse
<1>3. \A i \in 1 .. size : (size - i) + 1 \in 1 .. size
    BY <1>1
<1>4. back \in Seq(Gateways) /\ Len(back) = size
    <2>1. back \in [1 .. size -> Gateways]
        BY <1>1, <1>2, <1>3
    <2>2. back \in Seq(Gateways)
        BY <1>1, <2>1, SeqDef
    <2>3. DOMAIN back = 1 .. size /\ DOMAIN back = 1 .. Len(back) /\ Len(back) \in Nat
        BY <2>1, <2>2, LenProperties
    <2> QED BY <1>1, <2>2, <2>3
<1>5. \A i \in 1 .. size : back[i] = chain[(size - i) + 1]
    BY <1>2
<1> HIDE DEF back
<1>6. back = <<>> <=> chain = <<>>
    BY <1>4, ChainType
<1>7. chain # <<>> => Head(back) = chain[size]
    <2> SUFFICES ASSUME chain # <<>> PROVE Head(back) = chain[size]
        OBVIOUS
    <2>1. size # 0 /\ back # <<>>
        BY <1>6, ChainType
    <2>2. Head(back) = back[1]
        BY <1>4, <2>1
    <2>3. back[1] = chain[size]
        BY <1>1, <1>5, <2>1
    <2> QED BY <2>2, <2>3
<1>8. ASSUME NEW i \in 0 .. size + 1 PROVE Hop(y, back, x, i) = Hop(x, chain, y, (size + 1) - i)
    <2>1. CASE i = 0
        BY <1>1, <2>1 DEF Hop
    <2>2. CASE i \in 1 .. size
        <3>1. (size + 1) - i = (size - i) + 1 /\ (size - i) + 1 \in 1 .. size
            BY <1>1, <2>2
        <3>2. Hop(y, back, x, i) = back[i]
            BY <1>1, <1>4, <2>2 DEF Hop
        <3>3. Hop(x, chain, y, (size - i) + 1) = chain[(size - i) + 1]
            BY <1>1, <3>1 DEF Hop
        <3> QED BY <1>5, <2>2, <3>1, <3>2, <3>3
    <2>3. CASE i = size + 1
        <3>1. Hop(y, back, x, i) = x
            BY <1>1, <1>4, <2>3 DEF Hop
        <3>2. (size + 1) - i = 0
            BY <1>1, <2>3
        <3> QED BY <3>1, <3>2 DEF Hop
    <2> QED BY <1>1, <2>1, <2>2, <2>3
<1>9. ASSUME NEW i \in 0 .. size PROVE {Hop(y, back, x, i), Hop(y, back, x, i + 1)} \in Links
    <2>1. /\ i \in 0 .. size + 1 /\ i + 1 \in 0 .. size + 1 /\ size - i \in 0 .. size
          /\ (size + 1) - i = (size - i) + 1 /\ (size + 1) - (i + 1) = size - i
        BY <1>1
    <2>2. {Hop(x, chain, y, size - i), Hop(x, chain, y, (size - i) + 1)} \in Links
        BY <2>1 DEF Runs
    <2>3. Hop(y, back, x, i) = Hop(x, chain, y, (size - i) + 1)
        BY <1>8, <2>1
    <2>4. Hop(y, back, x, i + 1) = Hop(x, chain, y, size - i)
        BY <1>8, <2>1
    <2>5. {Hop(y, back, x, i), Hop(y, back, x, i + 1)}
              = {Hop(x, chain, y, size - i), Hop(x, chain, y, (size - i) + 1)}
        BY <2>3, <2>4
    <2> QED BY <2>2, <2>5
<1>10. Runs(y, back, x)
    BY <1>4, <1>9 DEF Runs
<1> QED BY <1>4, <1>6, <1>7, <1>10 DEF back

\* A route with a link added to its end.
LEMMA AppendRuns ==
    ASSUME NEW x \in Nodes, NEW y \in Gateways, NEW z \in Nodes, NEW chain \in Seq(Gateways),
           Runs(x, chain, y), {y, z} \in Links
    PROVE  Append(chain, y) \in Seq(Gateways) /\ Runs(x, Append(chain, y), z)
<1> DEFINE size == Len(chain)
<1>1. size \in Nat
    BY ChainType
<1>2. PICK longer : longer = Append(chain, y)
    OBVIOUS
<1>3. /\ longer \in Seq(Gateways) /\ Len(longer) = size + 1
      /\ \A i \in 1 .. size : longer[i] = chain[i]
      /\ longer[size + 1] = y
    BY <1>2, AppendProperties
<1>4. ASSUME NEW i \in 0 .. size + 1 PROVE Hop(x, longer, z, i) = Hop(x, chain, y, i)
    <2>1. CASE i = 0
        BY <2>1 DEF Hop
    <2>2. CASE i \in 1 .. size
        BY <1>1, <1>3, <2>2 DEF Hop
    <2>3. CASE i = size + 1
        BY <1>1, <1>3, <2>3 DEF Hop
    <2> QED BY <1>1, <2>1, <2>2, <2>3
<1>5. Hop(x, longer, z, size + 1) = y /\ Hop(x, longer, z, (size + 1) + 1) = z
    <2>1. size + 1 # 0 /\ size + 1 <= Len(longer) /\ (size + 1) + 1 # 0 /\ ~((size + 1) + 1 <= Len(longer))
        BY <1>1, <1>3
    <2> QED BY <1>3, <2>1 DEF Hop
<1>6. ASSUME NEW i \in 0 .. size + 1
      PROVE  {Hop(x, longer, z, i), Hop(x, longer, z, i + 1)} \in Links
    <2>1. CASE i = size + 1
        BY <1>5, <2>1
    <2>2. CASE i \in 0 .. size
        <3>1. {Hop(x, chain, y, i), Hop(x, chain, y, i + 1)} \in Links
            BY <2>2 DEF Runs
        <3>2. i \in 0 .. size + 1 /\ i + 1 \in 0 .. size + 1
            BY <1>1, <2>2
        <3> QED BY <1>4, <3>1, <3>2
    <2> QED BY <1>1, <2>1, <2>2
<1>7. Runs(x, longer, z)
    BY <1>3, <1>6 DEF Runs
<1> QED BY <1>2, <1>3, <1>7

\* The chain rest is what follows the gateway number k on the way to y.
RestRuns(chain, k, rest, y) ==
    /\ rest \in Seq(Gateways)
    /\ rest = <<>> <=> k = Len(chain)
    /\ k # Len(chain) =>
           /\ Head(rest) = chain[k + 1]
           /\ Tail(rest) = SubSeq(chain, k + 2, Len(chain))
    /\ Runs(chain[k], rest, y)

\* The rest of a route, behind the gateway number k in it.
LEMMA SuffixRuns ==
    ASSUME NEW x \in Nodes, NEW y \in Nodes, NEW chain \in Seq(Gateways), Runs(x, chain, y),
           NEW k \in 1 .. Len(chain)
    PROVE  RestRuns(chain, k, SubSeq(chain, k + 1, Len(chain)), y)
<1> DEFINE size == Len(chain)
<1>1. size \in Nat /\ k \in Nat /\ k <= size /\ 1 <= k /\ \A i \in 1 .. size : chain[i] \in Gateways
    BY ChainType
<1>2. PICK rest : rest = SubSeq(chain, k + 1, size)
    OBVIOUS
<1>3. /\ rest \in Seq(Gateways) /\ Len(rest) = size - k
      /\ \A i \in 1 .. size - k : rest[i] = chain[k + i]
    <2>1. k + 1 \in Int /\ size \in Int /\ \A i \in k + 1 .. size : chain[i] \in Gateways
        BY <1>1
    <2>2. /\ rest \in Seq(Gateways)
          /\ Len(rest) = IF k + 1 <= size THEN size - (k + 1) + 1 ELSE 0
          /\ \A i \in 1 .. size - (k + 1) + 1 : rest[i] = chain[(k + 1) + i - 1]
        BY <1>2, <2>1, SubSeqProperties
    <2>3. Len(rest) = size - k
        BY <1>1, <2>2
    <2>4. ASSUME NEW i \in 1 .. size - k PROVE rest[i] = chain[k + i]
        <3>1. i \in 1 .. size - (k + 1) + 1 /\ (k + 1) + i - 1 = k + i
            BY <1>1
        <3> QED BY <2>2, <3>1
    <2> QED BY <2>2, <2>3, <2>4
<1>4. rest = <<>> <=> k = size
    BY <1>1, <1>3, ChainType
<1>5. k # size => Head(rest) = chain[k + 1] /\ Tail(rest) = SubSeq(chain, k + 2, size)
    <2> SUFFICES ASSUME k # size PROVE Head(rest) = chain[k + 1] /\ Tail(rest) = SubSeq(chain, k + 2, size)
        OBVIOUS
    <2>1. k + 1 \in 1 .. Len(chain) /\ size \in k + 1 .. Len(chain) /\ (k + 1) + 1 = k + 2
        BY <1>1
    <2> HIDE DEF size
    <2>2. Head(rest) = chain[k + 1] /\ Tail(rest) = SubSeq(chain, (k + 1) + 1, size)
        BY <1>2, <2>1, HeadTailOfSubSeq
    <2> QED BY <2>1, <2>2
<1>6. ASSUME NEW i \in 0 .. (size - k) + 1 PROVE Hop(chain[k], rest, y, i) = Hop(x, chain, y, k + i)
    <2>1. CASE i = 0
        BY <1>1, <2>1 DEF Hop
    <2>2. CASE i \in 1 .. size - k
        <3>1. k + i \in 1 .. size
            BY <1>1, <2>2
        <3>2. Hop(chain[k], rest, y, i) = rest[i]
            BY <1>1, <1>3, <2>2 DEF Hop
        <3>3. Hop(x, chain, y, k + i) = chain[k + i]
            BY <1>1, <3>1 DEF Hop
        <3> QED BY <1>3, <2>2, <3>2, <3>3
    <2>3. CASE i = (size - k) + 1
        BY <1>1, <1>3, <2>3 DEF Hop
    <2> QED BY <1>1, <2>1, <2>2, <2>3
<1>7. ASSUME NEW i \in 0 .. Len(rest)
      PROVE  {Hop(chain[k], rest, y, i), Hop(chain[k], rest, y, i + 1)} \in Links
    <2>1. i \in 0 .. (size - k) + 1 /\ i + 1 \in 0 .. (size - k) + 1 /\ k + i \in 0 .. size
        BY <1>1, <1>3
    <2>2. k + (i + 1) = (k + i) + 1
        BY <1>1, <1>3
    <2>3. {Hop(x, chain, y, k + i), Hop(x, chain, y, (k + i) + 1)} \in Links
        BY <2>1 DEF Runs
    <2> QED BY <1>6, <2>1, <2>2, <2>3
<1>8. Runs(chain[k], rest, y)
    BY <1>7 DEF Runs
<1> QED BY <1>2, <1>3, <1>4, <1>5, <1>8 DEF RestRuns

\* Where a gateway is in a route, and what follows it.
LEMMA PlaceInChain ==
    ASSUME NEW chain \in Seq(Gateways), Once(chain), NEW k \in 1 .. Len(chain)
    PROVE  /\ IndexOf(chain, chain[k]) = k
           /\ After(chain, chain[k]) = SubSeq(chain, k + 1, Len(chain))
<1> DEFINE Is(i) == chain[i] = chain[k] /\ \A j \in 1 .. i - 1 : chain[j] # chain[k]
<1>1. Len(chain) \in Nat
    BY ChainType
<1>2. \A i \in 1 .. Len(chain) : chain[i] = chain[k] => i = k
    BY DEF Once
<1>3. Is(k)
    <2> SUFFICES ASSUME NEW j \in 1 .. k - 1 PROVE chain[j] # chain[k]
        OBVIOUS
    <2>1. j \in 1 .. Len(chain) /\ j # k
        BY <1>1
    <2> QED BY <1>2, <2>1
<1>4. k \in 1 .. Len(chain) /\ \A i \in 1 .. Len(chain) : Is(i) => i = k
    BY <1>2
<1> HIDE DEF Is
<1>5. (CHOOSE i \in 1 .. Len(chain) : Is(i)) = k
    BY <1>3, <1>4
<1> QED BY <1>5 DEF IndexOf, After, Is

-----------------------------------------------------------------------------
(***************************************************************************)
(* Tables.                                                                 *)
(***************************************************************************)

\* The routes of a table start at its node and run over links.
TableFits(n, t) ==
    /\ t.siblings \subseteq Nodes
    /\ t.routes \subseteq Nodes \X Seq(Gateways)
    /\ \A r \in t.routes : r[2] # <<>> /\ Runs(n, r[2], r[1])

\* add_sibling leaves a table that fits: routes may go, the sibling comes.
LEMMA FitsAddSibling ==
    ASSUME NEW n \in Nodes, NEW t, TableFits(n, t), NEW m \in Nodes
    PROVE  TableFits(n, AddSibling(t, m)) /\ AddSibling(t, m).siblings = t.siblings \cup {m}
<1>1. /\ AddSibling(t, m).siblings = t.siblings \cup {m}
      /\ AddSibling(t, m).routes \subseteq t.routes
    BY DEF AddSibling
<1> QED BY <1>1 DEF TableFits

\* add_route leaves a table that fits, if the chain runs to the destination.
LEMMA FitsAddRoute ==
    ASSUME NEW n \in Nodes, NEW t, t = [siblings |-> t.siblings, routes |-> t.routes],
           TableFits(n, t), NEW m \in Nodes,
           NEW chain \in Seq(Gateways), chain # <<>>, Runs(n, chain, m)
    PROVE  TableFits(n, AddRoute(t, m, chain)) /\ AddRoute(t, m, chain).siblings = t.siblings
<1>1. CASE m \in t.siblings
    BY <1>1 DEF AddRoute
<1>2. CASE m \notin t.siblings
    <2>1. AddRoute(t, m, chain) = [siblings |-> t.siblings, routes |-> t.routes \cup {<<m, chain>>}]
        BY <1>2 DEF AddRoute
    <2>2. /\ AddRoute(t, m, chain).siblings = t.siblings
          /\ AddRoute(t, m, chain).routes = t.routes \cup {<<m, chain>>}
        BY <2>1
    <2>3. <<m, chain>> \in Nodes \X Seq(Gateways) /\ <<m, chain>>[1] = m /\ <<m, chain>>[2] = chain
        OBVIOUS
    <2> QED BY <2>2, <2>3 DEF TableFits
<1> QED BY <1>1, <1>2

\* remove_route takes routes away only, so that the table still fits.
LEMMA FitsRemoveRoutes ==
    ASSUME NEW n \in Nodes, NEW t, t = [siblings |-> t.siblings, routes |-> t.routes],
           TableFits(n, t), NEW m
    PROVE  TableFits(n, RemoveRoutes(t, m)) /\ RemoveRoutes(t, m).siblings = t.siblings
<1>1. PICK left : left = {r \in t.routes : r[1] # m /\ m \notin Range(r[2])}
    OBVIOUS
<1>2. RemoveRoutes(t, m) = [t EXCEPT !.routes = left]
    BY <1>1 DEF RemoveRoutes
<1>3. RemoveRoutes(t, m) = [siblings |-> t.siblings, routes |-> left]
    BY ONLY <1>2, t = [siblings |-> t.siblings, routes |-> t.routes]
<1>4. RemoveRoutes(t, m).siblings = t.siblings /\ RemoveRoutes(t, m).routes = left
    BY ONLY <1>3
<1>5. left \subseteq t.routes
    BY <1>1
<1> QED BY <1>4, <1>5 DEF TableFits

\* The application is told of just the difference.
LEMMA ToldIsReachable ==
    ASSUME NEW n \in Nodes, view[n] = Reachable(Table(n)), NEW new
    PROVE  Told(n, Table(n), new) = Reachable(new)
<1> DEFINE old == Table(n)
           added == {r[1] : r \in new.routes \ old.routes} \cup (new.siblings \ old.siblings)
<1>1. Told(n, old, new) = (Reachable(old) \cup added) \ (Reachable(old) \ Reachable(new))
    BY DEF Told
<1>2. added \subseteq Reachable(new)
    BY DEF Reachable
<1>3. Reachable(new) \subseteq Reachable(old) \cup added
    BY DEF Reachable
<1> HIDE DEF added, old
<1> QED BY <1>1, <1>2, <1>3 DEF old

\* Every table has the open channels for siblings, and the application knows it.
Tables ==
    /\ channels \in [Nodes -> SUBSET Nodes]
    /\ siblings = channels
    /\ routes \in [Nodes -> SUBSET (Nodes \X Seq(Gateways))]
    /\ view \in [Nodes -> SUBSET Nodes]
    /\ \A n \in Nodes : TableFits(n, Table(n)) /\ view[n] = Reachable(Table(n))

\* A node exchanges its table for another one that fits.
LEMMA TableStep ==
    ASSUME Tables, NEW n \in Nodes, NEW new, TableFits(n, new), UpdateTable(n, new),
           channels' = [channels EXCEPT ![n] = new.siblings]
    PROVE  Tables'
<1>1. new.siblings \subseteq Nodes /\ new.routes \subseteq Nodes \X Seq(Gateways)
    BY DEF TableFits
<1>2. Reachable(new) \subseteq Nodes
    BY <1>1 DEF Reachable
<1>3. /\ siblings' = [siblings EXCEPT ![n] = new.siblings]
      /\ routes' = [routes EXCEPT ![n] = new.routes]
      /\ view' = [view EXCEPT ![n] = Reachable(new)]
    BY ToldIsReachable DEF UpdateTable, Tables
<1>4. /\ channels' \in [Nodes -> SUBSET Nodes]
      /\ siblings' = channels'
      /\ routes' \in [Nodes -> SUBSET (Nodes \X Seq(Gateways))]
      /\ view' \in [Nodes -> SUBSET Nodes]
    BY <1>1, <1>2, <1>3 DEF Tables
<1>5. ASSUME NEW k \in Nodes PROVE TableFits(k, Table(k)') /\ view'[k] = Reachable(Table(k)')
    <2>1. CASE k = n
        <3>1. Table(k)'.siblings = new.siblings /\ Table(k)'.routes = new.routes
            BY <1>3, <2>1 DEF Table, Tables
        <3>2. view'[k] = Reachable(new)
            BY <1>3, <2>1 DEF Tables
        <3> QED BY <2>1, <3>1, <3>2 DEF TableFits, Reachable
    <2>2. CASE k # n
        <3>1. Table(k)' = Table(k) /\ view'[k] = view[k]
            BY <1>3, <2>2 DEF Table, Tables
        <3> QED BY <3>1 DEF Tables
    <2> QED BY <2>1, <2>2
<1> QED BY <1>4, <1>5 DEF Tables, TableFits, Reachable

\* Every table as it was.
LEMMA TablesKept ==
    ASSUME Tables, UNCHANGED <<channels, tableVars>>
    PROVE  Tables'
BY DEF Tables, tableVars, TableFits, Table, Reachable

-----------------------------------------------------------------------------
(***************************************************************************)
(* Packets.                                                                *)
(***************************************************************************)

RoutePacket ==
    [type : {"request", "response"}, session : Nodes, initiator : Nodes, responder : Nodes,
     route : Seq(Gateways)]

Packet == RoutePacket \cup [type : {"unreachable"}, gw : Nodes, id : Nodes]

\* The route of a packet runs from its initiator to y, and meets no node twice
\* before that.
RouteFits(p, y) ==
    /\ Once(p.route)
    /\ \A i \in 1 .. Len(p.route) : p.route[i] # p.initiator
    /\ Runs(p.initiator, p.route, y)

\* A request comes from the last node of its route, and one with no gateway in
\* it goes to a gateway; a response goes to the node before its sender.
PacketFits(m, n, p) ==
    /\ p.type = "request" =>
           /\ RouteFits(p, n)
           /\ m = Hop(p.initiator, p.route, n, Len(p.route))
           /\ p.route = <<>> => n \in Gateways
    /\ p.type = "response" =>
           /\ RouteFits(p, p.responder)
           /\ \E i \in 0 .. Len(p.route) :
                  /\ n = Hop(p.initiator, p.route, p.responder, i)
                  /\ m = Hop(p.initiator, p.route, p.responder, i + 1)

Queues == [Nodes -> [Nodes -> Seq(Packet)]]

Control ==
    /\ control \in Queues
    /\ \A m, n \in Nodes : \A p \in Range(control[m][n]) : PacketFits(m, n, p)

\* A request or a response carries two ends and a chain of gateways.
LEMMA RouteFields ==
    ASSUME NEW p \in Packet, p.type \in {"request", "response"}
    PROVE  /\ p \in RoutePacket /\ p.session \in Nodes
           /\ p.initiator \in Nodes /\ p.responder \in Nodes /\ p.route \in Seq(Gateways)
           /\ p = [type |-> p.type, session |-> p.session, initiator |-> p.initiator,
                   responder |-> p.responder, route |-> p.route]
BY DEF Packet, RoutePacket

\* What node n adds in a step to the packets in flight, and nothing else is new.
AddedBy(n, out) ==
    /\ control' \in Queues
    /\ \A k, b \in Nodes : \A p \in Range(control'[k][b]) :
           p \in Range(control[k][b]) \/ (k = n /\ {n, b} \in Links /\ p \in Range(out[b]))

\* In after the queues hold what they held, and what n has put in out.
Extended(after, queues, n, out) ==
    /\ after \in Queues
    /\ \A k, b \in Nodes : \A p \in Range(after[k][b]) :
           p \in Range(queues[k][b]) \/ (k = n /\ {n, b} \in Links /\ p \in Range(out[b]))

\* Packets behind packets are packets, the old ones and the new.
LEMMA PacketsBehind ==
    ASSUME NEW x \in Seq(Packet), NEW y \in Seq(Packet)
    PROVE  x \o y \in Seq(Packet) /\ Range(x \o y) = Range(x) \cup Range(y)
<1> DEFINE P == Packet
<1> HIDE DEF P
<1>1. x \in Seq(P) /\ y \in Seq(P)
    BY DEF P
<1>2. Range(x \o y) = Range(x) \cup Range(y)
    BY ONLY <1>1, RangeConcatenation
<1>3. x \o y \in Seq(P)
    BY ONLY <1>1, ConcatProperties
<1> QED BY <1>2, <1>3 DEF P

\* What n enqueues.
LEMMA EnqueueAdds ==
    ASSUME NEW n \in Nodes, \A b \in channels[n] : {n, b} \in Links,
           NEW queues \in Queues, NEW out \in [Nodes -> Seq(Packet)]
    PROVE  Extended(Enqueue(queues, n, out), queues, n, out)
<1> DEFINE more(b) == IF b \in channels[n] /\ {n, b} \in wire THEN queues[n][b] \o out[b] ELSE queues[n][b]
           after == Enqueue(queues, n, out)
<1>1. after = [queues EXCEPT ![n] = [b \in Nodes |-> more(b)]]
    BY DEF Enqueue
<1>2. ASSUME NEW b \in Nodes
      PROVE  /\ more(b) \in Seq(Packet)
             /\ \A p \in Range(more(b)) : p \in Range(queues[n][b]) \/ ({n, b} \in Links /\ p \in Range(out[b]))
    <2>1. queues[n][b] \in Seq(Packet) /\ out[b] \in Seq(Packet)
        BY DEF Queues
    <2>2. /\ queues[n][b] \o out[b] \in Seq(Packet)
          /\ Range(queues[n][b] \o out[b]) = Range(queues[n][b]) \cup Range(out[b])
        BY <2>1, PacketsBehind
    <2>3. CASE b \in channels[n] /\ {n, b} \in wire
        BY <2>2, <2>3
    <2>4. CASE ~(b \in channels[n] /\ {n, b} \in wire)
        BY <2>1, <2>4
    <2> QED BY <2>3, <2>4
<1> HIDE DEF more
<1>3. after \in Queues
    <2>1. [b \in Nodes |-> more(b)] \in [Nodes -> Seq(Packet)]
        BY <1>2
    <2> QED BY <1>1, <2>1 DEF Queues
<1>4. \A k, b \in Nodes : after[k][b] = IF k = n THEN more(b) ELSE queues[k][b]
    BY <1>1 DEF Queues
<1>5. ASSUME NEW k \in Nodes, NEW b \in Nodes, NEW p \in Range(after[k][b])
      PROVE  p \in Range(queues[k][b]) \/ (k = n /\ {n, b} \in Links /\ p \in Range(out[b]))
    <2>1. CASE k = n
        BY <1>2, <1>4, <1>5, <2>1
    <2>2. CASE k # n
        BY <1>4, <1>5, <2>2
    <2> QED BY <2>1, <2>2
<1> QED BY <1>3, <1>5 DEF Extended

\* What n reads, the first packet from m, and what it leaves.
LEMMA ReadTakes ==
    ASSUME Control, NEW m \in Nodes, NEW n \in Nodes, Readable(m, n)
    PROVE  /\ Head(control[m][n]) \in Packet /\ Head(control[m][n]) \in Range(control[m][n])
           /\ Read(m, n) \in Queues
           /\ \A k, b \in Nodes : \A p \in Range(Read(m, n)[k][b]) : p \in Range(control[k][b])
<1>1. control \in Queues /\ control[m][n] \in Seq(Packet) /\ control[m][n] # <<>>
    BY DEF Control, Queues, Readable
<1>2. PICK rest : rest = Tail(control[m][n])
    OBVIOUS
<1>3. PICK size : size = Len(control[m][n])
    OBVIOUS
<1>4. /\ rest \in Seq(Packet) /\ Len(rest) = size - 1 /\ Head(control[m][n]) \in Packet
      /\ \A i \in 1 .. Len(rest) : rest[i] = control[m][n][i + 1]
    BY <1>1, <1>2, <1>3, HeadTailProperties
<1>5. size \in Nat /\ size # 0 /\ Range(control[m][n]) = {control[m][n][i] : i \in 1 .. size}
    BY <1>1, <1>3, EmptySeq, LenProperties, RangeEquality
<1>6. Head(control[m][n]) = control[m][n][1]
    BY <1>1
<1>7. Range(rest) = {rest[i] : i \in 1 .. Len(rest)}
    BY <1>4, RangeEquality
<1>8. ASSUME NEW p \in Range(rest) PROVE p \in Range(control[m][n])
    <2>1. PICK i \in 1 .. Len(rest) : p = rest[i]
        BY <1>7
    <2>2. i + 1 \in 1 .. size /\ p = control[m][n][i + 1]
        BY <1>4, <1>5, <2>1
    <2> QED BY <1>5, <2>2
<1>9. Read(m, n) = [control EXCEPT ![m][n] = rest]
    BY <1>2 DEF Read
<1> DEFINE P == Packet
<1> HIDE DEF P
<1>10. /\ Read(m, n) \in [Nodes -> [Nodes -> Seq(P)]]
       /\ \A k, b \in Nodes : Read(m, n)[k][b] = IF k = m /\ b = n THEN rest ELSE control[k][b]
    <2>1. control \in [Nodes -> [Nodes -> Seq(P)]] /\ rest \in Seq(P)
        BY <1>1, <1>4 DEF Queues, P
    <2>2. PICK row : row = [control[m] EXCEPT ![n] = rest]
        OBVIOUS
    <2>3. row \in [Nodes -> Seq(P)] /\ \A b \in Nodes : row[b] = IF b = n THEN rest ELSE control[m][b]
        BY ONLY <2>1, <2>2, m \in Nodes, n \in Nodes
    <2>4. Read(m, n) = [control EXCEPT ![m] = row]
        BY <1>9, <2>2
    <2>5. Read(m, n) \in [Nodes -> [Nodes -> Seq(P)]]
        BY ONLY <2>1, <2>3, <2>4, m \in Nodes
    <2>6. \A k \in Nodes : Read(m, n)[k] = IF k = m THEN row ELSE control[k]
        BY ONLY <2>1, <2>4, m \in Nodes
    <2> QED BY ONLY <2>3, <2>5, <2>6
<1>11. Read(m, n) \in Queues
    BY ONLY <1>10 DEF Queues, P
<1>12. Head(control[m][n]) \in Range(control[m][n])
    BY <1>5, <1>6
<1> QED BY <1>4, <1>8, <1>10, <1>11, <1>12

\* What n reads and enqueues, in one step.
LEMMA ReadAdds ==
    ASSUME Control, NEW m \in Nodes, NEW n \in Nodes, Readable(m, n),
           \A b \in channels[n] : {n, b} \in Links,
           NEW out \in [Nodes -> Seq(Packet)], control' = Enqueue(Read(m, n), n, out)
    PROVE  AddedBy(n, out)
<1>1. PICK queues : queues = Read(m, n)
    OBVIOUS
<1>2. queues \in Queues /\ \A k, b \in Nodes : \A p \in Range(queues[k][b]) : p \in Range(control[k][b])
    BY <1>1, ReadTakes
<1>3. Extended(control', queues, n, out)
    BY <1>1, <1>2, EnqueueAdds
<1> QED BY ONLY <1>2, <1>3 DEF Extended, AddedBy

\* A node that reads a packet and sends nothing adds no packet.
LEMMA ReadAlone ==
    ASSUME Control, NEW m \in Nodes, NEW n \in Nodes, Readable(m, n), control' = Read(m, n), NEW out
    PROVE  AddedBy(n, out)
BY ReadTakes DEF AddedBy

\* The queue new holds what is left of old when the first s packets are read,
\* and more behind it.
Carried(old, new, s, more) ==
    /\ s \in {0, 1} /\ s <= Len(old)
    /\ Len(new) = (Len(old) - s) + Len(more)
    /\ \A i \in 1 .. Len(old) - s : new[i] = old[i + s]
    /\ \A i \in 1 .. Len(more) : new[(Len(old) - s) + i] = more[i]

\* What a node that puts out into its queues sends from k to b.
Sent(n, out, k, b) ==
    IF k = n /\ b \in channels[n] /\ {n, b} \in wire THEN out[b] ELSE <<>>

\* Node n reads the first packet from m, and sends what is in out.
Moves(m, n, out) ==
    /\ out \in [Nodes -> Seq(Packet)]
    /\ \A k, b \in Nodes :
           Carried(control[k][b], control'[k][b], IF k = m /\ b = n THEN 1 ELSE 0, Sent(n, out, k, b))

\* Node n sends what is in out, and nobody reads.
Puts(n, out) ==
    /\ out \in [Nodes -> Seq(Packet)]
    /\ \A k, b \in Nodes :
           Carried(control[k][b], control'[k][b], 0, IF k = n THEN out[b] ELSE <<>>)

\* A queue that is read, or not, and grows, or not.
LEMMA CarriedBehind ==
    ASSUME NEW old \in Seq(Packet), NEW more \in Seq(Packet)
    PROVE  /\ Carried(old, old \o more, 0, more)
           /\ Carried(old, old, 0, <<>>)
           /\ old # <<>> => Carried(old, Tail(old) \o more, 1, more) /\ Carried(old, Tail(old), 1, <<>>)
<1> DEFINE P == Packet
<1> HIDE DEF P
<1>1. old \in Seq(P) /\ more \in Seq(P) /\ Len(old) \in Nat /\ Len(more) \in Nat
    BY LenProperties DEF P
<1>2. PICK none : none = <<>> /\ Len(none) = 0
    <2>1. Len(<<>>) = 0
        OBVIOUS
    <2> QED BY <2>1
<1>3. Carried(old, old \o more, 0, more)
    <2>1. /\ Len(old \o more) = Len(old) + Len(more)
          /\ \A i \in 1 .. Len(old) + Len(more) :
                 (old \o more)[i] = IF i <= Len(old) THEN old[i] ELSE more[i - Len(old)]
        BY ONLY <1>1, ConcatProperties
    <2> QED BY ONLY <1>1, <2>1 DEF Carried
<1>4. Carried(old, old, 0, none)
    BY ONLY <1>1, <1>2 DEF Carried
<1>5. ASSUME old # <<>>
      PROVE  Carried(old, Tail(old) \o more, 1, more) /\ Carried(old, Tail(old), 1, none)
    <2>1. PICK rest : rest = Tail(old)
        OBVIOUS
    <2>2. /\ rest \in Seq(P) /\ Len(rest) = Len(old) - 1
          /\ \A i \in 1 .. Len(rest) : rest[i] = old[i + 1]
        BY ONLY <1>1, <1>5, <2>1, HeadTailProperties
    <2>3. Len(old) # 0
        BY ONLY <1>1, <1>5, EmptySeq
    <2>4. /\ Len(rest \o more) = Len(rest) + Len(more)
          /\ \A i \in 1 .. Len(rest) + Len(more) :
                 (rest \o more)[i] = IF i <= Len(rest) THEN rest[i] ELSE more[i - Len(rest)]
        BY ONLY <1>1, <2>2, ConcatProperties
    <2>5. Carried(old, rest \o more, 1, more)
        BY ONLY <1>1, <2>2, <2>3, <2>4 DEF Carried
    <2>6. Carried(old, rest, 1, none)
        BY ONLY <1>1, <1>2, <2>2, <2>3 DEF Carried
    <2> QED BY <2>1, <2>5, <2>6
<1> QED BY <1>2, <1>3, <1>4, <1>5

\* What a queue holds when a packet of it has been read.
LEMMA ReadLeaves ==
    ASSUME Control, NEW m \in Nodes, NEW n \in Nodes, NEW k \in Nodes, NEW b \in Nodes
    PROVE  Read(m, n)[k][b] = IF k = m /\ b = n THEN Tail(control[k][b]) ELSE control[k][b]
<1>1. control \in Queues
    BY DEF Control
<1>2. PICK rest : rest = Tail(control[m][n])
    OBVIOUS
<1>3. Read(m, n) = [control EXCEPT ![m][n] = rest]
    BY <1>2 DEF Read
<1>4. Read(m, n)[k][b] = IF k = m /\ b = n THEN rest ELSE control[k][b]
    BY <1>1, <1>3 DEF Queues
<1> QED BY <1>2, <1>4

\* The handlers of packets do nothing else with the queues.
LEMMA ReadMoves ==
    ASSUME Control, NEW m \in Nodes, NEW n \in Nodes, Readable(m, n),
           NEW out \in [Nodes -> Seq(Packet)], control' = Enqueue(Read(m, n), n, out)
    PROVE  Moves(m, n, out)
<1>1. control \in Queues /\ Read(m, n) \in Queues /\ control[m][n] # <<>>
    BY ReadTakes DEF Control, Readable
<1>2. ASSUME NEW k \in Nodes, NEW b \in Nodes
      PROVE  Carried(control[k][b], control'[k][b], IF k = m /\ b = n THEN 1 ELSE 0, Sent(n, out, k, b))
    <2>1. control[k][b] \in Seq(Packet) /\ out[b] \in Seq(Packet)
        BY <1>1 DEF Queues
    <2>2. PICK left : left = IF k = m /\ b = n THEN Tail(control[k][b]) ELSE control[k][b]
        OBVIOUS
    <2>3. PICK queues \in Queues : queues = Read(m, n)
        BY <1>1
    <2>4. queues[k][b] = left
        BY <2>2, <2>3, ReadLeaves
    <2>5. control'[k][b] = IF k = n /\ b \in channels[n] /\ {n, b} \in wire THEN left \o out[b] ELSE left
        <3> DEFINE more(c) == IF c \in channels[n] /\ {n, c} \in wire THEN queues[n][c] \o out[c]
                              ELSE queues[n][c]
        <3>1. control' = [queues EXCEPT ![n] = [c \in Nodes |-> more(c)]]
            BY <2>3 DEF Enqueue
        <3>2. control'[k][b] = IF k = n THEN more(b) ELSE queues[k][b]
            <4> HIDE DEF more
            <4> QED BY <3>1 DEF Queues
        <3> QED BY <2>4, <3>2
    <2>6. CASE k = n /\ b \in channels[n] /\ {n, b} \in wire
        BY <1>1, <2>1, <2>2, <2>5, <2>6, CarriedBehind DEF Sent
    <2>7. CASE ~(k = n /\ b \in channels[n] /\ {n, b} \in wire)
        BY <1>1, <2>1, <2>2, <2>5, <2>7, CarriedBehind DEF Sent
    <2> QED BY <2>6, <2>7
<1> QED BY <1>2 DEF Moves

\* The same when nothing is sent.
LEMMA ReadMovesOnly ==
    ASSUME Control, NEW m \in Nodes, NEW n \in Nodes, Readable(m, n), control' = Read(m, n)
    PROVE  Moves(m, n, Nothing)
<1>1. ASSUME NEW k \in Nodes, NEW b \in Nodes
      PROVE  Carried(control[k][b], control'[k][b], IF k = m /\ b = n THEN 1 ELSE 0, Sent(n, Nothing, k, b))
    <2>1. control[k][b] \in Seq(Packet) /\ control[m][n] # <<>>
        BY DEF Control, Queues, Readable
    <2>2. control'[k][b] = IF k = m /\ b = n THEN Tail(control[k][b]) ELSE control[k][b]
        BY ReadLeaves
    <2>3. Sent(n, Nothing, k, b) = <<>>
        BY DEF Sent, Nothing
    <2> QED BY <2>1, <2>2, <2>3, CarriedBehind
<1>2. Nothing \in [Nodes -> Seq(Packet)]
    <2>1. PICK none \in Seq(Packet) : none = <<>>
        <3>1. <<>> \in Seq(Packet)
            OBVIOUS
        <3> QED BY <3>1
    <2> QED BY <2>1 DEF Nothing
<1> QED BY <1>1, <1>2 DEF Moves

\* Only packet p is sent, and only to the nodes given.
Sends(out, to, p) ==
    /\ out \in [Nodes -> Seq(Packet)]
    /\ \A b \in Nodes : \A q \in Range(out[b]) : b \in to /\ q = p

\* What goes to one neighbour, to all but one, or to none.
LEMMA OutTypes ==
    ASSUME NEW n \in Nodes, NEW m \in Nodes, NEW p \in Packet
    PROVE  /\ Sends(ToOne(n, m, p), {m}, p)
           /\ Sends(ToAllBut(n, m, p), Nodes \ {m}, p)
           /\ Sends(Nothing, {}, p)
<1>1. /\ <<p>> \in Seq(Packet) /\ <<>> \in Seq(Packet)
      /\ Range(<<p>>) = {p} /\ Range(<<>>) = {}
    BY DEF Range
<1>2. PICK one, none : /\ one = <<p>> /\ none = <<>> /\ one \in Seq(Packet) /\ none \in Seq(Packet)
                       /\ Range(one) = {p} /\ Range(none) = {}
    BY <1>1
<1>3. /\ ToOne(n, m, p) = [k \in Nodes |-> IF k = m THEN one ELSE none]
      /\ ToAllBut(n, m, p) = [k \in Nodes |-> IF k = m THEN none ELSE one]
      /\ Nothing = [k \in Nodes |-> none]
    BY <1>2 DEF ToOne, ToAllBut, Nothing
<1>4. ASSUME NEW b \in Nodes
      PROVE  /\ b \in {m} => ToOne(n, m, p)[b] = one /\ ToAllBut(n, m, p)[b] = none
             /\ b \notin {m} => ToOne(n, m, p)[b] = none /\ ToAllBut(n, m, p)[b] = one
             /\ Nothing[b] = none
    BY ONLY <1>3, <1>4
<1>5. /\ ToOne(n, m, p) \in [Nodes -> Seq(Packet)]
      /\ ToAllBut(n, m, p) \in [Nodes -> Seq(Packet)]
      /\ Nothing \in [Nodes -> Seq(Packet)]
    BY ONLY <1>2, <1>3
<1>6. ASSUME NEW b \in Nodes, NEW q \in Range(ToOne(n, m, p)[b]) PROVE b \in {m} /\ q = p
    BY ONLY <1>2, <1>4, <1>6
<1>7. ASSUME NEW b \in Nodes, NEW q \in Range(ToAllBut(n, m, p)[b]) PROVE b \in Nodes \ {m} /\ q = p
    BY ONLY <1>2, <1>4, <1>7
<1>8. ASSUME NEW b \in Nodes, NEW q \in Range(Nothing[b]) PROVE b \in {} /\ q = p
    BY ONLY <1>2, <1>4, <1>8
<1> QED BY ONLY <1>5, <1>6, <1>7, <1>8 DEF Sends

\* What is sent of two kinds is in out, and no more.
Joins(out, x, y) ==
    /\ out \in [Nodes -> Seq(Packet)]
    /\ \A b \in Nodes : Range(out[b]) = Range(x[b]) \cup Range(y[b])

\* An answer and the packet forwarded, one behind the other.
LEMMA BothTypes ==
    ASSUME NEW x \in [Nodes -> Seq(Packet)], NEW y \in [Nodes -> Seq(Packet)]
    PROVE  Joins(Both(x, y), x, y)
<1>1. ASSUME NEW b \in Nodes
      PROVE  x[b] \o y[b] \in Seq(Packet) /\ Range(x[b] \o y[b]) = Range(x[b]) \cup Range(y[b])
    <2>1. x[b] \in Seq(Packet) /\ y[b] \in Seq(Packet)
        OBVIOUS
    <2> QED BY <2>1, PacketsBehind
<1> QED BY <1>1 DEF Both, Joins

-----------------------------------------------------------------------------
(***************************************************************************)
(* Requests and responses.                                                 *)
(***************************************************************************)

\* The answer to a request goes back to the node it came from.
LEMMA AnswerFits ==
    ASSUME NEW m \in Nodes, NEW n \in Nodes, NEW p \in Packet, p.type = "request", PacketFits(m, n, p)
    PROVE  /\ Response(n, p) \in Packet /\ Response(n, p).type = "response"
           /\ Response(n, p).initiator = p.initiator /\ Response(n, p).responder = n
           /\ Response(n, p).route = p.route
           /\ PacketFits(n, m, Response(n, p))
<1> DEFINE size == Len(p.route)
<1>1. /\ p.session \in Nodes /\ p.initiator \in Nodes /\ p.responder \in Nodes
      /\ p.route \in Seq(Gateways) /\ size \in Nat
      /\ p = [type |-> p.type, session |-> p.session, initiator |-> p.initiator,
              responder |-> p.responder, route |-> p.route]
    BY RouteFields, ChainType
<1>2. PICK q : q = Response(n, p)
    OBVIOUS
<1>3. q = [type |-> "response", session |-> p.session, initiator |-> p.initiator,
           responder |-> n, route |-> p.route]
    BY <1>1, <1>2 DEF Response
<1>4. /\ q.type = "response" /\ q.initiator = p.initiator /\ q.responder = n /\ q.route = p.route
      /\ q \in Packet
    BY <1>1, <1>3 DEF Packet, RoutePacket
<1>5. RouteFits(p, n) /\ m = Hop(p.initiator, p.route, n, size)
    BY DEF PacketFits
<1>6. RouteFits(q, n)
    BY <1>4, <1>5 DEF RouteFits
<1>7. Hop(p.initiator, p.route, n, size + 1) = n /\ size \in 0 .. size
    BY <1>1 DEF Hop
<1>8. \E i \in 0 .. Len(q.route) : /\ m = Hop(q.initiator, q.route, q.responder, i)
                                   /\ n = Hop(q.initiator, q.route, q.responder, i + 1)
    BY <1>4, <1>5, <1>7
<1>9. PacketFits(n, m, q)
    BY ONLY <1>4, <1>6, <1>8 DEF PacketFits
<1> QED BY <1>2, <1>4, <1>9

\* A gateway that is not in the route yet forwards the request.
LEMMA ForwardFits ==
    ASSUME NEW m \in Nodes, NEW n \in Gateways, NEW p \in Packet, p.type = "request", PacketFits(m, n, p),
           n # p.initiator, n \notin Range(p.route)
    PROVE  /\ Forwarded(n, p) \in Packet /\ Forwarded(n, p).type = "request"
           /\ Forwarded(n, p).initiator = p.initiator /\ Forwarded(n, p).route = Append(p.route, n)
           /\ \A b \in Nodes : {n, b} \in Links => PacketFits(n, b, Forwarded(n, p))
<1> DEFINE size == Len(p.route)
<1>1. /\ p.session \in Nodes /\ p.initiator \in Nodes /\ p.responder \in Nodes
      /\ p.route \in Seq(Gateways) /\ size \in Nat
      /\ p = [type |-> p.type, session |-> p.session, initiator |-> p.initiator,
              responder |-> p.responder, route |-> p.route]
    BY RouteFields, ChainType
<1>2. PICK longer : longer = Append(p.route, n)
    OBVIOUS
<1>3. /\ longer \in Seq(Gateways) /\ Len(longer) = size + 1
      /\ \A i \in 1 .. size : longer[i] = p.route[i]
      /\ longer[size + 1] = n /\ longer # <<>>
    BY <1>1, <1>2, AppendProperties
<1>4. PICK q : q = Forwarded(n, p)
    OBVIOUS
<1>5. q = [type |-> p.type, session |-> p.session, initiator |-> p.initiator,
           responder |-> p.responder, route |-> longer]
    BY <1>1, <1>2, <1>4 DEF Forwarded
<1>6. /\ q.type = "request" /\ q.initiator = p.initiator /\ q.route = longer
      /\ q \in Packet
    BY <1>1, <1>3, <1>5 DEF Packet, RoutePacket
<1>7. \A i \in 1 .. size : p.route[i] # n
    BY <1>1, RangeEquality
<1>8. /\ Once(p.route) /\ (\A i \in 1 .. size : p.route[i] # p.initiator)
      /\ Runs(p.initiator, p.route, n)
    BY DEF PacketFits, RouteFits
<1>9. \A i \in 1 .. Len(longer) : longer[i] # p.initiator
    <2>1. \A i \in 1 .. Len(longer) : i \in 1 .. size \/ i = size + 1
        BY <1>1, <1>3
    <2> QED BY <1>3, <1>8, <2>1
<1>10. Once(longer)
    <2> SUFFICES ASSUME NEW i \in 1 .. Len(longer), NEW j \in 1 .. Len(longer), longer[i] = longer[j]
                 PROVE  i = j
        BY DEF Once
    <2>1. (i \in 1 .. size \/ i = size + 1) /\ (j \in 1 .. size \/ j = size + 1)
        BY <1>1, <1>3
    <2>2. i \in 1 .. size /\ j \in 1 .. size => i = j
        BY <1>3, <1>8 DEF Once
    <2> QED BY <1>3, <1>7, <2>1, <2>2
<1>11. ASSUME NEW b \in Nodes, {n, b} \in Links PROVE PacketFits(n, b, q)
    <2>1. Runs(p.initiator, longer, b)
        BY <1>1, <1>2, <1>8, <1>11, AppendRuns
    <2>2. RouteFits(q, b)
        BY <1>6, <1>9, <1>10, <2>1 DEF RouteFits
    <2>3. n = Hop(p.initiator, longer, b, Len(longer))
        BY <1>1, <1>3 DEF Hop
    <2> QED BY <1>3, <1>6, <2>2, <2>3 DEF PacketFits
<1> QED BY <1>2, <1>4, <1>6, <1>11

\* What a request teaches: its initiator is a neighbour whose channel is open,
\* or the route back to it is stored.
Learnt(n, p) ==
    IF n \in Gateways /\ p.route = <<>>
    THEN AddSibling(Table(n), p.initiator)
    ELSE AddReversed(Table(n), p.initiator, p.route)

\* Between steps the table of a node fits: its siblings are the open channels.
LEMMA TableOf ==
    ASSUME Tables, NEW n \in Nodes
    PROVE  /\ TableFits(n, Table(n)) /\ Table(n).siblings = channels[n] /\ Table(n).routes = routes[n]
           /\ Table(n) = [siblings |-> Table(n).siblings, routes |-> Table(n).routes]
BY DEF Tables, Table

\* process_route_request: what a gateway or a node learns from a request that
\* fits leaves a table that fits, and no new sibling.
LEMMA LearntFits ==
    ASSUME Tables, NEW n \in Nodes, NEW m \in channels[n],
           NEW p \in Packet, p.type = "request", PacketFits(m, n, p)
    PROVE  TableFits(n, Learnt(n, p)) /\ Learnt(n, p).siblings = channels[n]
<1>1. /\ TableFits(n, Table(n)) /\ Table(n).siblings = channels[n]
      /\ Table(n) = [siblings |-> Table(n).siblings, routes |-> Table(n).routes]
    BY TableOf
<1>2. p.initiator \in Nodes /\ p.route \in Seq(Gateways)
    BY RouteFields
<1>3. /\ Runs(p.initiator, p.route, n) /\ m = Hop(p.initiator, p.route, n, Len(p.route))
      /\ p.route = <<>> => n \in Gateways
    BY DEF PacketFits, RouteFits
<1>4. CASE p.route = <<>>
    <2>1. m = p.initiator
        BY <1>2, <1>3, <1>4, ChainType DEF Hop
    <2>2. channels[n] \cup {m} = channels[n]
        OBVIOUS
    <2>3. Learnt(n, p) = AddSibling(Table(n), m)
        BY <1>3, <1>4, <2>1 DEF Learnt
    <2>4. /\ TableFits(n, AddSibling(Table(n), m))
          /\ AddSibling(Table(n), m).siblings = Table(n).siblings \cup {m}
        <3>1. m \in Nodes /\ TableFits(n, Table(n)) /\ n \in Nodes
            BY <1>1, <1>2, <2>1
        <3> QED BY ONLY <3>1, FitsAddSibling
    <2> QED BY ONLY <1>1, <2>2, <2>3, <2>4
<1>5. CASE p.route # <<>>
    <2>1. PICK back : back = Reverse(p.route)
        OBVIOUS
    <2>2. back \in Seq(Gateways) /\ back # <<>> /\ Runs(n, back, p.initiator)
        BY <1>2, <1>3, <1>5, <2>1, ReverseRuns
    <2>3. Learnt(n, p) = AddRoute(Table(n), p.initiator, back)
        BY <1>5, <2>1 DEF Learnt, AddReversed
    <2>4. /\ TableFits(n, AddRoute(Table(n), p.initiator, back))
          /\ AddRoute(Table(n), p.initiator, back).siblings = Table(n).siblings
        <3>1. n \in Nodes
            OBVIOUS
        <3> QED BY ONLY <1>1, <1>2, <2>2, <3>1, FitsAddRoute
    <2> QED BY ONLY <1>1, <2>3, <2>4
<1> QED BY <1>4, <1>5

\* Node n is on the way of a response, and its sender is the next on it.
OnTheWay(m, n, p, i) ==
    /\ i \in 0 .. Len(p.route)
    /\ n = Hop(p.initiator, p.route, p.responder, i)
    /\ m = Hop(p.initiator, p.route, p.responder, i + 1)

\* The two nodes by their numbers in the route.
PlaceOf(m, n, p, i) ==
    /\ OnTheWay(m, n, p, i)
    /\ i = 0 <=> n = p.initiator
    /\ i # 0 => i \in 1 .. Len(p.route) /\ n = p.route[i] /\ n \in Gateways
    /\ m = IF i = Len(p.route) THEN p.responder ELSE p.route[i + 1]

\* Where n is in the route of a response that has come to it from m.
LEMMA ResponsePlace ==
    ASSUME NEW m \in Nodes, NEW n \in Nodes, NEW p \in Packet, p.type = "response", PacketFits(m, n, p)
    PROVE  /\ p.initiator \in Nodes /\ p.responder \in Nodes /\ p.route \in Seq(Gateways)
           /\ Len(p.route) \in Nat
           /\ Once(p.route) /\ (\A i \in 1 .. Len(p.route) : p.route[i] # p.initiator)
           /\ Runs(p.initiator, p.route, p.responder)
           /\ \E i \in 0 .. Len(p.route) : PlaceOf(m, n, p, i)
<1>1. /\ p.initiator \in Nodes /\ p.responder \in Nodes /\ p.route \in Seq(Gateways)
      /\ Len(p.route) \in Nat
      /\ \A i \in 1 .. Len(p.route) : p.route[i] \in Gateways
    BY RouteFields, ChainType
<1>2. /\ RouteFits(p, p.responder)
      /\ \E i \in 0 .. Len(p.route) :
             /\ n = Hop(p.initiator, p.route, p.responder, i)
             /\ m = Hop(p.initiator, p.route, p.responder, i + 1)
    BY DEF PacketFits
<1>3. PICK i \in 0 .. Len(p.route) :
             /\ n = Hop(p.initiator, p.route, p.responder, i)
             /\ m = Hop(p.initiator, p.route, p.responder, i + 1)
    BY <1>2
<1>4. Once(p.route) /\ (\A j \in 1 .. Len(p.route) : p.route[j] # p.initiator)
    BY <1>2 DEF RouteFits
<1>5. i # 0 => i \in 1 .. Len(p.route) /\ n = p.route[i]
    BY <1>1, <1>3 DEF Hop
<1>6. i = 0 => n = p.initiator
    BY <1>3 DEF Hop
<1>7. m = IF i = Len(p.route) THEN p.responder ELSE p.route[i + 1]
    <2>1. CASE i = Len(p.route)
        BY <1>1, <1>3, <2>1 DEF Hop
    <2>2. CASE i # Len(p.route)
        <3>1. i + 1 # 0 /\ i + 1 <= Len(p.route)
            BY <1>1, <2>2
        <3> QED BY <1>3, <2>2, <3>1 DEF Hop
    <2> QED BY <2>1, <2>2
<1>8. OnTheWay(m, n, p, i)
    BY <1>3 DEF OnTheWay
<1>9. (i = 0 <=> n = p.initiator) /\ (i # 0 => i \in 1 .. Len(p.route) /\ n = p.route[i] /\ n \in Gateways)
    BY <1>1, <1>4, <1>5, <1>6
<1>10. Runs(p.initiator, p.route, p.responder)
    BY <1>2 DEF RouteFits
<1>11. PlaceOf(m, n, p, i)
    BY ONLY <1>7, <1>8, <1>9 DEF PlaceOf
<1> QED BY <1>1, <1>4, <1>10, <1>11

\* What n learns from a response: the route from it to the responder, which is
\* a neighbour when no gateway is left on the way.
LEMMA ResponseTeaches ==
    ASSUME NEW m \in Nodes, NEW n \in Nodes, NEW p \in Packet, p.type = "response", PacketFits(m, n, p),
           NEW i \in 0 .. Len(p.route), OnTheWay(m, n, p, i),
           i = 0 <=> n = p.initiator,
           i # 0 => n = p.route[i]
    PROVE  LET rest == SubSeq(p.route, i + 1, Len(p.route))
           IN  /\ rest \in Seq(Gateways) /\ Runs(n, rest, p.responder)
               /\ rest = <<>> <=> i = Len(p.route)
               /\ i # Len(p.route) =>
                      /\ Head(rest) = p.route[i + 1]
                      /\ Tail(rest) = SubSeq(p.route, i + 2, Len(p.route))
                      /\ LearnFromResponse(n, p) = AddRoute(Table(n), p.responder, rest)
               /\ i = Len(p.route) => LearnFromResponse(n, p) = AddSibling(Table(n), p.responder)
<1> DEFINE size == Len(p.route)
<1>1. /\ p.initiator \in Nodes /\ p.responder \in Nodes /\ p.route \in Seq(Gateways) /\ size \in Nat
      /\ Once(p.route) /\ Runs(p.initiator, p.route, p.responder)
    BY ResponsePlace
<1>2. PICK rest : rest = SubSeq(p.route, i + 1, size)
    OBVIOUS
<1>3. CASE i = 0
    <2>1. rest = p.route
        BY <1>1, <1>2, <1>3, SubSeqFull
    <2>2. n = p.initiator
        BY <1>3
    <2>3. rest = <<>> <=> i = size
        BY <1>1, <1>3, <2>1, ChainType
    <2>4. size # 0 =>
              /\ Head(rest) = p.route[i + 1]
              /\ Tail(rest) = SubSeq(p.route, i + 2, size)
        <3> SUFFICES ASSUME size # 0
                     PROVE  Head(rest) = p.route[i + 1] /\ Tail(rest) = SubSeq(p.route, i + 2, size)
            OBVIOUS
        <3>1. rest \in Seq(Gateways) /\ rest # <<>> /\ i + 1 = 1 /\ i + 2 = 2
            BY <1>1, <1>3, <2>1, <2>3
        <3>2. Head(rest) = rest[1]
            BY <3>1
        <3>3. Tail(rest) = SubSeq(rest, 2, Len(rest))
            BY <3>1, TailIsSubSeq
        <3> QED BY <2>1, <3>1, <3>2, <3>3
    <2>5. LearnFromResponse(n, p) = IF p.route = <<>> THEN AddSibling(Table(n), p.responder)
                                    ELSE AddRoute(Table(n), p.responder, p.route)
        BY <2>2 DEF LearnFromResponse
    <2> QED BY <1>1, <1>2, <1>3, <2>1, <2>2, <2>3, <2>4, <2>5
<1>4. CASE i # 0
    <2>1. i \in 1 .. size /\ n = p.route[i] /\ n # p.initiator
        BY <1>1, <1>4
    <2>2. /\ rest \in Seq(Gateways)
          /\ rest = <<>> <=> i = size
          /\ i # size =>
                 /\ Head(rest) = p.route[i + 1]
                 /\ Tail(rest) = SubSeq(p.route, i + 2, size)
          /\ Runs(n, rest, p.responder)
        <3>1. RestRuns(p.route, i, rest, p.responder)
            BY ONLY <1>1, <1>2, <2>1, SuffixRuns
        <3> QED BY <2>1, <3>1 DEF RestRuns
    <2>3. After(p.route, n) = rest
        BY <1>1, <1>2, <2>1, PlaceInChain
    <2>4. Last(p.route) = n <=> i = size
        BY <1>1, <2>1 DEF Last, Once
    <2>5. LearnFromResponse(n, p) = IF i = size THEN AddSibling(Table(n), p.responder)
                                    ELSE AddSubroute(Table(n), p.responder, n, p.route)
        BY <2>1, <2>4 DEF LearnFromResponse
    <2> QED BY <1>2, <2>2, <2>3, <2>5 DEF AddSubroute
<1> QED BY <1>3, <1>4

\* A response leaves a table that fits, with the same siblings: the responder is
\* added as one only by its neighbour.
LEMMA TaughtFits ==
    ASSUME Tables, NEW n \in Nodes, NEW m \in channels[n],
           NEW p \in Packet, p.type = "response", PacketFits(m, n, p)
    PROVE  TableFits(n, LearnFromResponse(n, p)) /\ LearnFromResponse(n, p).siblings = channels[n]
<1>1. /\ TableFits(n, Table(n)) /\ Table(n).siblings = channels[n]
      /\ Table(n) = [siblings |-> Table(n).siblings, routes |-> Table(n).routes]
    BY TableOf
<1>2. m \in Nodes /\ n \in Nodes
    BY DEF Tables
<1>3. PICK i \in 0 .. Len(p.route) :
          /\ OnTheWay(m, n, p, i)
          /\ i = 0 <=> n = p.initiator
          /\ i # 0 => n = p.route[i]
          /\ m = IF i = Len(p.route) THEN p.responder ELSE p.route[i + 1]
    <2>1. PICK i \in 0 .. Len(p.route) : PlaceOf(m, n, p, i)
        BY <1>2, ResponsePlace
    <2> QED BY ONLY <2>1 DEF PlaceOf
<1>4. PICK rest : rest = SubSeq(p.route, i + 1, Len(p.route))
    OBVIOUS
<1>5. /\ rest \in Seq(Gateways) /\ Runs(n, rest, p.responder)
      /\ rest = <<>> <=> i = Len(p.route)
      /\ i # Len(p.route) => LearnFromResponse(n, p) = AddRoute(Table(n), p.responder, rest)
      /\ i = Len(p.route) => LearnFromResponse(n, p) = AddSibling(Table(n), p.responder)
    BY <1>2, <1>3, <1>4, ResponseTeaches
<1>6. p.responder \in Nodes
    BY RouteFields
<1>7. CASE i = Len(p.route)
    <2>1. LearnFromResponse(n, p) = AddSibling(Table(n), m) /\ channels[n] \cup {m} = channels[n]
        BY <1>3, <1>5, <1>7
    <2>2. /\ TableFits(n, AddSibling(Table(n), m))
          /\ AddSibling(Table(n), m).siblings = Table(n).siblings \cup {m}
        BY ONLY <1>1, <1>2, FitsAddSibling
    <2> QED BY ONLY <1>1, <2>1, <2>2
<1>8. CASE i # Len(p.route)
    <2>1. LearnFromResponse(n, p) = AddRoute(Table(n), p.responder, rest) /\ rest # <<>>
        BY <1>5, <1>8
    <2>2. /\ TableFits(n, AddRoute(Table(n), p.responder, rest))
          /\ AddRoute(Table(n), p.responder, rest).siblings = Table(n).siblings
        BY ONLY <1>1, <1>2, <1>5, <1>6, <2>1, FitsAddRoute
    <2> QED BY ONLY <1>1, <2>1, <2>2
<1> QED BY <1>7, <1>8

\* A gateway passes a response on to the node before it.
LEMMA PassedOnFits ==
    ASSUME NEW m \in Nodes, NEW n \in Nodes, NEW p \in Packet, p.type = "response", PacketFits(m, n, p),
           n # p.initiator
    PROVE  /\ n \in Gateways /\ n \in Range(p.route)
           /\ Addressee(n, p) \in Nodes /\ PacketFits(n, Addressee(n, p), p)
           /\ \A i \in 0 .. Len(p.route) :
                  OnTheWay(m, n, p, i) => i # 0 /\ OnTheWay(n, Addressee(n, p), p, i - 1)
<1> DEFINE size == Len(p.route)
<1>1. /\ p.initiator \in Nodes /\ p.responder \in Nodes /\ p.route \in Seq(Gateways) /\ size \in Nat
      /\ Once(p.route)
    BY ResponsePlace
<1>2. \E i \in 0 .. size : OnTheWay(m, n, p, i)
    <2>1. PICK i \in 0 .. size : PlaceOf(m, n, p, i)
        BY ResponsePlace
    <2> QED BY <2>1 DEF PlaceOf
<1>3. ASSUME NEW i \in 0 .. size, OnTheWay(m, n, p, i)
      PROVE  /\ i \in 1 .. size /\ n = p.route[i] /\ n \in Gateways /\ n \in Range(p.route)
             /\ Addressee(n, p) \in Nodes
             /\ OnTheWay(n, Addressee(n, p), p, i - 1)
    <2>1. i # 0
        BY <1>3 DEF OnTheWay, Hop
    <2>2. i \in 1 .. size /\ n = p.route[i]
        BY <1>1, <1>3, <2>1 DEF OnTheWay, Hop
    <2>3. IndexOf(p.route, n) = i
        BY <1>1, <2>2, PlaceInChain
    <2>4. Addressee(n, p) = IF i > 1 THEN p.route[i - 1] ELSE p.initiator
        BY <2>3 DEF Addressee
    <2>5. i - 1 \in 0 .. size /\ (i - 1) + 1 = i
        BY <1>1, <2>2
    <2>6. Addressee(n, p) = Hop(p.initiator, p.route, p.responder, i - 1)
        BY <1>1, <2>2, <2>4 DEF Hop
    <2>7. n = Hop(p.initiator, p.route, p.responder, i)
        BY <1>3 DEF OnTheWay
    <2>8. OnTheWay(n, Addressee(n, p), p, i - 1)
        BY <2>5, <2>6, <2>7 DEF OnTheWay
    <2>9. Addressee(n, p) \in Nodes
        <3>1. i > 1 => i - 1 \in 1 .. size
            BY <1>1, <2>2
        <3> QED BY <1>1, <2>4, <3>1, ChainType
    <2>10. n \in Gateways /\ n \in Range(p.route)
        <3>1. Range(p.route) = {p.route[j] : j \in 1 .. size}
            BY <1>1, RangeEquality
        <3> QED BY <1>1, <2>2, <3>1, ChainType
    <2> QED BY <2>2, <2>8, <2>9, <2>10
<1>4. PacketFits(n, Addressee(n, p), p)
    <2>1. PICK i \in 0 .. size : OnTheWay(m, n, p, i)
        BY <1>2
    <2>2. i - 1 \in 0 .. size /\ OnTheWay(n, Addressee(n, p), p, i - 1)
        BY <1>1, <1>3, <2>1
    <2>3. RouteFits(p, p.responder)
        BY DEF PacketFits
    <2> QED BY <2>2, <2>3 DEF PacketFits, OnTheWay
<1>5. \A i \in 0 .. size : OnTheWay(m, n, p, i) => i # 0 /\ OnTheWay(n, Addressee(n, p), p, i - 1)
    BY <1>3
<1>6. n \in Gateways /\ n \in Range(p.route) /\ Addressee(n, p) \in Nodes
    BY <1>2, <1>3
<1> QED BY <1>4, <1>5, <1>6

-----------------------------------------------------------------------------
(***************************************************************************)
(* The invariant of tables, packets and messages.                          *)
(***************************************************************************)

ChannelsAreLinks == \A n \in Nodes : \A m \in channels[n] : {n, m} \in Links

Messages ==
    \A d \in data :
        /\ d = [receiver |-> d.receiver, path |-> d.path, hops |-> d.hops]
        /\ d.receiver \in Nodes /\ d.path \in Seq(Nodes) /\ Len(d.path) >= 2

Counters ==
    /\ wire \subseteq Links
    /\ duplicates \subseteq Nodes
    /\ delivered \subseteq Nodes \X Nodes
    /\ breaks \in 0 .. MaxBreaks /\ sends \in 0 .. MaxData

RoutingInvariant == Tables /\ ChannelsAreLinks /\ Control /\ Messages /\ Counters

\* Both ends of a link are different nodes.
LEMMA LinkEnds ==
    ASSUME NEW n, NEW m, {n, m} \in Links
    PROVE  n # m
<1>1. PICK x \in Nodes, y \in Nodes : x # y /\ {n, m} = {x, y}
    BY RoutingAssumption DEF RoutingAssumption
<1> QED BY <1>1

\* Packets that fit are added.
LEMMA ControlStep ==
    ASSUME Control, NEW n \in Nodes, NEW out, AddedBy(n, out),
           \A b \in Nodes : {n, b} \in Links => \A p \in Range(out[b]) : PacketFits(n, b, p)
    PROVE  Control'
BY DEF Control, AddedBy

\* Packets that fit still do when none is sent or read.
LEMMA ControlKept ==
    ASSUME Control, UNCHANGED control
    PROVE  Control'
BY DEF Control

\* Before the first channel there is nothing to be wrong about.
LEMMA InitRouting == Init => RoutingInvariant
<1> SUFFICES ASSUME Init PROVE RoutingInvariant
    OBVIOUS
<1>1. 0 \in 0 .. MaxBreaks /\ 0 \in 0 .. MaxData
    BY RoutingAssumption DEF RoutingAssumption
<1>2. Tables
    BY DEF Init, Tables, TableFits, Table, Reachable
<1>3. Control
    <2>1. <<>> \in Seq(Packet) /\ Range(<<>>) = {}
        BY DEF Range
    <2>2. PICK none : none = <<>> /\ none \in Seq(Packet) /\ Range(none) = {}
        BY <2>1
    <2>3. control = [m \in Nodes |-> [n \in Nodes |-> none]]
        BY <2>2 DEF Init
    <2> QED BY <2>2, <2>3 DEF Control, Queues
<1> QED BY <1>1, <1>2, <1>3 DEF Init, RoutingInvariant, ChannelsAreLinks, Messages, Counters

-----------------------------------------------------------------------------
(***************************************************************************)
(* A channel established.                                                  *)
(***************************************************************************)

\* What n announces to a gateway m: itself, and as a gateway its other siblings.
Announces(n, m, p) ==
    /\ p \in Packet /\ p.type = "request"
    /\ \/ p.route = <<>> /\ p.initiator = n
       \/ p.route = <<n>> /\ n \in Gateways /\ p.initiator \in channels[n] \ {m}

\* What a node sends over a new channel (on_channel_established): its own
\* request first, and those a gateway makes for its siblings.
LEMMA AnnouncementTypes ==
    ASSUME Tables, NEW n \in Nodes, NEW m \in Nodes,
           NEW order \in SetToSeqs(Announced(n, m, AddSibling(Table(n), m)))
    PROVE  /\ Announcements(n, order) \in Seq(Packet)
           /\ \A p \in Range(Announcements(n, order)) : Announces(n, m, p)
<1> DEFINE others == Announced(n, m, AddSibling(Table(n), m))
           size == Cardinality(others)
<1>1. /\ others \subseteq channels[n] \ {m}
      /\ others # {} => n \in Gateways
    BY DEF Announced, AddSibling, Table, Tables
<1>2. channels[n] \subseteq Nodes
    BY DEF Tables
<1>3. size \in Nat
    <2>1. IsFiniteSet(Nodes) /\ others \subseteq Nodes
        BY <1>1, <1>2, RoutingAssumption DEF RoutingAssumption
    <2>2. IsFiniteSet(others)
        BY <2>1, FS_Subset
    <2> QED BY <2>2, FS_CardinalityType
<1>4. order \in [1 .. size -> others]
    BY DEF SetToSeqs
<1>5. Len(order) = size
    <2>1. order \in Seq(others)
        BY <1>3, <1>4, SeqDef
    <2>2. DOMAIN order = 1 .. size /\ DOMAIN order = 1 .. Len(order) /\ Len(order) \in Nat
        BY <1>4, <2>1, LenProperties
    <2> QED BY <1>3, <2>2
<1> HIDE DEF others, size
<1>6. PICK none : none = <<>> /\ none \in Seq(Gateways)
    <2>1. <<>> \in Seq(Gateways)
        OBVIOUS
    <2> QED BY <2>1
<1>7. PICK head : head = Request(n, n, none)
    OBVIOUS
<1>8. head \in Packet /\ Announces(n, m, head)
    <2>1. head = [type |-> "request", session |-> n, initiator |-> n, responder |-> n, route |-> none]
        BY <1>7 DEF Request
    <2>2. head \in Packet /\ head.type = "request" /\ head.route = none /\ head.initiator = n
        BY <1>6, <2>1 DEF Packet, RoutePacket
    <2> QED BY <1>6, <2>2 DEF Announces
<1>9. PICK behind : behind = [i \in 1 .. size |-> Request(n, order[i], <<n>>)]
    OBVIOUS
<1>10. ASSUME NEW i \in 1 .. size
       PROVE  behind[i] \in Packet /\ Announces(n, m, behind[i])
    <2>1. order[i] \in channels[n] \ {m} /\ order[i] \in Nodes /\ n \in Gateways
        BY <1>1, <1>2, <1>4
    <2>2. PICK alone : alone = <<n>> /\ alone \in Seq(Gateways)
        <3>1. <<n>> \in Seq(Gateways)
            BY <2>1
        <3> QED BY <3>1
    <2>3. behind[i] = [type |-> "request", session |-> n, initiator |-> order[i],
                        responder |-> order[i], route |-> alone]
        BY <1>9, <2>2 DEF Request
    <2>4. /\ behind[i] \in Packet /\ behind[i].type = "request"
          /\ behind[i].route = alone /\ behind[i].initiator = order[i]
        BY <2>1, <2>2, <2>3 DEF Packet, RoutePacket
    <2> QED BY <2>1, <2>2, <2>4 DEF Announces
<1>11. behind \in Seq(Packet) /\ Range(behind) = {behind[i] : i \in 1 .. size}
    <2>1. behind \in [1 .. size -> Packet]
        BY <1>9, <1>10
    <2>2. behind \in Seq(Packet)
        BY <1>3, <2>1, SeqDef
    <2>3. DOMAIN behind = 1 .. size
        BY <1>9
    <2> QED BY <2>2, <2>3 DEF Range
<1>12. PICK first : first = <<head>> /\ first \in Seq(Packet) /\ Range(first) = {head}
    <2>1. <<head>> \in Seq(Packet) /\ Range(<<head>>) = {head}
        BY <1>8 DEF Range
    <2> QED BY <2>1
<1>13. Announcements(n, order) = first \o behind
    BY <1>5, <1>6, <1>7, <1>9, <1>12 DEF Announcements
<1>14. /\ first \o behind \in Seq(Packet)
       /\ Range(first \o behind) = Range(first) \cup Range(behind)
    BY <1>11, <1>12, PacketsBehind
<1>15. \A p \in Range(first) \cup Range(behind) : Announces(n, m, p)
    BY <1>8, <1>10, <1>11, <1>12
<1> QED BY ONLY <1>13, <1>14, <1>15

\* Each of those requests fits the channel it is sent over.
LEMMA AnnouncementFits ==
    ASSUME ChannelsAreLinks, NEW n \in Nodes, NEW m \in Gateways, {n, m} \in Links,
           NEW p, Announces(n, m, p)
    PROVE  PacketFits(n, m, p)
<1>1. p.initiator \in Nodes /\ p.route \in Seq(Gateways) /\ p.type = "request"
    BY RouteFields DEF Announces
<1>2. CASE p.route = <<>> /\ p.initiator = n
    <2>1. Len(p.route) = 0
        BY <1>2
    <2>2. \A x, y : Hop(x, p.route, y, 0) = x /\ Hop(x, p.route, y, 0 + 1) = y
        BY <2>1 DEF Hop
    <2>3. Once(p.route) /\ \A i \in 1 .. Len(p.route) : p.route[i] # p.initiator
        BY <2>1 DEF Once
    <2>4. Runs(p.initiator, p.route, m)
        <3>1. \A i \in 0 .. Len(p.route) : i = 0
            BY <2>1
        <3> QED BY <1>2, <2>2, <3>1 DEF Runs
    <2>5. RouteFits(p, m)
        BY <2>3, <2>4 DEF RouteFits
    <2> QED BY <1>1, <1>2, <2>1, <2>2, <2>5 DEF PacketFits
<1>3. CASE p.route = <<n>> /\ n \in Gateways /\ p.initiator \in channels[n]
    <2>1. Len(p.route) = 1 /\ p.route[1] = n /\ p.route # <<>>
        BY <1>3
    <2>2. \A x, y : /\ Hop(x, p.route, y, 0) = x /\ Hop(x, p.route, y, 1) = n
                    /\ Hop(x, p.route, y, 2) = y
        BY <2>1 DEF Hop
    <2>3. {n, p.initiator} \in Links /\ n # p.initiator
        BY <1>3, LinkEnds DEF ChannelsAreLinks
    <2>4. \A i \in 1 .. Len(p.route) : i = 1
        BY <2>1
    <2>5. Once(p.route) /\ \A i \in 1 .. Len(p.route) : p.route[i] # p.initiator
        BY <2>1, <2>3, <2>4 DEF Once
    <2>6. Runs(p.initiator, p.route, m)
        <3>1. ASSUME NEW i \in 0 .. Len(p.route)
              PROVE  {Hop(p.initiator, p.route, m, i), Hop(p.initiator, p.route, m, i + 1)} \in Links
            <4>1. i = 0 \/ i = 1
                BY <2>1
            <4>2. CASE i = 0
                <5>1. Hop(p.initiator, p.route, m, i) = p.initiator /\ Hop(p.initiator, p.route, m, i + 1) = n
                    BY <2>2, <4>2
                <5>2. {p.initiator, n} = {n, p.initiator}
                    OBVIOUS
                <5> QED BY <2>3, <5>1, <5>2
            <4>3. CASE i = 1
                <5>1. Hop(p.initiator, p.route, m, i) = n /\ Hop(p.initiator, p.route, m, i + 1) = m
                    BY <2>2, <4>3
                <5> QED BY <5>1
            <4> QED BY <4>1, <4>2, <4>3
        <3> QED BY <3>1 DEF Runs
    <2>7. RouteFits(p, m)
        BY <2>5, <2>6 DEF RouteFits
    <2> QED BY <1>1, <2>1, <2>2, <2>7 DEF PacketFits
<1> QED BY <1>2, <1>3 DEF Announces

\* What is sent when a channel has been established.
LEMMA EstablishedAdds ==
    ASSUME Tables, Control, NEW n \in Nodes, NEW m \in Nodes, OnChannelEstablished(n, m)
    PROVE  \E out : /\ AddedBy(n, out) /\ Puts(n, out)
                    /\ \A b \in Nodes : \A p \in Range(out[b]) : b = m /\ m \in Gateways /\ Announces(n, m, p)
<1>1. {n, m} \in Links /\ control \in Queues /\ control[n][m] \in Seq(Packet)
    BY DEF OnChannelEstablished, Connected, Control, Queues
<1>2. CASE m \in Gateways
    <2>1. PICK order \in SetToSeqs(Announced(n, m, AddSibling(Table(n), m))) :
              control' = [control EXCEPT ![n][m] = @ \o Announcements(n, order)]
        BY <1>2 DEF OnChannelEstablished
    <2>2. PICK more : more = Announcements(n, order)
        OBVIOUS
    <2>3. more \in Seq(Packet) /\ \A p \in Range(more) : Announces(n, m, p)
        BY <2>2, AnnouncementTypes
    <2>4. /\ control[n][m] \o more \in Seq(Packet)
          /\ Range(control[n][m] \o more) = Range(control[n][m]) \cup Range(more)
        BY <1>1, <2>3, PacketsBehind
    <2>5. control' = [control EXCEPT ![n][m] = control[n][m] \o more]
        BY <2>1, <2>2
    <2>6. /\ control' \in Queues
          /\ \A k, b \in Nodes : control'[k][b] = IF k = n /\ b = m THEN control[n][m] \o more ELSE control[k][b]
        BY <1>1, <2>4, <2>5 DEF Queues
    <2>7. PICK none : none = <<>> /\ Range(none) = {}
        <3>1. Range(<<>>) = {}
            BY DEF Range
        <3> QED BY <3>1
    <2>8. PICK out : out = [b \in Nodes |-> IF b = m THEN more ELSE none]
        OBVIOUS
    <2>9. ASSUME NEW k \in Nodes, NEW b \in Nodes, NEW p \in Range(control'[k][b])
          PROVE  p \in Range(control[k][b]) \/ (k = n /\ {n, b} \in Links /\ p \in Range(out[b]))
        <3>1. CASE k = n /\ b = m
            <4>1. p \in Range(control[n][m]) \/ p \in Range(more)
                BY <2>4, <2>6, <2>9, <3>1
            <4>2. out[b] = more
                BY <2>8, <3>1
            <4> QED BY <1>1, <3>1, <4>1, <4>2
        <3>2. CASE ~(k = n /\ b = m)
            BY <2>6, <2>9, <3>2
        <3> QED BY <3>1, <3>2
    <2>10. AddedBy(n, out)
        BY <2>6, <2>9 DEF AddedBy
    <2>11. ASSUME NEW b \in Nodes, NEW p \in Range(out[b])
           PROVE  b = m /\ m \in Gateways /\ Announces(n, m, p)
        BY <1>2, <2>3, <2>7, <2>8, <2>11
    <2>12. Puts(n, out)
        <3>1. \A k, b \in Nodes : control[k][b] \in Seq(Packet)
            BY <1>1 DEF Queues
        <3>2. out \in [Nodes -> Seq(Packet)] /\ out[m] = more /\ \A b \in Nodes : b # m => out[b] = none
            <4>1. none \in Seq(Packet)
                BY <2>7
            <4> QED BY <2>3, <2>8, <4>1
        <3>3. ASSUME NEW k \in Nodes, NEW b \in Nodes
              PROVE  Carried(control[k][b], control'[k][b], 0, IF k = n THEN out[b] ELSE none)
            <4>1. CASE k = n /\ b = m
                BY <2>3, <2>6, <3>1, <3>2, <4>1, CarriedBehind
            <4>2. CASE ~(k = n /\ b = m)
                BY <2>3, <2>6, <2>7, <3>1, <3>2, <4>2, CarriedBehind
            <4> QED BY <4>1, <4>2
        <3> QED BY <2>7, <3>2, <3>3 DEF Puts
    <2> QED BY <2>10, <2>11, <2>12
<1>3. CASE m \notin Gateways
    <2>1. UNCHANGED control
        BY <1>3 DEF OnChannelEstablished
    <2>2. PICK out : out = Nothing /\ \A b \in Nodes : Range(out[b]) = {}
        <3>1. \A b \in Nodes : Range(Nothing[b]) = {}
            BY DEF Nothing, Range
        <3> QED BY <3>1
    <2>3. AddedBy(n, out)
        BY <1>1, <2>1 DEF AddedBy
    <2>4. PICK none \in Seq(Packet) : none = <<>>
        <3>1. <<>> \in Seq(Packet)
            OBVIOUS
        <3> QED BY <3>1
    <2>5. Puts(n, out)
        <3>1. out \in [Nodes -> Seq(Packet)] /\ \A b \in Nodes : out[b] = none
            BY <2>2, <2>4 DEF Nothing
        <3>2. \A k, b \in Nodes : control[k][b] \in Seq(Packet) /\ control'[k][b] = control[k][b]
            BY <1>1, <2>1 DEF Queues
        <3>3. \A k, b \in Nodes : Carried(control[k][b], control'[k][b], 0, none)
            BY <2>4, <3>2, CarriedBehind
        <3> QED BY <2>4, <3>1, <3>3 DEF Puts
    <2> QED BY <2>2, <2>3, <2>5
<1> QED BY <1>2, <1>3

\* on_channel_established keeps the invariant.
LEMMA EstablishedKeeps ==
    ASSUME RoutingInvariant, NEW n \in Nodes, NEW m \in Nodes, OnChannelEstablished(n, m)
    PROVE  RoutingInvariant'
<1>1. Tables /\ ChannelsAreLinks /\ Control /\ Messages /\ Counters
    BY DEF RoutingInvariant
<1>2. PICK t : t = AddSibling(Table(n), m)
    OBVIOUS
<1>3. /\ {n, m} \in Links /\ wire' \subseteq wire \cup {{n, m}}
      /\ channels' = [channels EXCEPT ![n] = @ \cup {m}]
      /\ UpdateTable(n, t)
      /\ UNCHANGED <<duplicates, data, delivered, sends, breaks>>
    BY <1>2 DEF OnChannelEstablished, Connected, dataVars
<1>4. TableFits(n, t) /\ t.siblings = channels[n] \cup {m}
    <2>1. TableFits(n, Table(n)) /\ Table(n).siblings = channels[n]
        BY <1>1, TableOf
    <2> QED BY <1>2, <2>1, FitsAddSibling
<1>5. Tables'
    <2>1. channels' = [channels EXCEPT ![n] = t.siblings]
        BY <1>3, <1>4
    <2> QED BY <1>1, <1>3, <1>4, <2>1, TableStep
<1>6. ChannelsAreLinks'
    BY <1>1, <1>3 DEF ChannelsAreLinks, Tables
<1>7. Control'
    <2>1. PICK out : /\ AddedBy(n, out) /\ Puts(n, out)
                     /\ \A b \in Nodes : \A p \in Range(out[b]) : b = m /\ m \in Gateways /\ Announces(n, m, p)
        BY <1>1, EstablishedAdds
    <2>2. ASSUME NEW b \in Nodes, NEW p \in Range(out[b]) PROVE PacketFits(n, b, p)
        BY <1>1, <1>3, <2>1, <2>2, AnnouncementFits
    <2> QED BY <1>1, <2>1, <2>2, ControlStep
<1>8. Messages' /\ Counters'
    BY <1>1, <1>3 DEF Messages, Counters
<1> QED BY <1>5, <1>6, <1>7, <1>8 DEF RoutingInvariant

-----------------------------------------------------------------------------
(***************************************************************************)
(* A connection that dies, and a channel destroyed.                        *)
(***************************************************************************)

\* A connection that dies unnoticed keeps the invariant.
LEMMA BreakKeeps ==
    ASSUME RoutingInvariant, NEW n \in Nodes, NEW m \in Nodes, Break(n, m)
    PROVE  RoutingInvariant'
<1>1. Tables /\ ChannelsAreLinks /\ Control /\ Messages /\ Counters
    BY DEF RoutingInvariant
<1>2. /\ wire' \subseteq wire /\ breaks' = breaks + 1 /\ breaks < MaxBreaks
      /\ data' \subseteq data
      /\ UNCHANGED <<channels, tableVars, duplicates, delivered, sends>>
    BY DEF Break
<1>3. breaks' \in 0 .. MaxBreaks
    BY <1>1, <1>2, RoutingAssumption DEF Counters, RoutingAssumption
<1>4. Tables'
    BY <1>1, <1>2, TablesKept
<1>5. Control'
    <2>1. PICK none : none = <<>> /\ none \in Seq(Packet) /\ Range(none) = {}
        <3>1. <<>> \in Seq(Packet) /\ Range(<<>>) = {}
            BY DEF Range
        <3> QED BY <3>1
    <2>2. PICK left :
              /\ control' = left
              /\ left = [k \in Nodes |-> [b \in Nodes |->
                            IF {k, b} = {n, m} /\ k \notin channels[b] THEN none ELSE control[k][b]]]
        BY <2>1 DEF Break
    <2>3. /\ left \in Queues
          /\ \A k, b \in Nodes : left[k][b] = none \/ left[k][b] = control[k][b]
        BY <1>1, <2>1, <2>2 DEF Control, Queues
    <2> QED BY <1>1, <2>1, <2>2, <2>3 DEF Control
<1>6. ChannelsAreLinks' /\ Messages' /\ Counters'
    BY <1>1, <1>2, <1>3 DEF ChannelsAreLinks, Messages, Counters
<1> QED BY <1>4, <1>5, <1>6 DEF RoutingInvariant

\* The table without a sibling and every route by it.
LEMMA FitsRemoveSibling ==
    ASSUME Tables, NEW n \in Nodes, NEW m \in Nodes,
           NEW t, t = RemoveRoutes([Table(n) EXCEPT !.siblings = @ \ {m}], m)
    PROVE  TableFits(n, t) /\ t.siblings = channels[n] \ {m}
<1>1. PICK u : u = [siblings |-> Table(n).siblings \ {m}, routes |-> Table(n).routes]
    OBVIOUS
<1>2. u = [Table(n) EXCEPT !.siblings = @ \ {m}]
    BY ONLY <1>1 DEF Table
<1>3. /\ u.siblings = Table(n).siblings \ {m} /\ u.routes = Table(n).routes
      /\ u = [siblings |-> u.siblings, routes |-> u.routes]
    BY <1>1
<1>4. TableFits(n, u)
    BY <1>3, TableOf DEF TableFits
<1>5. t = RemoveRoutes(u, m)
    BY <1>2
<1>6. TableFits(n, RemoveRoutes(u, m)) /\ RemoveRoutes(u, m).siblings = u.siblings
    BY <1>3, <1>4, FitsRemoveRoutes
<1> QED BY <1>3, <1>5, <1>6, TableOf

\* on_channel_destroyed keeps the invariant: sibling and routes go together, and
\* what is said of it goes over channels that are left.
LEMMA DestroyedKeeps ==
    ASSUME RoutingInvariant, NEW n \in Nodes, NEW m \in Nodes, OnChannelDestroyed(n, m)
    PROVE  RoutingInvariant'
<1>1. Tables /\ ChannelsAreLinks /\ Control /\ Messages /\ Counters
    BY DEF RoutingInvariant
<1>2. PICK t, queues :
          /\ t = RemoveRoutes([Table(n) EXCEPT !.siblings = @ \ {m}], m)
          /\ queues = [control EXCEPT ![m][n] = <<>>]
    OBVIOUS
<1>3. /\ channels' = [channels EXCEPT ![n] = channels[n] \ {m}]
      /\ UpdateTable(n, t)
      /\ control' = IF n \in Gateways
                    THEN Enqueue(queues, n, ToAllBut(n, m, Unreachable(n, m)))
                    ELSE queues
      /\ data' \subseteq data
      /\ UNCHANGED <<wire, duplicates, delivered, sends, breaks>>
    BY <1>2 DEF OnChannelDestroyed
<1>4. TableFits(n, t) /\ t.siblings = channels[n] \ {m}
    BY <1>1, <1>2, FitsRemoveSibling
<1>5. Tables'
    <2>1. channels' = [channels EXCEPT ![n] = t.siblings]
        BY <1>3, <1>4
    <2> QED BY <1>1, <1>3, <1>4, <2>1, TableStep
<1>6. ChannelsAreLinks'
    BY <1>1, <1>3 DEF ChannelsAreLinks, Tables
<1>7. Control'
    <2>1. PICK none : none = <<>> /\ none \in Seq(Packet) /\ Range(none) = {}
        <3>1. <<>> \in Seq(Packet) /\ Range(<<>>) = {}
            BY DEF Range
        <3> QED BY <3>1
    <2>2. queues = [control EXCEPT ![m][n] = none] /\ control \in Queues
        BY <1>1, <1>2, <2>1 DEF Control
    <2>3. /\ queues \in Queues
          /\ \A k, b \in Nodes : queues[k][b] = IF k = m /\ b = n THEN none ELSE control[k][b]
        BY <2>1, <2>2 DEF Queues
    <2>4. PICK news : news = Unreachable(n, m)
        OBVIOUS
    <2>5. news \in Packet /\ news.type = "unreachable"
        <3>1. news = [type |-> "unreachable", gw |-> n, id |-> m]
            BY <2>4 DEF Unreachable
        <3> QED BY <3>1 DEF Packet
    <2>6. PICK out : out = ToAllBut(n, m, news)
        OBVIOUS
    <2>7. out \in [Nodes -> Seq(Packet)] /\ \A b \in Nodes : \A p \in Range(out[b]) : p = news
        <3>1. Sends(out, Nodes \ {m}, news)
            BY <2>5, <2>6, OutTypes
        <3> QED BY ONLY <3>1 DEF Sends
    <2>8. \A k, b \in Nodes : \A p \in Range(queues[k][b]) : p \in Range(control[k][b])
        BY <2>1, <2>3
    <2>9. AddedBy(n, out)
        <3>1. CASE n \in Gateways
            <4>1. control' = Enqueue(queues, n, out)
                BY <1>3, <2>4, <2>6, <3>1
            <4>2. \A b \in channels[n] : {n, b} \in Links
                BY <1>1 DEF ChannelsAreLinks
            <4>3. Extended(control', queues, n, out)
                BY <2>3, <2>7, <4>1, <4>2, EnqueueAdds
            <4> QED BY ONLY <2>8, <4>3 DEF Extended, AddedBy
        <3>2. CASE n \notin Gateways
            BY <1>3, <2>3, <2>8, <3>2 DEF AddedBy
        <3> QED BY <3>1, <3>2
    <2>10. ASSUME NEW b \in Nodes, NEW p \in Range(out[b]) PROVE PacketFits(n, b, p)
        BY <2>5, <2>7, <2>10 DEF PacketFits
    <2> QED BY <1>1, <2>9, <2>10, ControlStep
<1>8. Messages' /\ Counters'
    BY <1>1, <1>3 DEF Messages, Counters
<1> QED BY <1>5, <1>6, <1>7, <1>8 DEF RoutingInvariant

-----------------------------------------------------------------------------
(***************************************************************************)
(* Packets read.                                                           *)
(***************************************************************************)

\* What n sends on a request p of m: the answer, and the request itself.
OnRequest(n, m, p, out) ==
    \A b \in Nodes : \A q \in Range(out[b]) :
        \/ b = m /\ q = Response(n, p)
        \/ b # m /\ n \in Gateways /\ n \notin Range(p.route) /\ q = Forwarded(n, p)

\* A request is read, and that is all, or its route is learnt and it goes on.
LEMMA RequestStep ==
    ASSUME Tables, ChannelsAreLinks, Control, NEW m \in Nodes, NEW n \in Nodes, ProcessRequest(m, n),
           NEW p, p = Head(control[m][n])
    PROVE  /\ p \in Packet /\ p.type = "request" /\ PacketFits(m, n, p) /\ m \in channels[n]
           /\ \/ (\A out : AddedBy(n, out)) /\ Moves(m, n, Nothing)
                 /\ UNCHANGED tableVars
              \/ /\ p.initiator # n
                 /\ UpdateTable(n, Learnt(n, p))
                 /\ \E out : AddedBy(n, out) /\ Moves(m, n, out) /\ OnRequest(n, m, p, out)
<1>1. Readable(m, n) /\ p.type = "request"
    BY DEF ProcessRequest
<1>2. p \in Packet /\ PacketFits(m, n, p) /\ m \in channels[n]
    <2>1. p \in Packet /\ p \in Range(control[m][n])
        BY <1>1, ReadTakes
    <2> QED BY <1>1, <2>1 DEF Control, Readable
<1>3. CASE Duplicated(n, p.initiator, p) \/ p.initiator = n
    <2>1. control' = Read(m, n) /\ UNCHANGED tableVars
        BY <1>3 DEF ProcessRequest, ReportDuplicate
    <2>2. (\A out : AddedBy(n, out)) /\ Moves(m, n, Nothing)
        BY <1>1, <1>2, <2>1, ReadAlone, ReadMovesOnly
    <2> QED BY <1>1, <1>2, <2>1, <2>2
<1>4. CASE ~(Duplicated(n, p.initiator, p) \/ p.initiator = n)
    <2>1. PICK answer, more : answer = Response(n, p) /\ more = Forwarded(n, p)
        OBVIOUS
    <2>2. PICK reply : reply = ToOne(n, m, answer)
        OBVIOUS
    <2>3. PICK forward : forward = IF n \in Gateways /\ n \notin Range(p.route)
                                   THEN ToAllBut(n, m, more) ELSE Nothing
        OBVIOUS
    <2>4. /\ UpdateTable(n, Learnt(n, p))
          /\ control' = Enqueue(Read(m, n), n, Both(reply, forward))
        BY <1>4, <2>1, <2>2, <2>3 DEF ProcessRequest, Learnt
    <2>5. answer \in Packet
        BY <1>1, <1>2, <2>1, AnswerFits
    <2>6. reply \in [Nodes -> Seq(Packet)] /\ \A b \in Nodes : \A q \in Range(reply[b]) : b = m /\ q = answer
        <3>1. Sends(reply, {m}, answer)
            BY <2>2, <2>5, OutTypes
        <3> QED BY ONLY <3>1 DEF Sends
    <2>7. /\ forward \in [Nodes -> Seq(Packet)]
          /\ \A b \in Nodes : \A q \in Range(forward[b]) :
                 b # m /\ n \in Gateways /\ n \notin Range(p.route) /\ q = more
        <3>1. CASE n \in Gateways /\ n \notin Range(p.route)
            <4>1. more \in Packet
                BY <1>1, <1>2, <1>4, <2>1, <3>1, ForwardFits
            <4>2. forward = ToAllBut(n, m, more)
                BY <2>3, <3>1
            <4>3. Sends(forward, Nodes \ {m}, more)
                BY <4>1, <4>2, OutTypes
            <4> QED BY ONLY <3>1, <4>3 DEF Sends
        <3>2. CASE ~(n \in Gateways /\ n \notin Range(p.route))
            <4>1. forward = Nothing
                BY <2>3, <3>2
            <4>2. Sends(forward, {}, answer)
                BY <2>5, <4>1, OutTypes
            <4>3. \A b \in Nodes : \A q \in Range(forward[b]) : FALSE
                BY ONLY <4>2 DEF Sends
            <4>4. forward \in [Nodes -> Seq(Packet)]
                BY ONLY <4>2 DEF Sends
            <4> QED BY ONLY <4>3, <4>4
        <3> QED BY <3>1, <3>2
    <2>8. PICK out : out = Both(reply, forward)
        OBVIOUS
    <2>9. /\ out \in [Nodes -> Seq(Packet)]
          /\ \A b \in Nodes : Range(out[b]) = Range(reply[b]) \cup Range(forward[b])
        <3>1. reply \in [Nodes -> Seq(Packet)] /\ forward \in [Nodes -> Seq(Packet)]
            BY <2>6, <2>7
        <3>2. Joins(Both(reply, forward), reply, forward)
            BY ONLY <3>1, BothTypes
        <3> QED BY ONLY <2>8, <3>2 DEF Joins
    <2>10. AddedBy(n, out) /\ Moves(m, n, out)
        <3>1. \A b \in channels[n] : {n, b} \in Links
            BY DEF ChannelsAreLinks
        <3>2. control' = Enqueue(Read(m, n), n, out)
            BY <2>4, <2>8
        <3> QED BY <1>1, <2>9, <3>1, <3>2, ReadAdds, ReadMoves
    <2>11. OnRequest(n, m, p, out)
        BY <2>1, <2>6, <2>7, <2>9 DEF OnRequest
    <2> QED BY <1>1, <1>2, <1>4, <2>4, <2>10, <2>11
<1> QED BY <1>3, <1>4

\* Tables and queues when a packet has been read and nothing else happened.
LEMMA ReadKeeps ==
    ASSUME RoutingInvariant, NEW n \in Nodes, NEW p \in Packet,
           UNCHANGED channels, UNCHANGED tableVars, \A out : AddedBy(n, out)
    PROVE  Tables' /\ Control'
<1>1. Tables /\ Control
    BY DEF RoutingInvariant
<1>2. Tables'
    BY <1>1, TablesKept
<1>3. PICK out : out = Nothing
    OBVIOUS
<1>4. Sends(out, {}, p)
    BY <1>3, OutTypes
<1>5. \A b \in Nodes : \A q \in Range(out[b]) : PacketFits(n, b, q)
    BY ONLY <1>4 DEF Sends
<1> QED BY <1>1, <1>2, <1>5, ControlStep

\* Reading a request keeps the invariant.
LEMMA RequestKeeps ==
    ASSUME RoutingInvariant, NEW m \in Nodes, NEW n \in Nodes, ProcessRequest(m, n)
    PROVE  RoutingInvariant'
<1>1. Tables /\ ChannelsAreLinks /\ Control /\ Messages /\ Counters
    BY DEF RoutingInvariant
<1>2. PICK p : p = Head(control[m][n])
    OBVIOUS
<1>3. /\ UNCHANGED <<wire, channels, data, delivered, sends, breaks>>
      /\ duplicates' \subseteq duplicates \cup {n}
    BY DEF ProcessRequest, ReportDuplicate, dataVars
<1>4. /\ p \in Packet /\ p.type = "request" /\ PacketFits(m, n, p) /\ m \in channels[n]
      /\ \/ \A out : AddedBy(n, out)
            /\ UNCHANGED tableVars
         \/ /\ p.initiator # n
            /\ UpdateTable(n, Learnt(n, p))
            /\ \E out : AddedBy(n, out) /\ OnRequest(n, m, p, out)
    BY <1>1, <1>2, RequestStep
<1>5. ChannelsAreLinks' /\ Messages' /\ Counters'
    BY <1>1, <1>3 DEF ChannelsAreLinks, Messages, Counters
<1>6. CASE (\A out : AddedBy(n, out)) /\ UNCHANGED tableVars
    <2>1. Tables' /\ Control'
        BY <1>3, <1>4, <1>6, ReadKeeps
    <2> QED BY <1>5, <2>1 DEF RoutingInvariant
<1>7. CASE /\ p.initiator # n
           /\ UpdateTable(n, Learnt(n, p))
           /\ \E out : AddedBy(n, out) /\ OnRequest(n, m, p, out)
    <2>1. TableFits(n, Learnt(n, p)) /\ Learnt(n, p).siblings = channels[n]
        BY <1>1, <1>4, LearntFits
    <2>2. channels' = [channels EXCEPT ![n] = Learnt(n, p).siblings]
        BY <1>1, <1>3, <2>1 DEF Tables
    <2>3. Tables'
        BY <1>1, <1>7, <2>1, <2>2, TableStep
    <2>4. PICK out : AddedBy(n, out) /\ OnRequest(n, m, p, out)
        BY <1>7
    <2>5. ASSUME NEW b \in Nodes, {n, b} \in Links, NEW q \in Range(out[b]) PROVE PacketFits(n, b, q)
        <3>1. CASE b = m /\ q = Response(n, p)
            BY <1>4, <3>1, AnswerFits
        <3>2. CASE n \in Gateways /\ n \notin Range(p.route) /\ q = Forwarded(n, p)
            BY <1>4, <1>7, <2>5, <3>2, ForwardFits
        <3> QED BY <2>4, <3>1, <3>2 DEF OnRequest
    <2>6. Control'
        BY <1>1, <2>4, <2>5, ControlStep
    <2> QED BY <1>5, <2>3, <2>6 DEF RoutingInvariant
<1> QED BY <1>4, <1>6, <1>7

\* What n sends on a response p: the response itself, to the node before it.
OnResponse(n, p, out) ==
    \A b \in Nodes : \A q \in Range(out[b]) : n # p.initiator /\ b = Addressee(n, p) /\ q = p

\* A response is read, and that is all, or what it teaches is learnt and it
\* goes on.
LEMMA ResponseStep ==
    ASSUME Tables, ChannelsAreLinks, Control, NEW m \in Nodes, NEW n \in Nodes, ProcessResponse(m, n),
           NEW p, p = Head(control[m][n])
    PROVE  /\ p \in Packet /\ p.type = "response" /\ PacketFits(m, n, p) /\ m \in channels[n]
           /\ \/ (\A out : AddedBy(n, out)) /\ Moves(m, n, Nothing) /\ UNCHANGED tableVars
              \/ /\ UpdateTable(n, LearnFromResponse(n, p))
                 /\ \E out : AddedBy(n, out) /\ Moves(m, n, out) /\ OnResponse(n, p, out)
<1>1. Readable(m, n) /\ p.type = "response"
    BY DEF ProcessResponse
<1>2. p \in Packet /\ PacketFits(m, n, p) /\ m \in channels[n]
    <2>1. p \in Packet /\ p \in Range(control[m][n])
        BY <1>1, ReadTakes
    <2> QED BY <1>1, <2>1 DEF Control, Readable
<1>3. CASE Duplicated(n, p.responder, p) \/ (p.responder = n /\ p.initiator # n)
    <2>1. control' = Read(m, n) /\ UNCHANGED tableVars
        BY <1>3 DEF ProcessResponse, ReportDuplicate
    <2>2. (\A out : AddedBy(n, out)) /\ Moves(m, n, Nothing)
        BY <1>1, <1>2, <2>1, ReadAlone, ReadMovesOnly
    <2> QED BY <1>1, <1>2, <2>1, <2>2
<1>4. CASE ~(Duplicated(n, p.responder, p) \/ (p.responder = n /\ p.initiator # n))
    <2>1. /\ UpdateTable(n, LearnFromResponse(n, p))
          /\ control' = IF p.initiator = n THEN Read(m, n)
                        ELSE Enqueue(Read(m, n), n, ToOne(n, Addressee(n, p), p))
        BY <1>4 DEF ProcessResponse
    <2>2. \E out : AddedBy(n, out) /\ Moves(m, n, out) /\ OnResponse(n, p, out)
        <3>1. CASE p.initiator = n
            <4>1. PICK out : out = Nothing
                OBVIOUS
            <4>2. Sends(out, {}, p)
                BY <1>2, <4>1, OutTypes
            <4>3. OnResponse(n, p, out)
                BY ONLY <4>2 DEF Sends, OnResponse
            <4>4. AddedBy(n, out) /\ Moves(m, n, out)
                BY <1>1, <1>2, <2>1, <3>1, <4>1, ReadAlone, ReadMovesOnly
            <4> QED BY <4>3, <4>4
        <3>2. CASE p.initiator # n
            <4>1. PICK k \in Nodes : k = Addressee(n, p)
                BY <1>1, <1>2, <3>2, PassedOnFits
            <4>2. PICK out : out = ToOne(n, k, p)
                OBVIOUS
            <4>3. Sends(out, {k}, p)
                BY <1>2, <4>2, OutTypes
            <4>4. OnResponse(n, p, out)
                BY ONLY <3>2, <4>1, <4>3 DEF Sends, OnResponse
            <4>5. out \in [Nodes -> Seq(Packet)] /\ control' = Enqueue(Read(m, n), n, out)
                BY <2>1, <3>2, <4>1, <4>2, <4>3 DEF Sends
            <4>6. \A b \in channels[n] : {n, b} \in Links
                BY DEF ChannelsAreLinks
            <4>7. AddedBy(n, out) /\ Moves(m, n, out)
                BY <1>1, <4>5, <4>6, ReadAdds, ReadMoves
            <4> QED BY <4>4, <4>7
        <3> QED BY <3>1, <3>2
    <2> QED BY <1>1, <1>2, <2>1, <2>2
<1> QED BY <1>3, <1>4

\* Reading a response keeps the invariant.
LEMMA ResponseKeeps ==
    ASSUME RoutingInvariant, NEW m \in Nodes, NEW n \in Nodes, ProcessResponse(m, n)
    PROVE  RoutingInvariant'
<1>1. Tables /\ ChannelsAreLinks /\ Control /\ Messages /\ Counters
    BY DEF RoutingInvariant
<1>2. PICK p : p = Head(control[m][n])
    OBVIOUS
<1>3. /\ UNCHANGED <<wire, channels, data, delivered, sends, breaks>>
      /\ duplicates' \subseteq duplicates \cup {n}
    BY DEF ProcessResponse, ReportDuplicate, dataVars
<1>4. /\ p \in Packet /\ p.type = "response" /\ PacketFits(m, n, p) /\ m \in channels[n]
      /\ \/ (\A out : AddedBy(n, out)) /\ UNCHANGED tableVars
         \/ /\ UpdateTable(n, LearnFromResponse(n, p))
            /\ \E out : AddedBy(n, out) /\ OnResponse(n, p, out)
    BY <1>1, <1>2, ResponseStep
<1>5. ChannelsAreLinks' /\ Messages' /\ Counters'
    BY <1>1, <1>3 DEF ChannelsAreLinks, Messages, Counters
<1>6. CASE (\A out : AddedBy(n, out)) /\ UNCHANGED tableVars
    <2>1. Tables' /\ Control'
        BY <1>3, <1>4, <1>6, ReadKeeps
    <2> QED BY <1>5, <2>1 DEF RoutingInvariant
<1>7. CASE /\ UpdateTable(n, LearnFromResponse(n, p))
           /\ \E out : AddedBy(n, out) /\ OnResponse(n, p, out)
    <2>1. TableFits(n, LearnFromResponse(n, p)) /\ LearnFromResponse(n, p).siblings = channels[n]
        BY <1>1, <1>4, TaughtFits
    <2>2. channels' = [channels EXCEPT ![n] = LearnFromResponse(n, p).siblings]
        BY <1>1, <1>3, <2>1 DEF Tables
    <2>3. Tables'
        BY <1>1, <1>7, <2>1, <2>2, TableStep
    <2>4. PICK out : AddedBy(n, out) /\ OnResponse(n, p, out)
        BY <1>7
    <2>5. ASSUME NEW b \in Nodes, NEW q \in Range(out[b]) PROVE PacketFits(n, b, q)
        <3>1. n # p.initiator /\ b = Addressee(n, p) /\ q = p
            BY <2>4, <2>5 DEF OnResponse
        <3> QED BY <1>4, <3>1, PassedOnFits
    <2>6. Control'
        BY <1>1, <2>4, <2>5, ControlStep
    <2> QED BY <1>5, <2>3, <2>6 DEF RoutingInvariant
<1> QED BY <1>4, <1>6, <1>7

\* An unreachable packet is read, and that is all, or routes are removed and
\* it may go on.
LEMMA UnreachableStep ==
    ASSUME Tables, ChannelsAreLinks, Control, NEW m \in Nodes, NEW n \in Nodes, ProcessUnreachable(m, n),
           NEW p, p = Head(control[m][n])
    PROVE  /\ p \in Packet /\ p.type = "unreachable"
           /\ \/ /\ (\A out : AddedBy(n, out)) /\ Moves(m, n, Nothing) /\ UNCHANGED tableVars
                 /\ p.gw = n \/ RemoveRoutes(Table(n), p.id) = Table(n)
              \/ /\ UpdateTable(n, RemoveRoutes(Table(n), p.id))
                 /\ \E out : /\ AddedBy(n, out) /\ Moves(m, n, out) /\ Sends(out, Nodes, p)
                             /\ n \in Gateways => out = ToAllBut(n, m, p)
                             /\ n \notin Gateways => out = Nothing
<1>1. Readable(m, n) /\ p.type = "unreachable"
    BY DEF ProcessUnreachable
<1>2. p \in Packet
    BY <1>1, ReadTakes
<1>3. CASE p.gw = n \/ RemoveRoutes(Table(n), p.id) = Table(n)
    <2>1. control' = Read(m, n) /\ UNCHANGED tableVars
        BY <1>3 DEF ProcessUnreachable
    <2>2. (\A out : AddedBy(n, out)) /\ Moves(m, n, Nothing)
        BY <1>1, <1>2, <2>1, ReadAlone, ReadMovesOnly
    <2> QED BY <1>1, <1>2, <1>3, <2>1, <2>2
<1>4. CASE ~(p.gw = n \/ RemoveRoutes(Table(n), p.id) = Table(n))
    <2>1. /\ UpdateTable(n, RemoveRoutes(Table(n), p.id))
          /\ control' = IF n \in Gateways THEN Enqueue(Read(m, n), n, ToAllBut(n, m, p)) ELSE Read(m, n)
        BY <1>4 DEF ProcessUnreachable
    <2>2. PICK out : out = ToAllBut(n, m, p)
        OBVIOUS
    <2>3. Sends(out, Nodes \ {m}, p)
        BY <1>2, <2>2, OutTypes
    <2>4. Sends(out, Nodes, p) /\ out \in [Nodes -> Seq(Packet)]
        BY ONLY <2>3 DEF Sends
    <2>5. CASE n \in Gateways
        <3>1. control' = Enqueue(Read(m, n), n, out)
            BY <2>1, <2>2, <2>5
        <3>2. \A b \in channels[n] : {n, b} \in Links
            BY DEF ChannelsAreLinks
        <3>3. AddedBy(n, out) /\ Moves(m, n, out)
            BY <1>1, <2>4, <3>1, <3>2, ReadAdds, ReadMoves
        <3> QED BY <1>1, <1>2, <2>1, <2>2, <2>4, <2>5, <3>3
    <2>6. CASE n \notin Gateways
        <3>1. control' = Read(m, n)
            BY <2>1, <2>6
        <3>2. PICK none : none = Nothing
            OBVIOUS
        <3>3. Sends(none, {}, p)
            BY <1>2, <3>2, OutTypes
        <3>4. Sends(none, Nodes, p)
            BY ONLY <3>3 DEF Sends
        <3>5. AddedBy(n, none) /\ Moves(m, n, none)
            BY <1>1, <1>2, <3>1, <3>2, ReadAlone, ReadMovesOnly
        <3> QED BY <1>1, <1>2, <2>1, <2>6, <3>2, <3>4, <3>5
    <2> QED BY <2>5, <2>6
<1> QED BY <1>3, <1>4

\* Reading an unreachable packet keeps the invariant.
LEMMA UnreachableKeeps ==
    ASSUME RoutingInvariant, NEW m \in Nodes, NEW n \in Nodes, ProcessUnreachable(m, n)
    PROVE  RoutingInvariant'
<1>1. Tables /\ ChannelsAreLinks /\ Control /\ Messages /\ Counters
    BY DEF RoutingInvariant
<1>2. PICK p : p = Head(control[m][n])
    OBVIOUS
<1>3. UNCHANGED <<wire, channels, duplicates, data, delivered, sends, breaks>>
    BY DEF ProcessUnreachable, dataVars
<1>4. /\ p \in Packet /\ p.type = "unreachable"
      /\ \/ /\ (\A out : AddedBy(n, out)) /\ Moves(m, n, Nothing) /\ UNCHANGED tableVars
            /\ p.gw = n \/ RemoveRoutes(Table(n), p.id) = Table(n)
         \/ /\ UpdateTable(n, RemoveRoutes(Table(n), p.id))
            /\ \E out : /\ AddedBy(n, out) /\ Moves(m, n, out) /\ Sends(out, Nodes, p)
                        /\ n \in Gateways => out = ToAllBut(n, m, p)
                        /\ n \notin Gateways => out = Nothing
    BY <1>1, <1>2, UnreachableStep
<1>5. ChannelsAreLinks' /\ Messages' /\ Counters'
    BY <1>1, <1>3 DEF ChannelsAreLinks, Messages, Counters
<1>6. CASE /\ (\A out : AddedBy(n, out)) /\ Moves(m, n, Nothing) /\ UNCHANGED tableVars
           /\ p.gw = n \/ RemoveRoutes(Table(n), p.id) = Table(n)
    <2>1. Tables' /\ Control'
        BY <1>3, <1>4, <1>6, ReadKeeps
    <2> QED BY <1>5, <2>1 DEF RoutingInvariant
<1>7. CASE /\ UpdateTable(n, RemoveRoutes(Table(n), p.id))
           /\ \E out : /\ AddedBy(n, out) /\ Moves(m, n, out) /\ Sends(out, Nodes, p)
                       /\ n \in Gateways => out = ToAllBut(n, m, p)
                       /\ n \notin Gateways => out = Nothing
    <2>1. /\ TableFits(n, Table(n)) /\ Table(n).siblings = channels[n]
          /\ Table(n) = [siblings |-> Table(n).siblings, routes |-> Table(n).routes]
        BY <1>1, TableOf
    <2>2. PICK t : t = RemoveRoutes(Table(n), p.id)
        OBVIOUS
    <2>3. TableFits(n, t) /\ t.siblings = channels[n]
        BY <2>1, <2>2, FitsRemoveRoutes
    <2>4. channels' = [channels EXCEPT ![n] = t.siblings]
        BY <1>1, <1>3, <2>3 DEF Tables
    <2>5. Tables'
        BY <1>1, <1>7, <2>2, <2>3, <2>4, TableStep
    <2>6. PICK out : AddedBy(n, out) /\ Sends(out, Nodes, p)
        BY <1>7
    <2>7. ASSUME NEW b \in Nodes, NEW q \in Range(out[b]) PROVE PacketFits(n, b, q)
        BY <1>4, <2>6, <2>7 DEF Sends, PacketFits
    <2>8. Control'
        BY <1>1, <2>6, <2>7, ControlStep
    <2> QED BY <1>5, <2>5, <2>8 DEF RoutingInvariant
<1> QED BY <1>4, <1>6, <1>7

-----------------------------------------------------------------------------
(***************************************************************************)
(* Messages across segments.                                               *)
(***************************************************************************)

\* A message, as it has come some way.
Message(d) ==
    /\ d = [receiver |-> d.receiver, path |-> d.path, hops |-> d.hops]
    /\ d.receiver \in Nodes /\ d.path \in Seq(Nodes)

\* Message e is d, one hop further.
SentOn(d, e, n, hop) ==
    /\ Message(e) /\ e.receiver = d.receiver /\ e.hops = d.hops
    /\ Len(e.path) = Len(d.path) + 1 /\ Last(e.path) = hop
    /\ hop \in channels[n]

\* What is handed to the writer of the next hop.
LEMMA TransmitSends ==
    ASSUME Tables, NEW n \in Nodes, NEW d, Message(d), NEW hop, NEW e \in Transmit(d, n, hop)
    PROVE  SentOn(d, e, n, hop)
<1>1. hop \in channels[n] /\ e = [d EXCEPT !.path = Append(@, hop)]
    BY DEF Transmit
<1>2. hop \in Nodes
    BY <1>1 DEF Tables
<1>3. PICK longer : longer = Append(d.path, hop)
    OBVIOUS
<1>4. d = [receiver |-> d.receiver, path |-> d.path, hops |-> d.hops] /\ d.receiver \in Nodes
    BY DEF Message
<1>5. e = [receiver |-> d.receiver, path |-> longer, hops |-> d.hops]
    BY ONLY <1>1, <1>3, <1>4
<1>6. e.receiver = d.receiver /\ e.path = longer /\ e.hops = d.hops
    BY ONLY <1>5
<1>7. longer \in Seq(Nodes) /\ Len(longer) = Len(d.path) + 1 /\ longer[Len(d.path) + 1] = hop
    BY <1>2, <1>3, AppendProperties DEF Message
<1>8. Message(e)
    BY ONLY <1>4, <1>5, <1>6, <1>7 DEF Message
<1>9. Last(e.path) = hop
    BY <1>6, <1>7 DEF Last
<1> QED BY ONLY <1>1, <1>6, <1>7, <1>8, <1>9 DEF SentOn

\* A message on its way has passed two nodes at least.
LEMMA MessageOnTheWay ==
    ASSUME Messages, NEW d \in data
    PROVE  /\ Message(d) /\ Len(d.path) \in Nat /\ Len(d.path) >= 2
           /\ Last(d.path) \in Nodes /\ d.path[1] \in Nodes
<1>1. Message(d) /\ d.path \in Seq(Nodes) /\ Len(d.path) >= 2
    BY DEF Messages, Message
<1>2. Len(d.path) \in Nat
    BY <1>1
<1>3. Len(d.path) \in 1 .. Len(d.path) /\ 1 \in 1 .. Len(d.path)
    BY <1>1, <1>2
<1> QED BY <1>1, <1>2, <1>3, ElementOfSeq DEF Last

\* The first copy of a message.
LEMMA FirstCopy ==
    ASSUME NEW n \in Nodes, NEW m \in Nodes, NEW d,
           d = [receiver |-> m, path |-> <<n>>, hops |-> Distance(n, m)]
    PROVE  /\ Message(d) /\ d.receiver = m /\ Len(d.path) = 1
           /\ d.hops = Distance(n, m)
<1>1. PICK path : path = <<n>> /\ path \in Seq(Nodes) /\ Len(path) = 1
    <2>1. <<n>> \in Seq(Nodes) /\ Len(<<n>>) = 1
        OBVIOUS
    <2> QED BY <2>1
<1>2. PICK hops : hops = Distance(n, m)
    OBVIOUS
<1>3. d = [receiver |-> m, path |-> path, hops |-> hops]
    BY ONLY <1>1, <1>2, d = [receiver |-> m, path |-> <<n>>, hops |-> Distance(n, m)]
<1>4. d.receiver = m /\ d.path = path /\ d.hops = hops
    BY ONLY <1>3
<1> QED BY ONLY <1>1, <1>2, <1>3, <1>4, m \in Nodes DEF Message

\* What a node sends on of a message.
LEMMA EnqueueDataStep ==
    ASSUME Tables, NEW n \in Nodes, NEW m \in Nodes, EnqueueData(n, m)
    PROVE  \E d, hop :
               /\ Message(d) /\ d.receiver = m /\ Len(d.path) = 1 /\ d.hops = Distance(n, m)
               /\ hop \in NextHops(n, m)
               /\ \A e \in data' : e \in data \/ SentOn(d, e, n, hop)
<1>1. PICK d : d = [receiver |-> m, path |-> <<n>>, hops |-> Distance(n, m)]
    OBVIOUS
<1>2. PICK hop \in NextHops(n, m) : data' = data \cup Transmit(d, n, hop)
    BY <1>1 DEF EnqueueData
<1>3. Message(d) /\ d.receiver = m /\ Len(d.path) = 1 /\ d.hops = Distance(n, m)
    BY <1>1, FirstCopy
<1>4. \A e \in data' : e \in data \/ SentOn(d, e, n, hop)
    BY <1>2, <1>3, TransmitSends
<1> QED BY <1>2, <1>3, <1>4

\* A message read: nothing of it is left, or it goes on.
LEMMA OnDataStep ==
    ASSUME Tables, Messages, NEW d \in data, OnData(d)
    PROVE  /\ Message(d) /\ Len(d.path) \in Nat /\ Len(d.path) >= 2 /\ Last(d.path) \in Nodes
           /\ \/ data' \subseteq data
              \/ \E hop \in NextHops(Last(d.path), d.receiver) :
                     /\ d.receiver # Last(d.path)
                     /\ \A e \in data' : e \in data \/ SentOn(d, e, Last(d.path), hop)
<1>1. /\ Message(d) /\ Len(d.path) \in Nat /\ Len(d.path) >= 2
      /\ Last(d.path) \in Nodes /\ d.path[1] \in Nodes
    BY MessageOnTheWay
<1>2. PICK n \in Nodes : n = Last(d.path)
    BY <1>1
<1>3. \/ data' = data \ {d}
      \/ /\ d.receiver # n
         /\ \E hop \in NextHops(n, d.receiver) : data' = (data \ {d}) \cup Transmit(d, n, hop)
    BY <1>2 DEF OnData
<1>4. CASE data' = data \ {d}
    BY <1>1, <1>4
<1>5. CASE /\ d.receiver # n
           /\ \E hop \in NextHops(n, d.receiver) : data' = (data \ {d}) \cup Transmit(d, n, hop)
    <2>1. PICK hop \in NextHops(n, d.receiver) : data' = (data \ {d}) \cup Transmit(d, n, hop)
        BY <1>5
    <2>2. \A e \in data' : e \in data \/ SentOn(d, e, n, hop)
        BY <1>1, <2>1, TransmitSends
    <2> QED BY <1>1, <1>2, <1>5, <2>1, <2>2
<1> QED BY <1>3, <1>4, <1>5

\* Messages that have come further are messages.
LEMMA MessagesStep ==
    ASSUME Messages, NEW d, NEW n, NEW hop, Len(d.path) \in Nat, Len(d.path) >= 1,
           \A e \in data' : e \in data \/ SentOn(d, e, n, hop)
    PROVE  Messages'
<1> SUFFICES ASSUME NEW e \in data' PROVE Message(e) /\ Len(e.path) >= 2
    BY DEF Messages, Message
<1>1. CASE e \in data
    BY <1>1 DEF Messages, Message
<1>2. CASE SentOn(d, e, n, hop)
    BY <1>2 DEF SentOn
<1> QED BY <1>1, <1>2

\* Sending a message keeps the invariant.
LEMMA EnqueueDataKeeps ==
    ASSUME RoutingInvariant, NEW n \in Nodes, NEW m \in Nodes, EnqueueData(n, m)
    PROVE  RoutingInvariant'
<1>1. Tables /\ ChannelsAreLinks /\ Control /\ Messages /\ Counters
    BY DEF RoutingInvariant
<1>2. /\ UNCHANGED <<wire, channels, control, tableVars, duplicates, delivered, breaks>>
      /\ sends' = sends + 1 /\ sends < MaxData
    BY DEF EnqueueData, netVars
<1>3. sends' \in 0 .. MaxData
    BY <1>1, <1>2, RoutingAssumption DEF Counters, RoutingAssumption
<1>4. Tables' /\ Control'
    BY <1>1, <1>2, TablesKept, ControlKept
<1>5. ChannelsAreLinks' /\ Counters'
    BY <1>1, <1>2, <1>3 DEF ChannelsAreLinks, Counters
<1>6. Messages'
    <2>1. PICK d, hop : Len(d.path) = 1 /\ \A e \in data' : e \in data \/ SentOn(d, e, n, hop)
        BY <1>1, EnqueueDataStep
    <2>2. Len(d.path) \in Nat /\ Len(d.path) >= 1
        BY <2>1
    <2> QED BY <1>1, <2>1, <2>2, MessagesStep
<1> QED BY <1>4, <1>5, <1>6 DEF RoutingInvariant

\* Reading a message keeps the invariant.
LEMMA OnDataKeeps ==
    ASSUME RoutingInvariant, NEW d \in data, OnData(d)
    PROVE  RoutingInvariant'
<1>1. Tables /\ ChannelsAreLinks /\ Control /\ Messages /\ Counters
    BY DEF RoutingInvariant
<1>2. UNCHANGED <<wire, channels, control, tableVars, duplicates, sends, breaks>>
    BY DEF OnData, netVars
<1>3. Tables' /\ Control'
    BY <1>1, <1>2, TablesKept, ControlKept
<1>4. Last(d.path) \in Nodes /\ d.path[1] \in Nodes
    BY <1>1, MessageOnTheWay
<1>5. delivered' \subseteq delivered \cup {<<d.path[1], Last(d.path)>>}
    BY DEF OnData
<1>6. ChannelsAreLinks' /\ Counters'
    BY <1>1, <1>2, <1>4, <1>5 DEF ChannelsAreLinks, Counters
<1>7. Messages'
    <2>1. /\ Len(d.path) \in Nat /\ Len(d.path) >= 2
          /\ \/ data' \subseteq data
             \/ \E hop : \A e \in data' : e \in data \/ SentOn(d, e, Last(d.path), hop)
        BY <1>1, OnDataStep
    <2>2. CASE data' \subseteq data
        BY <1>1, <2>2 DEF Messages
    <2>3. CASE \E hop : \A e \in data' : e \in data \/ SentOn(d, e, Last(d.path), hop)
        <3>1. PICK hop : \A e \in data' : e \in data \/ SentOn(d, e, Last(d.path), hop)
            BY <2>3
        <3>2. Len(d.path) >= 1
            BY <2>1
        <3> QED BY <1>1, <2>1, <3>1, <3>2, MessagesStep
    <2> QED BY <2>1, <2>2, <2>3
<1> QED BY <1>3, <1>6, <1>7 DEF RoutingInvariant

\* Every step keeps the invariant.
LEMMA NextKeeps == RoutingInvariant /\ [Next]_vars => RoutingInvariant'
<1> SUFFICES ASSUME RoutingInvariant, [Next]_vars PROVE RoutingInvariant'
    OBVIOUS
<1>1. ASSUME NEW n \in Nodes, NEW m \in Nodes, OnChannelEstablished(n, m) PROVE RoutingInvariant'
    BY <1>1, EstablishedKeeps
<1>2. ASSUME NEW n \in Nodes, NEW m \in Nodes, Break(n, m) PROVE RoutingInvariant'
    BY <1>2, BreakKeeps
<1>3. ASSUME NEW n \in Nodes, NEW m \in Nodes, OnChannelDestroyed(n, m) PROVE RoutingInvariant'
    BY <1>3, DestroyedKeeps
<1>4. ASSUME NEW n \in Nodes, NEW m \in Nodes, Receive(m, n) PROVE RoutingInvariant'
    BY <1>4, RequestKeeps, ResponseKeeps, UnreachableKeeps DEF Receive
<1>5. ASSUME NEW n \in Nodes, NEW m \in Nodes, EnqueueData(n, m) PROVE RoutingInvariant'
    BY <1>5, EnqueueDataKeeps
<1>6. ASSUME NEW d \in data, OnData(d) PROVE RoutingInvariant'
    BY <1>6, OnDataKeeps
<1>7. CASE UNCHANGED vars
    <2>1. UNCHANGED <<wire, channels, control, tableVars, duplicates, data, delivered, sends, breaks>>
        BY <1>7 DEF vars, netVars, dataVars
    <2>2. Tables' /\ Control'
        BY <2>1, TablesKept, ControlKept DEF RoutingInvariant
    <2>3. ChannelsAreLinks' /\ Messages' /\ Counters'
        BY <2>1 DEF RoutingInvariant, ChannelsAreLinks, Messages, Counters
    <2> QED BY <2>2, <2>3 DEF RoutingInvariant
<1> QED BY <1>1, <1>2, <1>3, <1>4, <1>5, <1>6, <1>7 DEF Next

\* It holds in every state that can be reached.
THEOREM RoutingHolds == Spec => []RoutingInvariant
BY InitRouting, NextKeeps, PTL DEF Spec

-----------------------------------------------------------------------------
(***************************************************************************)
(* What follows.                                                           *)
(***************************************************************************)

\* Every variable of a mesh has its type.
LEMMA InvariantTypes == RoutingInvariant => TypeOK
<1> SUFFICES ASSUME RoutingInvariant PROVE TypeOK
    OBVIOUS
<1>1. Tables /\ Control /\ Counters
    BY DEF RoutingInvariant
<1>2. /\ channels \in [Nodes -> SUBSET Nodes] /\ siblings \in [Nodes -> SUBSET Nodes]
      /\ view \in [Nodes -> SUBSET Nodes]
      /\ \A n \in Nodes : \A r \in routes[n] : r[1] \in Nodes /\ r[2] \in Seq(Gateways)
    BY <1>1 DEF Tables
<1>3. ASSUME NEW m \in Nodes, NEW n \in Nodes, NEW i \in DOMAIN control[m][n]
      PROVE  control[m][n][i].type \in {"request", "response", "unreachable"}
    <2>1. control[m][n] \in Seq(Packet)
        BY <1>1 DEF Control, Queues
    <2>2. PICK q : q = control[m][n]
        OBVIOUS
    <2>3. i \in 1 .. Len(q) /\ q \in Seq(Packet)
        BY <1>3, <2>1, <2>2, LenProperties
    <2>4. q[i] \in Packet
        BY ONLY <2>3, ElementOfSeq
    <2> QED BY <2>2, <2>4 DEF Packet, RoutePacket
<1> QED BY <1>1, <1>2, <1>3 DEF TypeOK, Counters

\* Tables, packets, messages and counters keep their types, always.
THEOREM TypesHold == Spec => []TypeOK
BY RoutingHolds, InvariantTypes, PTL

\* Every stored route runs over links that exist, from its node to its
\* destination, whatever was lost and relearnt: the routes of requests are
\* turned round, those of responses cut at the right gateway.
LEMMA InvariantRoutes == RoutingInvariant => RoutesFollowLinks
<1> SUFFICES ASSUME RoutingInvariant, NEW n \in Nodes, NEW r \in routes[n]
             PROVE  r[2] # <<>> /\ FollowsLinks(Links, n, r[2], r[1])
    BY DEF RoutesFollowLinks
<1>1. /\ r[1] \in Nodes /\ r[2] \in Seq(Gateways)
      /\ r[2] # <<>> /\ Runs(n, r[2], r[1])
    <2>1. TableFits(n, Table(n)) /\ Table(n).routes = routes[n]
        BY TableOf DEF RoutingInvariant
    <2>2. r \in Nodes \X Seq(Gateways) /\ r[2] # <<>> /\ Runs(n, r[2], r[1])
        BY <2>1 DEF TableFits
    <2> QED BY ONLY <2>2
<1> QED BY <1>1, FollowsIsRuns

\* Every stored route runs over links that exist, always.
THEOREM RoutesHold == Spec => []RoutesFollowLinks
BY RoutingHolds, InvariantRoutes, PTL

\* The application knows just the nodes that the table reaches, and the siblings
\* in it are the open channels, although requests and responses add siblings too.
LEMMA InvariantView == RoutingInvariant => ViewIsTable
BY DEF RoutingInvariant, Tables, ViewIsTable

\* The application is told just what the table says, always.
THEOREM ViewHolds == Spec => []ViewIsTable
BY RoutingHolds, InvariantView, PTL

\* What the code asserts of the packets it reads: an ordinary node never gets
\* a request without a gateway in it, nor a response to somebody else, and
\* every gateway that gets one is in its route.
LEMMA InvariantAsserts == RoutingInvariant => AssertionsHold
<1> SUFFICES ASSUME RoutingInvariant, NEW m \in Nodes, NEW n \in Nodes, Readable(m, n),
                    NEW p, p = Head(control[m][n])
             PROVE  /\ p.type = "request" /\ n \notin Gateways /\ p.initiator # n => p.route # <<>>
                    /\ p.type = "response" /\ p.initiator # n
                           => n \in Gateways /\ (p.responder # n => n \in Range(p.route))
    BY DEF AssertionsHold
<1>1. Control
    BY DEF RoutingInvariant
<1>2. p \in Packet /\ PacketFits(m, n, p)
    <2>1. p \in Packet /\ p \in Range(control[m][n])
        BY <1>1, ReadTakes
    <2> QED BY <1>1, <2>1 DEF Control
<1>3. p.type = "request" /\ n \notin Gateways => p.route # <<>>
    BY <1>2 DEF PacketFits
<1>4. p.type = "response" /\ p.initiator # n => n \in Gateways /\ n \in Range(p.route)
    BY <1>2, PassedOnFits
<1> QED BY <1>3, <1>4

\* No packet ever meets an assertion of the code that it fails.
THEOREM RoutingAssertionsHold == Spec => []AssertionsHold
BY RoutingHolds, InvariantAsserts, PTL

-----------------------------------------------------------------------------
(***************************************************************************)
(* What a node knows, and who knows the rest.                              *)
(***************************************************************************)

\* By a table, the destination is a neighbour or the chain leads to it.
KnownBy(t, dest, chain) ==
    dest \in t.siblings \/ (chain # <<>> /\ <<dest, chain>> \in t.routes)

Knows(n, dest, chain) == KnownBy(Table(n), dest, chain)

\* A table that has all of the old one, except for routes to new neighbours.
Grows(n, t) ==
    /\ Table(n).siblings \subseteq t.siblings
    /\ \A r \in Table(n).routes : r \in t.routes \/ r[1] \in t.siblings

\* What the packet p from m teaches node n: a route to dest, by m and the rest.
Teaches(m, n, p, dest, rest) ==
    \/ /\ p.type = "request" /\ p.route # <<>>
       /\ dest = p.initiator /\ rest = Tail(Reverse(p.route))
    \/ /\ p.type = "response" /\ dest = p.responder
       /\ \E i \in 0 .. Len(p.route) :
              /\ OnTheWay(m, n, p, i) /\ i # Len(p.route)
              /\ rest = SubSeq(p.route, i + 2, Len(p.route))

\* New routes are those that the packet teaches.
TaughtBy(m, n, p, t) ==
    \A r \in t.routes : r \in routes[n] \/ (Head(r[2]) = m /\ Teaches(m, n, p, r[1], Tail(r[2])))

\* New routes go by m, which knows the rest of them.
NewRoutesBy(n, m, t) ==
    \A r \in t.routes : r \in routes[n] \/ (Head(r[2]) = m /\ Knows(m, r[1], Tail(r[2])))

\* A way of so many hops at most.
Within(n, dest, size) ==
    \/ dest \in siblings[n] /\ 1 <= size
    \/ \E r \in routes[n] : r[1] = dest /\ Len(r[2]) + 1 <= size

KnowledgeKept ==
    /\ \A n \in Nodes : \A m \in channels[n] : m \in channels'[n]
    /\ \A n \in Nodes : \A dest, chain : Knows(n, dest, chain) => Knows(n, dest, chain)'
    /\ \A n \in Nodes : \A dest : \A size \in Int : Within(n, dest, size) => Within(n, dest, size)'

\* A new neighbour takes nothing from the table but routes to it.
LEMMA AddSiblingGrows ==
    ASSUME NEW n, NEW m, NEW chain, NEW t, t = AddSibling(Table(n), m)
    PROVE  Grows(n, t) /\ t.routes \subseteq routes[n] /\ KnownBy(t, m, chain)
<1>1. Table(n).routes = routes[n]
    BY DEF Table
<1>2. /\ t.siblings = Table(n).siblings \cup {m}
      /\ t.routes = {r \in Table(n).routes : r[1] # m}
    BY DEF AddSibling
<1>3. Grows(n, t)
    BY ONLY <1>2 DEF Grows
<1>4. t.routes \subseteq routes[n]
    BY ONLY <1>1, <1>2
<1>5. KnownBy(t, m, chain)
    BY ONLY <1>2 DEF KnownBy
<1> QED BY <1>3, <1>4, <1>5

\* A new route is there, unless its destination is a neighbour.
LEMMA AddRouteGrows ==
    ASSUME NEW n, NEW m, NEW chain, chain # <<>>, NEW t, t = AddRoute(Table(n), m, chain)
    PROVE  /\ Grows(n, t) /\ KnownBy(t, m, chain)
           /\ \A r \in t.routes : r \in routes[n] \/ (r[1] = m /\ r[2] = chain)
<1>1. /\ Table(n).routes = routes[n]
      /\ Table(n) = [siblings |-> Table(n).siblings, routes |-> Table(n).routes]
    BY DEF Table
<1>2. CASE m \in Table(n).siblings
    <2>1. t = Table(n)
        BY <1>2 DEF AddRoute
    <2> QED BY ONLY <1>1, <1>2, <2>1 DEF Grows, KnownBy
<1>3. CASE m \notin Table(n).siblings
    <2>1. t = [siblings |-> Table(n).siblings, routes |-> Table(n).routes \cup {<<m, chain>>}]
        BY <1>1, <1>3 DEF AddRoute
    <2>2. t.siblings = Table(n).siblings /\ t.routes = Table(n).routes \cup {<<m, chain>>}
        BY ONLY <2>1
    <2>3. Grows(n, t)
        BY ONLY <2>2 DEF Grows
    <2>4. ASSUME NEW r \in t.routes PROVE r \in routes[n] \/ (r[1] = m /\ r[2] = chain)
        <3>1. r \in routes[n] \/ r = <<m, chain>>
            BY <1>1, <2>2
        <3> QED BY <3>1
    <2>5. KnownBy(t, m, chain)
        BY <2>2 DEF KnownBy
    <2> QED BY <2>3, <2>4, <2>5
<1> QED BY <1>2, <1>3

\* The table of a node that has exchanged it.
LEMMA NewTable ==
    ASSUME Tables, NEW n \in Nodes, NEW t, UpdateTable(n, t)
    PROVE  /\ siblings'[n] = t.siblings /\ routes'[n] = t.routes
           /\ \A k \in Nodes : k # n => siblings'[k] = siblings[k] /\ routes'[k] = routes[k]
           /\ \A dest, chain : Knows(n, dest, chain)' <=> KnownBy(t, dest, chain)
<1>1. /\ siblings' = [siblings EXCEPT ![n] = t.siblings]
      /\ routes' = [routes EXCEPT ![n] = t.routes]
    BY DEF UpdateTable
<1>2. DOMAIN siblings = Nodes /\ DOMAIN routes = Nodes
    BY DEF Tables
<1>3. /\ siblings'[n] = t.siblings /\ routes'[n] = t.routes
      /\ \A k \in Nodes : k # n => siblings'[k] = siblings[k] /\ routes'[k] = routes[k]
    BY <1>1, <1>2
<1>4. \A dest, chain : Knows(n, dest, chain)' <=> KnownBy(t, dest, chain)
    BY ONLY <1>3 DEF Knows, KnownBy, Table
<1> QED BY <1>3, <1>4

\* What was known stays known when a table grows.
LEMMA GrowthKeeps ==
    ASSUME Tables, NEW n \in Nodes, NEW t, UpdateTable(n, t), Grows(n, t),
           \A k \in Nodes : channels[k] \subseteq channels'[k]
    PROVE  KnowledgeKept
<1>1. /\ siblings'[n] = t.siblings /\ routes'[n] = t.routes
      /\ \A k \in Nodes : k # n => siblings'[k] = siblings[k] /\ routes'[k] = routes[k]
    BY NewTable
<1>2. Table(n).siblings = siblings[n] /\ Table(n).routes = routes[n]
    BY DEF Table
<1>3. ASSUME NEW k \in Nodes
      PROVE  /\ siblings[k] \subseteq siblings'[k]
             /\ \A r \in routes[k] : r \in routes'[k] \/ r[1] \in siblings'[k]
    <2>1. CASE k = n
        BY <1>1, <1>2, <2>1 DEF Grows
    <2>2. CASE k # n
        BY <1>1, <2>2
    <2> QED BY <2>1, <2>2
<1>4. ASSUME NEW k \in Nodes, NEW dest, NEW chain, Knows(k, dest, chain)
      PROVE  Knows(k, dest, chain)'
    <2>1. dest \in siblings[k] \/ (chain # <<>> /\ <<dest, chain>> \in routes[k])
        BY <1>4 DEF Knows, KnownBy, Table
    <2>2. dest \in siblings'[k] \/ (chain # <<>> /\ <<dest, chain>> \in routes'[k])
        <3>1. CASE dest \in siblings[k]
            BY <1>3, <3>1
        <3>2. CASE chain # <<>> /\ <<dest, chain>> \in routes[k]
            <4>1. PICK r : r = <<dest, chain>> /\ r[1] = dest
                <5>1. <<dest, chain>>[1] = dest
                    OBVIOUS
                <5> QED BY <5>1
            <4>2. r \in routes'[k] \/ r[1] \in siblings'[k]
                BY <1>3, <3>2, <4>1
            <4> QED BY <3>2, <4>1, <4>2
        <3> QED BY <2>1, <3>1, <3>2
    <2> QED BY ONLY <2>2 DEF Knows, KnownBy, Table
<1>5. ASSUME NEW k \in Nodes, NEW dest, NEW size \in Int, Within(k, dest, size)
      PROVE  Within(k, dest, size)'
    <2>1. CASE dest \in siblings[k] /\ 1 <= size
        BY <1>3, <2>1 DEF Within
    <2>2. CASE \E r \in routes[k] : r[1] = dest /\ Len(r[2]) + 1 <= size
        <3>1. PICK r \in routes[k] : r[1] = dest /\ Len(r[2]) + 1 <= size
            BY <2>2
        <3>2. r[2] \in Seq(Gateways)
            BY <3>1 DEF Tables
        <3>3. 1 <= size
            BY <3>1, <3>2, ChainType
        <3>4. r \in routes'[k] \/ r[1] \in siblings'[k]
            BY <1>3, <3>1
        <3> QED BY ONLY <3>1, <3>3, <3>4 DEF Within
    <2> QED BY <1>5, <2>1, <2>2 DEF Within
<1>6. \A k \in Nodes : \A m \in channels[k] : m \in channels'[k]
    OBVIOUS
<1> QED BY ONLY <1>4, <1>5, <1>6 DEF KnowledgeKept

\* The same when no table changes.
LEMMA StillKnown ==
    ASSUME UNCHANGED <<channels, siblings, routes>>
    PROVE  KnowledgeKept
<1>1. \A n : \A dest, chain : Knows(n, dest, chain) => Knows(n, dest, chain)'
    BY DEF Knows, KnownBy, Table
<1>2. \A n : \A dest, size : Within(n, dest, size) => Within(n, dest, size)'
    BY DEF Within
<1> QED BY <1>1, <1>2 DEF KnowledgeKept

-----------------------------------------------------------------------------
(***************************************************************************)
(* A mesh in which nothing failed.                                         *)
(***************************************************************************)

\* A packet teaches the node that reads it nothing its sender does not know.
PacketKnown(m, n, p) ==
    /\ p.type # "unreachable"
    /\ p.type = "request" /\ p.route # <<>> => Knows(m, p.initiator, Tail(Reverse(p.route)))
    /\ p.type = "response" =>
           \A i \in 0 .. Len(p.route) :
               OnTheWay(m, n, p, i) /\ i # Len(p.route)
                   => Knows(m, p.responder, SubSeq(p.route, i + 2, Len(p.route)))

PacketsKnown == \A m, n \in Nodes : \A p \in Range(control[m][n]) : PacketKnown(m, n, p)

WiresHold == \A n \in Nodes : \A m \in channels[n] : {n, m} \in wire

RoutesKnown ==
    \A n \in Nodes : \A r \in routes[n] :
        Head(r[2]) \in channels[n] /\ Knows(Head(r[2]), r[1], Tail(r[2]))

\* The rest of its way is known at each node a message comes to.
MessageWithin(d) ==
    /\ d.hops \in Int
    /\ Last(d.path) # d.receiver => Within(Last(d.path), d.receiver, d.hops - (Len(d.path) - 1))

MessagesWithin == \A d \in data : MessageWithin(d)

Undisturbed == WiresHold /\ PacketsKnown /\ RoutesKnown /\ MessagesWithin

\* Packets already on their way, and new ones that only tell what is known.
LEMMA PacketsStep ==
    ASSUME PacketsKnown, KnowledgeKept, NEW n \in Nodes, NEW out, AddedBy(n, out),
           \A b \in Nodes : {n, b} \in Links => \A p \in Range(out[b]) : PacketKnown(n, b, p)'
    PROVE  PacketsKnown'
<1>1. ASSUME NEW k \in Nodes, NEW b \in Nodes, NEW p, PacketKnown(k, b, p)
      PROVE  PacketKnown(k, b, p)'
    <2>1. \A dest, chain : Knows(k, dest, chain) => Knows(k, dest, chain)'
        BY DEF KnowledgeKept
    <2> QED BY ONLY <1>1, <2>1 DEF PacketKnown
<1>2. ASSUME NEW k \in Nodes, NEW b \in Nodes, NEW p \in Range(control'[k][b])
      PROVE  PacketKnown(k, b, p)'
    <2>1. p \in Range(control[k][b]) \/ (k = n /\ {n, b} \in Links /\ p \in Range(out[b]))
        BY <1>2 DEF AddedBy
    <2>2. CASE p \in Range(control[k][b])
        BY <1>1, <2>2 DEF PacketsKnown
    <2>3. CASE k = n /\ {n, b} \in Links /\ p \in Range(out[b])
        BY <2>3
    <2> QED BY <2>1, <2>2, <2>3
<1> QED BY ONLY <1>2 DEF PacketsKnown

\* Routes already stored, and new ones by a neighbour that knows the rest.
LEMMA RoutesStep ==
    ASSUME Tables, RoutesKnown, KnowledgeKept, NEW n \in Nodes, NEW t, UpdateTable(n, t),
           NEW m \in channels'[n], m \in Nodes, NewRoutesBy(n, m, t)
    PROVE  RoutesKnown'
<1>1. /\ routes'[n] = t.routes
      /\ \A k \in Nodes : k # n => routes'[k] = routes[k]
    BY NewTable
<1>2. /\ \A k \in Nodes : \A b \in channels[k] : b \in channels'[k] /\ b \in Nodes
      /\ \A k \in Nodes : \A dest, chain : Knows(k, dest, chain) => Knows(k, dest, chain)'
    BY DEF KnowledgeKept, Tables
<1>3. ASSUME NEW k \in Nodes, NEW r \in routes[k]
      PROVE  Head(r[2]) \in channels'[k] /\ Knows(Head(r[2]), r[1], Tail(r[2]))'
    <2>1. Head(r[2]) \in channels[k] /\ Knows(Head(r[2]), r[1], Tail(r[2]))
        BY <1>3 DEF RoutesKnown
    <2> QED BY <1>2, <2>1
<1>4. ASSUME NEW r \in t.routes
      PROVE  Head(r[2]) \in channels'[n] /\ Knows(Head(r[2]), r[1], Tail(r[2]))'
    <2>1. r \in routes[n] \/ (Head(r[2]) = m /\ Knows(m, r[1], Tail(r[2])))
        BY <1>4 DEF NewRoutesBy
    <2>2. CASE Head(r[2]) = m /\ Knows(m, r[1], Tail(r[2]))
        BY <1>2, <2>2
    <2> QED BY <1>3, <2>1, <2>2
<1>5. ASSUME NEW k \in Nodes, NEW r \in routes'[k]
      PROVE  Head(r[2]) \in channels'[k] /\ Knows(Head(r[2]), r[1], Tail(r[2]))'
    <2>1. CASE k = n
        <3>1. r \in t.routes
            BY <1>1, <1>5, <2>1
        <3> QED BY <1>4, <2>1, <3>1
    <2>2. CASE k # n
        <3>1. r \in routes[k]
            BY <1>1, <1>5, <2>2
        <3> QED BY <1>3, <3>1
    <2> QED BY <2>1, <2>2
<1> QED BY ONLY <1>5 DEF RoutesKnown

\* Messages where they were.
LEMMA MessagesStay ==
    ASSUME Messages, MessagesWithin, KnowledgeKept, data' \subseteq data
    PROVE  MessagesWithin'
<1> SUFFICES ASSUME NEW d \in data' PROVE MessageWithin(d)'
    BY DEF MessagesWithin
<1>1. MessageWithin(d)
    BY DEF MessagesWithin
<1>2. Last(d.path) \in Nodes /\ Len(d.path) \in Nat
    BY MessageOnTheWay
<1>3. d.hops \in Int /\ d.hops - (Len(d.path) - 1) \in Int
    BY <1>1, <1>2 DEF MessageWithin
<1>4. Within(Last(d.path), d.receiver, d.hops - (Len(d.path) - 1))
          => Within(Last(d.path), d.receiver, d.hops - (Len(d.path) - 1))'
    BY <1>2, <1>3 DEF KnowledgeKept
<1> QED BY ONLY <1>1, <1>3, <1>4 DEF MessageWithin

-----------------------------------------------------------------------------
(***************************************************************************)
(* Distances and next hops.                                                *)
(***************************************************************************)

\* The order on the naturals as a relation.
LessThan == {ss \in Nat \X Nat : ss[1] < ss[2]}

\* A non-empty set of naturals has a least element, and Min chooses it.
LEMMA MinOfLengths ==
    ASSUME NEW S, S \subseteq Nat, S # {}
    PROVE  Min(S) \in S /\ \A x \in S : Min(S) <= x
<1>1. IsWellFoundedOn(LessThan, Nat)
    BY NatLessThanWellFounded DEF OpToRel, LessThan
<1>2. PICK least \in S : \A x \in S : ~(<<x, least>> \in LessThan)
    BY <1>1, WFMin
<1>3. ASSUME NEW x \in S PROVE least <= x
    <2>1. least \in Nat /\ x \in Nat /\ ~(<<x, least>> \in LessThan)
        BY <1>2
    <2> QED BY <2>1 DEF LessThan
<1> QED BY <1>3 DEF Min

\* The lengths of the chains a node has to a destination.
Lengths(n, dest) == {Len(r[2]) : r \in {q \in routes[n] : q[1] = dest}}

\* Chains have lengths that can be compared.
LEMMA LengthsType ==
    ASSUME Tables, NEW n \in Nodes, NEW dest
    PROVE  Lengths(n, dest) \subseteq Nat
<1> SUFFICES ASSUME NEW r \in routes[n] PROVE Len(r[2]) \in Nat
    BY DEF Lengths
<1>1. r[2] \in Seq(Gateways)
    BY DEF Tables
<1> QED BY <1>1, ChainType

\* The distance of a node that can be reached is that of a way to it.
LEMMA DistanceIsWay ==
    ASSUME Tables, NEW n \in Nodes, NEW dest, dest \in Reachable(Table(n))
    PROVE  Distance(n, dest) \in Int /\ Within(n, dest, Distance(n, dest))
<1>1. dest \in siblings[n] \/ \E r \in routes[n] : r[1] = dest
    BY DEF Reachable, Table
<1>2. Distance(n, dest) = IF dest \in siblings[n] THEN 1 ELSE Min(Lengths(n, dest)) + 1
    BY DEF Distance, Lengths
<1>3. CASE dest \in siblings[n]
    BY <1>2, <1>3 DEF Within
<1>4. CASE dest \notin siblings[n]
    <2>1. Lengths(n, dest) \subseteq Nat /\ Lengths(n, dest) # {}
        BY <1>1, <1>4, LengthsType DEF Lengths
    <2>2. Min(Lengths(n, dest)) \in Lengths(n, dest)
        BY <2>1, MinOfLengths
    <2>3. PICK r \in routes[n] : r[1] = dest /\ Len(r[2]) = Min(Lengths(n, dest))
        BY <2>2 DEF Lengths
    <2>4. Len(r[2]) \in Nat
        BY <2>1, <2>2, <2>3
    <2>5. Distance(n, dest) = Len(r[2]) + 1 /\ Len(r[2]) + 1 <= Len(r[2]) + 1
        BY <1>2, <1>4, <2>3, <2>4
    <2> QED BY <2>3, <2>4, <2>5 DEF Within
<1> QED BY <1>3, <1>4

\* A way of so many hops makes the distance no longer.
LEMMA WayIsDistance ==
    ASSUME Tables, NEW n \in Nodes, NEW dest, NEW size \in Int, Within(n, dest, size)
    PROVE  dest \in Reachable(Table(n)) /\ Distance(n, dest) \in Int /\ Distance(n, dest) <= size
<1>1. Distance(n, dest) = IF dest \in siblings[n] THEN 1 ELSE Min(Lengths(n, dest)) + 1
    BY DEF Distance, Lengths
<1>2. dest \in Reachable(Table(n))
    BY DEF Within, Reachable, Table
<1>3. CASE \E r \in routes[n] : r[1] = dest /\ Len(r[2]) + 1 <= size
    <2>1. PICK r \in routes[n] : r[1] = dest /\ Len(r[2]) + 1 <= size
        BY <1>3
    <2>2. Len(r[2]) \in Lengths(n, dest) /\ Lengths(n, dest) \subseteq Nat
        BY <2>1, LengthsType DEF Lengths
    <2>3. Min(Lengths(n, dest)) \in Nat /\ Min(Lengths(n, dest)) <= Len(r[2])
        BY <2>2, MinOfLengths
    <2>4. Len(r[2]) \in Nat
        BY <2>2
    <2> QED BY <1>1, <1>2, <2>1, <2>3, <2>4
<1>4. CASE dest \in siblings[n] /\ 1 <= size
    BY <1>1, <1>2, <1>4
<1> QED BY <1>3, <1>4 DEF Within

\* The next hop of a way has the rest of it, unless it is the destination.
LEMMA HopHasRest ==
    ASSUME Tables, RoutesKnown, NEW n \in Nodes, NEW dest, NEW hop \in NextHops(n, dest), hop # dest,
           NEW size \in Int, Within(n, dest, size)
    PROVE  Within(hop, dest, size - 1)
<1>1. dest \notin siblings[n]
    BY DEF NextHops
<1>2. PICK r \in routes[n] :
          /\ r[1] = dest /\ hop = r[2][1]
          /\ \A o \in routes[n] : o[1] = dest => Len(r[2]) <= Len(o[2])
    BY <1>1 DEF NextHops
<1>3. PICK o \in routes[n] : o[1] = dest /\ Len(o[2]) + 1 <= size
    BY <1>1 DEF Within
<1>4. r[2] \in Seq(Gateways) /\ o[2] \in Seq(Gateways) /\ r[2] # <<>>
    <2>1. TableFits(n, Table(n)) /\ Table(n).routes = routes[n]
        BY TableOf
    <2> QED BY <1>2, <1>3, <2>1 DEF TableFits
<1>5. PICK rest : rest = Tail(r[2])
    OBVIOUS
<1>6. /\ Len(r[2]) \in Nat /\ Len(o[2]) \in Nat /\ Len(r[2]) # 0
      /\ Head(r[2]) = hop /\ Len(rest) = Len(r[2]) - 1
    <2>1. Len(r[2]) \in Nat /\ Len(o[2]) \in Nat /\ Len(r[2]) # 0
        BY <1>4, ChainType
    <2>2. Head(r[2]) = hop
        BY <1>2, <1>4
    <2>3. Len(rest) = Len(r[2]) - 1
        BY <1>4, <1>5, HeadTailProperties
    <2> QED BY <2>1, <2>2, <2>3
<1>7. Len(r[2]) + 1 <= size
    BY <1>2, <1>3, <1>6
<1>8. Knows(hop, dest, rest)
    BY <1>2, <1>5, <1>6 DEF RoutesKnown
<1>9. dest \in siblings[hop] \/ <<dest, rest>> \in routes[hop]
    BY ONLY <1>8 DEF Knows, KnownBy, Table
<1>10. CASE dest \in siblings[hop]
    BY <1>6, <1>7, <1>10 DEF Within
<1>11. CASE <<dest, rest>> \in routes[hop]
    <2>1. PICK q : q = <<dest, rest>> /\ q[1] = dest /\ q[2] = rest
        <3>1. <<dest, rest>>[1] = dest /\ <<dest, rest>>[2] = rest
            OBVIOUS
        <3> QED BY <3>1
    <2>2. Len(q[2]) + 1 <= size - 1
        BY <1>6, <1>7, <2>1
    <2> QED BY <1>11, <2>1, <2>2 DEF Within
<1> QED BY <1>9, <1>10, <1>11

\* A node with a next hop can reach the destination.
LEMMA HopReaches ==
    ASSUME NEW n \in Nodes, NEW dest, NEW hop \in NextHops(n, dest)
    PROVE  dest \in Reachable(Table(n))
BY DEF NextHops, Reachable, Table

\* A message one hop further has the rest of its way before it.
LEMMA SentWithin ==
    ASSUME Tables, RoutesKnown, NEW n \in Nodes, NEW d, NEW e, NEW hop \in NextHops(n, d.receiver),
           SentOn(d, e, n, hop), Len(d.path) \in Nat, d.hops \in Int,
           Within(n, d.receiver, d.hops - (Len(d.path) - 1))
    PROVE  MessageWithin(e)
<1>1. /\ e.receiver = d.receiver /\ e.hops = d.hops /\ Len(e.path) = Len(d.path) + 1
      /\ Last(e.path) = hop
    BY DEF SentOn
<1>2. hop # d.receiver => Within(hop, d.receiver, (d.hops - (Len(d.path) - 1)) - 1)
    BY HopHasRest
<1>3. e.hops - (Len(e.path) - 1) = (d.hops - (Len(d.path) - 1)) - 1
    BY <1>1
<1>4. e.hops \in Int
    BY <1>1
<1> QED BY ONLY <1>1, <1>2, <1>3, <1>4 DEF MessageWithin

-----------------------------------------------------------------------------
(***************************************************************************)
(* What packets teach while nothing failed.                                *)
(***************************************************************************)

\* No node is at two places of a route.
LEMMA PlaceOnce ==
    ASSUME NEW chain \in Seq(Gateways), Once(chain), NEW x, \A k \in 1 .. Len(chain) : chain[k] # x,
           NEW y, NEW z, NEW i \in 0 .. Len(chain), NEW j \in 0 .. Len(chain),
           Hop(x, chain, y, i) = Hop(x, chain, z, j)
    PROVE  i = j
<1>1. Len(chain) \in Nat
    BY ChainType
<1>2. \A w : \A k \in 0 .. Len(chain) : Hop(x, chain, w, k) = IF k = 0 THEN x ELSE chain[k]
    BY <1>1 DEF Hop
<1>3. i # 0 => i \in 1 .. Len(chain)
    BY <1>1
<1>4. j # 0 => j \in 1 .. Len(chain)
    BY <1>1
<1>5. CASE i = 0 \/ j = 0
    BY <1>2, <1>3, <1>4, <1>5
<1>6. CASE i # 0 /\ j # 0
    <2>1. chain[i] = chain[j]
        BY <1>2, <1>6
    <2> QED BY <1>3, <1>4, <1>6, <2>1 DEF Once
<1> QED BY <1>5, <1>6

\* A chain of one more gateway, turned round.
LEMMA ReverseAppend ==
    ASSUME NEW chain \in Seq(Gateways), NEW gw \in Gateways
    PROVE  Tail(Reverse(Append(chain, gw))) = Reverse(chain)
<1> DEFINE size == Len(chain)
<1>1. size \in Nat /\ \A i \in 1 .. size : chain[i] \in Gateways
    BY ChainType
<1>2. PICK longer : longer = Append(chain, gw)
    OBVIOUS
<1>3. /\ longer \in Seq(Gateways) /\ Len(longer) = size + 1
      /\ \A i \in 1 .. size : longer[i] = chain[i]
    BY <1>2, AppendProperties
<1>4. \A i \in 1 .. size + 1 : longer[i] \in Gateways
    BY <1>3, ElementOfSeq
<1> HIDE DEF size
<1>5. PICK back, ahead : back = Reverse(chain) /\ ahead = Reverse(longer)
    OBVIOUS
<1>6. /\ back = [i \in 1 .. size |-> chain[(size - i) + 1]]
      /\ ahead = [i \in 1 .. size + 1 |-> longer[((size + 1) - i) + 1]]
    BY <1>3, <1>5 DEF Reverse, size
<1>7. back \in Seq(Gateways) /\ Len(back) = size
    <2>1. \A i \in 1 .. size : (size - i) + 1 \in 1 .. size
        BY <1>1
    <2>2. back \in [1 .. size -> Gateways]
        BY <1>1, <1>6, <2>1
    <2>3. back \in Seq(Gateways)
        BY <1>1, <2>2, SeqDef
    <2> QED BY <1>1, <2>2, <2>3, LenProperties
<1>8. ahead \in Seq(Gateways) /\ Len(ahead) = size + 1
    <2>1. \A i \in 1 .. size + 1 : ((size + 1) - i) + 1 \in 1 .. size + 1
        BY <1>1
    <2>2. ahead \in [1 .. size + 1 -> Gateways]
        BY <1>4, <1>6, <2>1
    <2>3. ahead \in Seq(Gateways)
        BY <1>1, <2>2, SeqDef
    <2> QED BY <1>1, <2>2, <2>3, LenProperties
<1>9. PICK rest : rest = Tail(ahead)
    OBVIOUS
<1>10. /\ rest \in Seq(Gateways) /\ Len(rest) = size
       /\ \A i \in 1 .. size : rest[i] = ahead[i + 1]
    <2>1. ahead # <<>>
        BY <1>1, <1>8, ChainType
    <2>2. /\ rest \in Seq(Gateways) /\ Len(rest) = Len(ahead) - 1
          /\ \A i \in 1 .. Len(rest) : rest[i] = ahead[i + 1]
        BY ONLY <1>8, <1>9, <2>1, HeadTailProperties
    <2> QED BY <1>1, <1>8, <2>2
<1>11. ASSUME NEW i \in 1 .. size PROVE rest[i] = back[i]
    <2>1. /\ i + 1 \in 1 .. size + 1
          /\ ((size + 1) - (i + 1)) + 1 = (size - i) + 1 /\ (size - i) + 1 \in 1 .. size
        BY <1>1
    <2>2. ahead[i + 1] = longer[(size - i) + 1]
        BY <1>6, <2>1
    <2>3. longer[(size - i) + 1] = chain[(size - i) + 1]
        BY <1>3, <2>1
    <2> QED BY <1>6, <1>10, <2>2, <2>3
<1>12. rest = back
    BY ONLY <1>7, <1>10, <1>11, SeqEqual
<1> QED BY <1>2, <1>5, <1>9, <1>12

\* A request teaches a route to the initiator by its sender.
LEMMA LearntGrows ==
    ASSUME NEW n \in Nodes, NEW m \in Nodes,
           NEW p \in Packet, p.type = "request", PacketFits(m, n, p), NEW t, t = Learnt(n, p)
    PROVE  Grows(n, t) /\ TaughtBy(m, n, p, t) /\ KnownBy(t, p.initiator, Reverse(p.route))
<1>1. p.initiator \in Nodes /\ p.route \in Seq(Gateways) /\ Len(p.route) \in Nat
    BY RouteFields, ChainType
<1>2. /\ Runs(p.initiator, p.route, n) /\ m = Hop(p.initiator, p.route, n, Len(p.route))
      /\ p.route = <<>> => n \in Gateways
    BY DEF PacketFits, RouteFits
<1>3. CASE p.route = <<>>
    <2>1. t = AddSibling(Table(n), p.initiator)
        BY <1>2, <1>3 DEF Learnt
    <2>2. PICK back : back = Reverse(p.route)
        OBVIOUS
    <2>3. Grows(n, t) /\ t.routes \subseteq routes[n] /\ KnownBy(t, p.initiator, back)
        BY ONLY <2>1, AddSiblingGrows
    <2> QED BY ONLY <2>2, <2>3 DEF TaughtBy
<1>4. CASE p.route # <<>>
    <2>1. PICK back : back = Reverse(p.route)
        OBVIOUS
    <2>2. back # <<>> /\ Head(back) = p.route[Len(p.route)]
        BY <1>1, <1>2, <1>4, <2>1, ReverseRuns
    <2>3. m = p.route[Len(p.route)]
        BY <1>1, <1>2, <1>4, ChainType DEF Hop
    <2>4. t = AddRoute(Table(n), p.initiator, back)
        BY <1>4, <2>1 DEF Learnt, AddReversed
    <2>5. /\ Grows(n, t) /\ KnownBy(t, p.initiator, back)
          /\ \A r \in t.routes : r \in routes[n] \/ (r[1] = p.initiator /\ r[2] = back)
        BY ONLY <2>2, <2>4, AddRouteGrows
    <2>6. Teaches(m, n, p, p.initiator, Tail(back))
        BY <1>4, <2>1 DEF Teaches
    <2>7. TaughtBy(m, n, p, t)
        BY ONLY <2>2, <2>3, <2>5, <2>6 DEF TaughtBy
    <2> QED BY <2>1, <2>5, <2>7
<1> QED BY <1>3, <1>4

\* A response teaches a route to the responder by its sender.
LEMMA TaughtGrows ==
    ASSUME NEW n \in Nodes, NEW m \in Nodes,
           NEW p \in Packet, p.type = "response", PacketFits(m, n, p),
           NEW i \in 0 .. Len(p.route), OnTheWay(m, n, p, i),
           NEW t, t = LearnFromResponse(n, p)
    PROVE  /\ Grows(n, t) /\ TaughtBy(m, n, p, t)
           /\ KnownBy(t, p.responder, SubSeq(p.route, i + 1, Len(p.route)))
<1>1. /\ p.route \in Seq(Gateways) /\ Once(p.route)
      /\ \A j \in 1 .. Len(p.route) : p.route[j] # p.initiator
    BY ResponsePlace
<1>2. PICK j \in 0 .. Len(p.route) :
          /\ OnTheWay(m, n, p, j)
          /\ j = 0 <=> n = p.initiator
          /\ j # 0 => n = p.route[j]
          /\ m = IF j = Len(p.route) THEN p.responder ELSE p.route[j + 1]
    <2>1. PICK j \in 0 .. Len(p.route) : PlaceOf(m, n, p, j)
        BY ResponsePlace
    <2> QED BY ONLY <2>1 DEF PlaceOf
<1>3. i = j
    BY <1>1, <1>2, PlaceOnce DEF OnTheWay
<1>4. PICK rest : rest = SubSeq(p.route, i + 1, Len(p.route))
    OBVIOUS
<1>5. /\ rest = <<>> <=> i = Len(p.route)
      /\ i # Len(p.route) =>
             /\ Head(rest) = p.route[i + 1]
             /\ Tail(rest) = SubSeq(p.route, i + 2, Len(p.route))
             /\ LearnFromResponse(n, p) = AddRoute(Table(n), p.responder, rest)
      /\ i = Len(p.route) => LearnFromResponse(n, p) = AddSibling(Table(n), p.responder)
    BY <1>2, <1>3, <1>4, ResponseTeaches
<1>6. CASE i = Len(p.route)
    <2>1. t = AddSibling(Table(n), p.responder)
        BY <1>5, <1>6
    <2>2. Grows(n, t) /\ t.routes \subseteq routes[n] /\ KnownBy(t, p.responder, rest)
        BY ONLY <2>1, AddSiblingGrows
    <2> QED BY ONLY <1>4, <2>2 DEF TaughtBy
<1>7. CASE i # Len(p.route)
    <2>1. rest # <<>> /\ Head(rest) = m /\ t = AddRoute(Table(n), p.responder, rest)
        BY <1>2, <1>3, <1>5, <1>7
    <2>2. /\ Grows(n, t) /\ KnownBy(t, p.responder, rest)
          /\ \A r \in t.routes : r \in routes[n] \/ (r[1] = p.responder /\ r[2] = rest)
        BY ONLY <2>1, AddRouteGrows
    <2>3. Teaches(m, n, p, p.responder, Tail(rest))
        BY <1>5, <1>7 DEF Teaches
    <2>4. TaughtBy(m, n, p, t)
        BY ONLY <2>1, <2>2, <2>3 DEF TaughtBy
    <2> QED BY <1>4, <2>2, <2>4
<1> QED BY <1>6, <1>7

\* What a packet teaches that tells only what its sender knows.
LEMMA TaughtIsKnown ==
    ASSUME NEW m, NEW n, NEW p, PacketKnown(m, n, p)
    PROVE  /\ \A dest, rest : Teaches(m, n, p, dest, rest) => Knows(m, dest, rest)
           /\ \A t : TaughtBy(m, n, p, t) => NewRoutesBy(n, m, t)
<1>1. ASSUME NEW dest, NEW rest, Teaches(m, n, p, dest, rest) PROVE Knows(m, dest, rest)
    BY <1>1 DEF Teaches, PacketKnown
<1> QED BY <1>1 DEF TaughtBy, NewRoutesBy

\* The answer to a request teaches its reader that the sender is a neighbour,
\* and no route by it.
LEMMA AnswerKnown ==
    ASSUME NEW m \in Nodes, NEW n \in Nodes, NEW p \in Packet, p.type = "request", PacketFits(m, n, p)
    PROVE  PacketKnown(n, m, Response(n, p))'
<1>1. p.route \in Seq(Gateways) /\ Len(p.route) \in Nat
    BY RouteFields, ChainType
<1>2. PICK q : q = Response(n, p)
    OBVIOUS
<1>3. /\ q.type = "response" /\ q.initiator = p.initiator /\ q.route = p.route
    BY <1>2, AnswerFits
<1>4. /\ Once(p.route) /\ \A j \in 1 .. Len(p.route) : p.route[j] # p.initiator
      /\ m = Hop(p.initiator, p.route, n, Len(p.route))
    BY DEF PacketFits, RouteFits
<1>5. ASSUME NEW i \in 0 .. Len(q.route), OnTheWay(n, m, q, i) PROVE i = Len(q.route)
    <2>1. m = Hop(p.initiator, p.route, q.responder, i) /\ i \in 0 .. Len(p.route)
        BY <1>3, <1>5 DEF OnTheWay
    <2>2. Len(p.route) \in 0 .. Len(p.route)
        BY <1>1
    <2> QED BY <1>1, <1>3, <1>4, <2>1, <2>2, PlaceOnce
<1>6. PacketKnown(n, m, q)'
    BY ONLY <1>3, <1>5 DEF PacketKnown
<1> QED BY <1>2, <1>6

\* A gateway that forwards a request knows the route back.
LEMMA ForwardKnown ==
    ASSUME NEW m \in Nodes, NEW n \in Gateways, NEW b \in Nodes,
           NEW p \in Packet, p.type = "request", PacketFits(m, n, p),
           n # p.initiator, n \notin Range(p.route), n \in Nodes,
           Knows(n, p.initiator, Reverse(p.route))'
    PROVE  PacketKnown(n, b, Forwarded(n, p))'
<1>1. p.route \in Seq(Gateways)
    BY RouteFields
<1>2. PICK q : q = Forwarded(n, p)
    OBVIOUS
<1>3. q.type = "request" /\ q.initiator = p.initiator /\ q.route = Append(p.route, n)
    BY <1>2, ForwardFits
<1>4. Tail(Reverse(q.route)) = Reverse(p.route)
    BY <1>1, <1>3, ReverseAppend
<1>5. PacketKnown(n, b, q)'
    BY ONLY <1>3, <1>4, Knows(n, p.initiator, Reverse(p.route))' DEF PacketKnown
<1> QED BY <1>2, <1>5

\* A gateway that passes a response on knows the route to the responder.
LEMMA PassedKnown ==
    ASSUME NEW m \in Nodes, NEW n \in Nodes, NEW p \in Packet, p.type = "response", PacketFits(m, n, p),
           n # p.initiator, NEW i \in 0 .. Len(p.route), OnTheWay(m, n, p, i),
           Knows(n, p.responder, SubSeq(p.route, i + 1, Len(p.route)))'
    PROVE  PacketKnown(n, Addressee(n, p), p)'
<1>1. /\ p.route \in Seq(Gateways) /\ Len(p.route) \in Nat /\ Once(p.route)
      /\ \A j \in 1 .. Len(p.route) : p.route[j] # p.initiator
    BY ResponsePlace
<1>2. PICK k : k = Addressee(n, p)
    OBVIOUS
<1>3. i # 0 /\ OnTheWay(n, k, p, i - 1)
    BY <1>2, PassedOnFits
<1>4. i - 1 \in 0 .. Len(p.route)
    BY <1>1, <1>3
<1>5. ASSUME NEW j \in 0 .. Len(p.route), OnTheWay(n, k, p, j) PROVE j + 2 = i + 1
    <2>1. j = i - 1
        BY <1>1, <1>3, <1>4, <1>5, PlaceOnce DEF OnTheWay
    <2> QED BY <1>1, <1>4, <2>1
<1>6. PacketKnown(n, k, p)'
    <2>1. ASSUME NEW j \in 0 .. Len(p.route), OnTheWay(n, k, p, j)
          PROVE  Knows(n, p.responder, SubSeq(p.route, j + 2, Len(p.route)))'
        <3>1. j + 2 = i + 1
            BY <1>5, <2>1
        <3> QED BY <3>1
    <2>2. p.type = "response"
        OBVIOUS
    <2> QED BY ONLY <2>1, <2>2 DEF PacketKnown
<1> QED BY <1>2, <1>6

\* A gateway announces only its neighbours.
LEMMA AnnouncementKnown ==
    ASSUME NEW n \in Nodes, NEW m \in Nodes, NEW p, Announces(n, m, p), channels[n] \subseteq siblings'[n]
    PROVE  PacketKnown(n, m, p)'
<1>1. p.type = "request"
    BY DEF Announces
<1>2. p.route = <<>> \/ p.initiator \in siblings'[n]
    BY DEF Announces
<1>3. p.route # <<>> => Knows(n, p.initiator, Tail(Reverse(p.route)))'
    BY ONLY <1>2 DEF Knows, KnownBy, Table
<1> QED BY ONLY <1>1, <1>3 DEF PacketKnown

-----------------------------------------------------------------------------
(***************************************************************************)
(* While nothing failed, the next hop of a route knows the rest of it.     *)
(***************************************************************************)

\* A packet read that teaches n a route by m.
LEMMA TaughtStep ==
    ASSUME RoutingInvariant, Undisturbed, NEW n \in Nodes, NEW m \in channels[n],
           UNCHANGED <<wire, channels, data>>,
           NEW t, UpdateTable(n, t), Grows(n, t), NewRoutesBy(n, m, t),
           NEW out, AddedBy(n, out),
           KnowledgeKept =>
               \A b \in Nodes : {n, b} \in Links => \A q \in Range(out[b]) : PacketKnown(n, b, q)'
    PROVE  Undisturbed'
<1>1. /\ Tables /\ Messages /\ WiresHold /\ PacketsKnown /\ RoutesKnown /\ MessagesWithin
      /\ m \in Nodes /\ m \in channels'[n]
    BY DEF RoutingInvariant, Undisturbed, Tables
<1>2. KnowledgeKept
    BY <1>1, GrowthKeeps
<1>3. PacketsKnown'
    BY <1>1, <1>2, PacketsStep
<1>4. RoutesKnown'
    BY <1>1, <1>2, RoutesStep
<1>5. MessagesWithin'
    BY <1>1, <1>2, MessagesStay
<1>6. WiresHold'
    BY <1>1 DEF WiresHold
<1> QED BY <1>3, <1>4, <1>5, <1>6 DEF Undisturbed

\* A packet read that teaches nothing.
LEMMA ReadStep ==
    ASSUME RoutingInvariant, Undisturbed, NEW n \in Nodes, NEW p \in Packet,
           UNCHANGED <<wire, channels, data>>, UNCHANGED tableVars, \A out : AddedBy(n, out)
    PROVE  Undisturbed'
<1>1. /\ Tables /\ Messages /\ WiresHold /\ PacketsKnown /\ RoutesKnown /\ MessagesWithin
      /\ UNCHANGED <<channels, siblings, routes>>
    BY DEF RoutingInvariant, Undisturbed, tableVars
<1>2. KnowledgeKept
    BY <1>1, StillKnown
<1>3. PICK out : out = Nothing
    OBVIOUS
<1>4. Sends(out, {}, p)
    BY <1>3, OutTypes
<1>5. \A b \in Nodes : \A q \in Range(out[b]) : PacketKnown(n, b, q)'
    BY ONLY <1>4 DEF Sends
<1>6. PacketsKnown'
    BY <1>1, <1>2, <1>5, PacketsStep
<1>7. RoutesKnown'
    BY <1>1, <1>2 DEF RoutesKnown, Knows, KnownBy, Table
<1>8. MessagesWithin'
    BY <1>1, <1>2, MessagesStay
<1>9. WiresHold'
    BY <1>1 DEF WiresHold
<1> QED BY <1>6, <1>7, <1>8, <1>9 DEF Undisturbed

\* Reading a request, while nothing failed.
LEMMA RequestUndisturbed ==
    ASSUME RoutingInvariant, Undisturbed, NEW m \in Nodes, NEW n \in Nodes, ProcessRequest(m, n)
    PROVE  Undisturbed'
<1>1. Tables /\ ChannelsAreLinks /\ Control /\ PacketsKnown
    BY DEF RoutingInvariant, Undisturbed
<1>2. PICK p : p = Head(control[m][n])
    OBVIOUS
<1>3. UNCHANGED <<wire, channels, data>>
    BY DEF ProcessRequest, dataVars
<1>4. /\ p \in Packet /\ p.type = "request" /\ PacketFits(m, n, p) /\ m \in channels[n]
      /\ \/ (\A out : AddedBy(n, out)) /\ UNCHANGED tableVars
         \/ /\ p.initiator # n
            /\ UpdateTable(n, Learnt(n, p))
            /\ \E out : AddedBy(n, out) /\ OnRequest(n, m, p, out)
    BY <1>1, <1>2, RequestStep
<1>5. PacketKnown(m, n, p)
    <2>1. Readable(m, n)
        BY DEF ProcessRequest
    <2>2. p \in Range(control[m][n])
        BY <1>1, <1>2, <2>1, ReadTakes
    <2> QED BY <1>1, <2>2 DEF PacketsKnown
<1>6. CASE (\A out : AddedBy(n, out)) /\ UNCHANGED tableVars
    BY <1>3, <1>4, <1>6, ReadStep
<1>7. CASE /\ p.initiator # n
           /\ UpdateTable(n, Learnt(n, p))
           /\ \E out : AddedBy(n, out) /\ OnRequest(n, m, p, out)
    <2>1. PICK out : AddedBy(n, out) /\ OnRequest(n, m, p, out)
        BY <1>7
    <2>2. PICK t : t = Learnt(n, p)
        OBVIOUS
    <2>3. PICK back : back = Reverse(p.route)
        OBVIOUS
    <2>4. Grows(n, t) /\ NewRoutesBy(n, m, t) /\ KnownBy(t, p.initiator, back) /\ UpdateTable(n, t)
        <3>1. Grows(n, t) /\ TaughtBy(m, n, p, t) /\ KnownBy(t, p.initiator, Reverse(p.route))
            BY <1>4, <2>2, LearntGrows
        <3>2. NewRoutesBy(n, m, t)
            BY ONLY <1>5, <3>1, TaughtIsKnown
        <3> QED BY <1>7, <2>2, <2>3, <3>1, <3>2
    <2>5. Knows(n, p.initiator, back)'
        BY <1>1, <2>4, NewTable
    <2>6. ASSUME NEW b \in Nodes, NEW q \in Range(out[b]) PROVE PacketKnown(n, b, q)'
        <3>1. CASE b = m /\ q = Response(n, p)
            BY <1>4, <3>1, AnswerKnown
        <3>2. CASE n \in Gateways /\ n \notin Range(p.route) /\ q = Forwarded(n, p)
            <4>1. Knows(n, p.initiator, Reverse(p.route))'
                BY ONLY <2>3, <2>5
            <4> QED BY <1>4, <1>7, <3>2, <4>1, ForwardKnown
        <3> QED BY <2>1, <2>6, <3>1, <3>2 DEF OnRequest
    <2> QED BY <1>3, <1>4, <2>1, <2>4, <2>6, TaughtStep
<1> QED BY <1>4, <1>6, <1>7

\* Reading a response, while nothing failed.
LEMMA ResponseUndisturbed ==
    ASSUME RoutingInvariant, Undisturbed, NEW m \in Nodes, NEW n \in Nodes, ProcessResponse(m, n)
    PROVE  Undisturbed'
<1>1. Tables /\ ChannelsAreLinks /\ Control /\ PacketsKnown
    BY DEF RoutingInvariant, Undisturbed
<1>2. PICK p : p = Head(control[m][n])
    OBVIOUS
<1>3. UNCHANGED <<wire, channels, data>>
    BY DEF ProcessResponse, dataVars
<1>4. /\ p \in Packet /\ p.type = "response" /\ PacketFits(m, n, p) /\ m \in channels[n]
      /\ \/ (\A out : AddedBy(n, out)) /\ UNCHANGED tableVars
         \/ /\ UpdateTable(n, LearnFromResponse(n, p))
            /\ \E out : AddedBy(n, out) /\ OnResponse(n, p, out)
    BY <1>1, <1>2, ResponseStep
<1>5. PacketKnown(m, n, p)
    <2>1. Readable(m, n)
        BY DEF ProcessResponse
    <2>2. p \in Range(control[m][n])
        BY <1>1, <1>2, <2>1, ReadTakes
    <2> QED BY <1>1, <2>2 DEF PacketsKnown
<1>6. CASE (\A out : AddedBy(n, out)) /\ UNCHANGED tableVars
    BY <1>3, <1>4, <1>6, ReadStep
<1>7. CASE /\ UpdateTable(n, LearnFromResponse(n, p))
           /\ \E out : AddedBy(n, out) /\ OnResponse(n, p, out)
    <2>1. PICK out : AddedBy(n, out) /\ OnResponse(n, p, out)
        BY <1>7
    <2>2. PICK t : t = LearnFromResponse(n, p)
        OBVIOUS
    <2>3. PICK i \in 0 .. Len(p.route) : OnTheWay(m, n, p, i)
        <3>1. PICK i \in 0 .. Len(p.route) : PlaceOf(m, n, p, i)
            BY <1>4, ResponsePlace
        <3> QED BY <3>1 DEF PlaceOf
    <2>4. PICK rest : rest = SubSeq(p.route, i + 1, Len(p.route))
        OBVIOUS
    <2>5. Grows(n, t) /\ NewRoutesBy(n, m, t) /\ KnownBy(t, p.responder, rest) /\ UpdateTable(n, t)
        <3>1. /\ Grows(n, t) /\ TaughtBy(m, n, p, t)
              /\ KnownBy(t, p.responder, SubSeq(p.route, i + 1, Len(p.route)))
            BY <1>4, <2>2, <2>3, TaughtGrows
        <3>2. NewRoutesBy(n, m, t)
            BY ONLY <1>5, <3>1, TaughtIsKnown
        <3> QED BY <1>7, <2>2, <2>4, <3>1, <3>2
    <2>6. Knows(n, p.responder, rest)'
        BY <1>1, <2>5, NewTable
    <2>7. ASSUME NEW b \in Nodes, NEW q \in Range(out[b]) PROVE PacketKnown(n, b, q)'
        <3>1. n # p.initiator /\ b = Addressee(n, p) /\ q = p
            BY <2>1, <2>7 DEF OnResponse
        <3>2. Knows(n, p.responder, SubSeq(p.route, i + 1, Len(p.route)))'
            BY ONLY <2>4, <2>6
        <3>3. PacketKnown(n, Addressee(n, p), p)'
            BY <1>4, <2>3, <3>1, <3>2, PassedKnown
        <3> QED BY ONLY <3>1, <3>3
    <2> QED BY <1>3, <1>4, <2>1, <2>5, <2>7, TaughtStep
<1> QED BY <1>4, <1>6, <1>7

\* No unreachable packet is in flight while nothing failed.
LEMMA UnreachableUndisturbed ==
    ASSUME RoutingInvariant, Undisturbed, NEW m \in Nodes, NEW n \in Nodes
    PROVE  ~ProcessUnreachable(m, n)
<1> SUFFICES ASSUME ProcessUnreachable(m, n) PROVE FALSE
    OBVIOUS
<1>1. Control /\ PacketsKnown
    BY DEF RoutingInvariant, Undisturbed
<1>2. PICK p : p = Head(control[m][n])
    OBVIOUS
<1>3. Readable(m, n) /\ p.type = "unreachable"
    BY <1>2 DEF ProcessUnreachable
<1>4. p \in Range(control[m][n])
    BY <1>1, <1>2, <1>3, ReadTakes
<1> QED BY <1>1, <1>3, <1>4 DEF PacketsKnown, PacketKnown

\* A channel established, while nothing failed: the new neighbour is known, and
\* what is announced of it and of the others is.
LEMMA EstablishedUndisturbed ==
    ASSUME RoutingInvariant, Undisturbed, NEW n \in Nodes, NEW m \in Nodes, OnChannelEstablished(n, m)
    PROVE  Undisturbed'
<1>1. /\ Tables /\ Control /\ Messages /\ WiresHold /\ PacketsKnown /\ RoutesKnown /\ MessagesWithin
    BY DEF RoutingInvariant, Undisturbed
<1>2. PICK t : t = AddSibling(Table(n), m)
    OBVIOUS
<1>3. /\ channels' = [channels EXCEPT ![n] = @ \cup {m}]
      /\ UpdateTable(n, t)
      /\ wire \subseteq wire' /\ {n, m} \in wire'
      /\ UNCHANGED data
    BY <1>2 DEF OnChannelEstablished, Connected, dataVars
<1>4. /\ channels'[n] = channels[n] \cup {m}
      /\ \A k \in Nodes : k # n => channels'[k] = channels[k]
    BY <1>1, <1>3 DEF Tables
<1>5. Grows(n, t) /\ NewRoutesBy(n, m, t)
    <2>1. Grows(n, t) /\ t.routes \subseteq routes[n]
        BY ONLY <1>2, AddSiblingGrows
    <2> QED BY ONLY <2>1 DEF NewRoutesBy
<1>6. KnowledgeKept
    BY <1>1, <1>3, <1>4, <1>5, GrowthKeeps
<1>7. PacketsKnown'
    <2>1. PICK out : /\ AddedBy(n, out) /\ Puts(n, out)
                     /\ \A b \in Nodes : \A p \in Range(out[b]) : b = m /\ m \in Gateways /\ Announces(n, m, p)
        BY <1>1, EstablishedAdds
    <2>2. channels[n] \subseteq siblings'[n]
        <3>1. siblings'[n] = t.siblings /\ t.siblings = Table(n).siblings \cup {m}
            BY <1>1, <1>2, <1>3, NewTable DEF AddSibling
        <3> QED BY <1>1, <3>1, TableOf
    <2>3. ASSUME NEW b \in Nodes, NEW p \in Range(out[b]) PROVE PacketKnown(n, b, p)'
        <3>1. b = m /\ Announces(n, m, p)
            BY <2>1, <2>3
        <3>2. PacketKnown(n, m, p)'
            BY ONLY <2>2, <3>1, n \in Nodes, m \in Nodes, AnnouncementKnown
        <3> QED BY ONLY <3>1, <3>2
    <2> QED BY <1>1, <1>6, <2>1, <2>3, PacketsStep
<1>8. RoutesKnown'
    BY <1>1, <1>3, <1>4, <1>5, <1>6, RoutesStep
<1>9. MessagesWithin'
    BY <1>1, <1>3, <1>6, MessagesStay
<1>10. WiresHold'
    BY <1>1, <1>3, <1>4 DEF WiresHold
<1> QED BY <1>7, <1>8, <1>9, <1>10 DEF Undisturbed

\* No channel is found destroyed while nothing failed.
LEMMA DestroyedUndisturbed ==
    ASSUME Undisturbed, NEW n \in Nodes, NEW m \in Nodes
    PROVE  ~OnChannelDestroyed(n, m)
BY DEF Undisturbed, WiresHold, OnChannelDestroyed

\* All but the messages as it was.
LEMMA OnlyMessages ==
    ASSUME Undisturbed, UNCHANGED <<wire, channels, control, siblings, routes>>, MessagesWithin'
    PROVE  Undisturbed'
<1>1. WiresHold /\ PacketsKnown /\ RoutesKnown
    BY DEF Undisturbed
<1>2. WiresHold'
    BY <1>1 DEF WiresHold
<1>3. RoutesKnown'
    BY <1>1 DEF RoutesKnown, Knows, KnownBy, Table
<1>4. PacketsKnown'
    BY <1>1 DEF PacketsKnown, PacketKnown, Knows, KnownBy, Table
<1> QED BY <1>2, <1>3, <1>4 DEF Undisturbed

\* A message that has come one hop further, among the others.
LEMMA MessagesGoOn ==
    ASSUME Tables, Messages, RoutesKnown, MessagesWithin, UNCHANGED <<channels, siblings, routes>>,
           NEW n \in Nodes, NEW d, NEW hop \in NextHops(n, d.receiver),
           Len(d.path) \in Nat, d.hops \in Int, Within(n, d.receiver, d.hops - (Len(d.path) - 1)),
           \A e \in data' : e \in data \/ SentOn(d, e, n, hop)
    PROVE  MessagesWithin'
<1>1. ASSUME NEW e \in data' PROVE MessageWithin(e)
    <2>1. CASE e \in data
        BY <2>1 DEF MessagesWithin
    <2>2. CASE SentOn(d, e, n, hop)
        BY <2>2, SentWithin
    <2> QED BY <1>1, <2>1, <2>2
<1>2. ASSUME NEW e, MessageWithin(e) PROVE MessageWithin(e)'
    BY <1>2 DEF MessageWithin, Within
<1> QED BY ONLY <1>1, <1>2 DEF MessagesWithin

\* Sending a message, while nothing failed.
LEMMA EnqueueDataUndisturbed ==
    ASSUME RoutingInvariant, Undisturbed, NEW n \in Nodes, NEW m \in Nodes, EnqueueData(n, m)
    PROVE  Undisturbed'
<1>1. Tables /\ Messages /\ RoutesKnown /\ MessagesWithin
    BY DEF RoutingInvariant, Undisturbed
<1>2. UNCHANGED <<wire, channels, control, siblings, routes>>
    BY DEF EnqueueData, netVars, tableVars
<1>3. PICK d, hop :
          /\ d.receiver = m /\ Len(d.path) = 1 /\ d.hops = Distance(n, m)
          /\ hop \in NextHops(n, m)
          /\ \A e \in data' : e \in data \/ SentOn(d, e, n, hop)
    BY <1>1, EnqueueDataStep
<1>4. Distance(n, m) \in Int /\ Within(n, m, Distance(n, m))
    BY <1>1, <1>3, HopReaches, DistanceIsWay
<1>5. d.hops - (Len(d.path) - 1) = Distance(n, m) /\ d.hops \in Int /\ Len(d.path) \in Nat
    BY <1>3, <1>4
<1>6. MessagesWithin'
    BY <1>1, <1>2, <1>3, <1>4, <1>5, MessagesGoOn
<1> QED BY <1>2, <1>6, OnlyMessages

\* Reading a message, while nothing failed.
LEMMA OnDataUndisturbed ==
    ASSUME RoutingInvariant, Undisturbed, NEW d \in data, OnData(d)
    PROVE  Undisturbed'
<1>1. Tables /\ Messages /\ RoutesKnown /\ MessagesWithin
    BY DEF RoutingInvariant, Undisturbed
<1>2. UNCHANGED <<wire, channels, control, siblings, routes>>
    BY DEF OnData, netVars, tableVars
<1>3. /\ Len(d.path) \in Nat /\ Last(d.path) \in Nodes
      /\ \/ data' \subseteq data
         \/ \E hop \in NextHops(Last(d.path), d.receiver) :
                /\ d.receiver # Last(d.path)
                /\ \A e \in data' : e \in data \/ SentOn(d, e, Last(d.path), hop)
    BY <1>1, OnDataStep
<1>4. MessageWithin(d)
    BY <1>1 DEF MessagesWithin
<1>5. CASE data' \subseteq data
    <2>1. KnowledgeKept
        BY <1>2, StillKnown
    <2>2. MessagesWithin'
        BY <1>1, <1>5, <2>1, MessagesStay
    <2> QED BY <1>2, <2>2, OnlyMessages
<1>6. CASE \E hop \in NextHops(Last(d.path), d.receiver) :
               /\ d.receiver # Last(d.path)
               /\ \A e \in data' : e \in data \/ SentOn(d, e, Last(d.path), hop)
    <2>1. PICK n \in Nodes : n = Last(d.path)
        BY <1>3
    <2>2. PICK hop \in NextHops(n, d.receiver) :
              /\ d.receiver # n
              /\ \A e \in data' : e \in data \/ SentOn(d, e, n, hop)
        BY <1>6, <2>1
    <2>3. d.hops \in Int /\ Within(n, d.receiver, d.hops - (Len(d.path) - 1))
        BY <1>4, <2>1, <2>2 DEF MessageWithin
    <2>4. MessagesWithin'
        BY <1>1, <1>2, <1>3, <2>2, <2>3, MessagesGoOn
    <2> QED BY <1>2, <2>4, OnlyMessages
<1> QED BY <1>3, <1>5, <1>6

\* In the beginning nothing is known, and nothing is on its way.
LEMMA InitUndisturbed == Init => Undisturbed
<1> SUFFICES ASSUME Init PROVE Undisturbed
    OBVIOUS
<1>1. WiresHold /\ RoutesKnown /\ MessagesWithin
    BY DEF Init, WiresHold, RoutesKnown, MessagesWithin
<1>2. PacketsKnown
    <2>1. Range(<<>>) = {}
        BY DEF Range
    <2>2. PICK none : none = <<>> /\ Range(none) = {}
        BY <2>1
    <2>3. control = [m \in Nodes |-> [n \in Nodes |-> none]]
        BY <2>2 DEF Init
    <2> QED BY <2>2, <2>3 DEF PacketsKnown
<1> QED BY <1>1, <1>2 DEF Undisturbed

UntilFailure == breaks = 0 => Undisturbed

\* Until a connection fails, no step takes knowledge of a route from the nodes on
\* it: every handler that can run keeps it.
LEMMA NextUndisturbed == RoutingInvariant /\ UntilFailure /\ [Next]_vars => UntilFailure'
<1> SUFFICES ASSUME RoutingInvariant, breaks = 0 => Undisturbed, [Next]_vars, breaks' = 0
             PROVE  Undisturbed'
    BY DEF UntilFailure
<1>1. breaks \in Nat
    BY RoutingAssumption DEF RoutingInvariant, Counters, RoutingAssumption
<1>2. ASSUME NEW n \in Nodes, NEW m \in Nodes PROVE ~Break(n, m)
    BY <1>1 DEF Break
<1>3. breaks' = breaks
    <2>1. \A n, m \in Nodes : OnChannelEstablished(n, m) => breaks' = breaks
        BY DEF OnChannelEstablished
    <2>2. \A n, m \in Nodes : OnChannelDestroyed(n, m) => breaks' = breaks
        BY DEF OnChannelDestroyed
    <2>3. \A n, m \in Nodes : Receive(m, n) => breaks' = breaks
        BY DEF Receive, ProcessRequest, ProcessResponse, ProcessUnreachable
    <2>4. \A n, m \in Nodes : EnqueueData(n, m) => breaks' = breaks
        BY DEF EnqueueData
    <2>5. \A d \in data : OnData(d) => breaks' = breaks
        BY DEF OnData
    <2>6. UNCHANGED vars => breaks' = breaks
        BY DEF vars
    <2> QED BY <1>2, <2>1, <2>2, <2>3, <2>4, <2>5, <2>6 DEF Next
<1>4. Undisturbed
    BY <1>3
<1>5. ASSUME NEW n \in Nodes, NEW m \in Nodes, OnChannelEstablished(n, m) PROVE Undisturbed'
    BY <1>4, <1>5, EstablishedUndisturbed
<1>6. ASSUME NEW n \in Nodes, NEW m \in Nodes, Receive(m, n) PROVE Undisturbed'
    BY <1>4, <1>6, RequestUndisturbed, ResponseUndisturbed, UnreachableUndisturbed DEF Receive
<1>7. ASSUME NEW n \in Nodes, NEW m \in Nodes, EnqueueData(n, m) PROVE Undisturbed'
    BY <1>4, <1>7, EnqueueDataUndisturbed
<1>8. ASSUME NEW d \in data, OnData(d) PROVE Undisturbed'
    BY <1>4, <1>8, OnDataUndisturbed
<1>9. ASSUME NEW n \in Nodes, NEW m \in Nodes PROVE ~OnChannelDestroyed(n, m)
    BY <1>4, DestroyedUndisturbed
<1>10. CASE UNCHANGED vars
    <2>1. UNCHANGED <<wire, channels, control, siblings, routes>> /\ UNCHANGED data
        BY <1>10 DEF vars, netVars, tableVars, dataVars
    <2>2. KnowledgeKept /\ Messages /\ MessagesWithin
        BY <1>4, <2>1, StillKnown DEF RoutingInvariant, Undisturbed
    <2>3. MessagesWithin'
        BY <2>1, <2>2, MessagesStay
    <2> QED BY <1>4, <2>1, <2>3, OnlyMessages
<1> QED BY <1>2, <1>5, <1>6, <1>7, <1>8, <1>9, <1>10 DEF Next

\* It holds in every state that can be reached before a connection fails.
THEOREM UndisturbedHolds == Spec => []UntilFailure
<1>1. Init => UntilFailure
    BY InitUndisturbed DEF UntilFailure
<1> QED BY <1>1, RoutingHolds, NextUndisturbed, PTL DEF Spec

\* While nothing failed, every route goes by a sibling that knows the rest.
LEMMA UndisturbedRoutes == RoutingInvariant /\ UntilFailure => NextHopKnowsRest
<1> SUFFICES ASSUME RoutingInvariant, Undisturbed, NEW n \in Nodes, NEW r \in routes[n],
                    NEW hop, hop = Head(r[2]), NEW rest, rest = Tail(r[2])
             PROVE  /\ hop \in siblings[n]
                    /\ r[1] \in siblings[hop] \/ (rest # <<>> /\ <<r[1], rest>> \in routes[hop])
    BY DEF NextHopKnowsRest, UntilFailure
<1>1. hop \in channels[n] /\ Knows(hop, r[1], rest)
    BY DEF Undisturbed, RoutesKnown
<1>2. siblings = channels
    BY DEF RoutingInvariant, Tables
<1> QED BY ONLY <1>1, <1>2 DEF Knows, KnownBy, Table

\* While nothing failed, the next hop of every stored route knows the rest of it.
THEOREM NextHopHolds == Spec => []NextHopKnowsRest
BY RoutingHolds, UndisturbedHolds, UndisturbedRoutes, PTL

\* While nothing failed, a message takes no more hops than the route it was
\* sent by, although the tables it meets may have changed since.
LEMMA UndisturbedData == RoutingInvariant /\ UntilFailure => DataWithinRoute
<1> SUFFICES ASSUME RoutingInvariant, Undisturbed, NEW d \in data,
                    NEW n, n = Last(d.path), n # d.receiver
             PROVE  /\ d.receiver \in Reachable(Table(n))
                    /\ Len(d.path) - 1 + Distance(n, d.receiver) <= d.hops
    BY DEF DataWithinRoute, UntilFailure
<1>1. Tables /\ Messages /\ MessageWithin(d)
    BY DEF RoutingInvariant, Undisturbed, MessagesWithin
<1>2. n \in Nodes /\ Len(d.path) \in Nat
    BY <1>1, MessageOnTheWay
<1>3. d.hops \in Int /\ Within(n, d.receiver, d.hops - (Len(d.path) - 1))
    BY <1>1 DEF MessageWithin
<1>4. d.hops - (Len(d.path) - 1) \in Int
    BY <1>2, <1>3
<1>5. /\ d.receiver \in Reachable(Table(n)) /\ Distance(n, d.receiver) \in Int
      /\ Distance(n, d.receiver) <= d.hops - (Len(d.path) - 1)
    BY <1>1, <1>2, <1>3, <1>4, WayIsDistance
<1> QED BY <1>2, <1>3, <1>5

\* While nothing failed, no message takes more hops than the route it started with.
THEOREM DataHolds == Spec => []DataWithinRoute
BY RoutingHolds, UndisturbedHolds, UndisturbedData, PTL

-----------------------------------------------------------------------------
(***************************************************************************)
(* Meshes without rings.                                                   *)
(***************************************************************************)

\* With a gateway, the set has all neighbours of it but n.
Spreads(S, n) ==
    \A y \in S \cap Gateways : \A z \in Nodes : {y, z} \in Links /\ z # n => z \in S

\* What n reaches by its neighbour m, from gateway to gateway.
Behind(n, m) == {x \in Nodes : \A S \in SUBSET Nodes : m \in S /\ Spreads(S, n) => x \in S}

\* No node reaches one gateway that it is linked to by another one: the gateways
\* are no ring, and an ordinary node joins each of their networks once.
NoRings ==
    \A n \in Nodes : \A m, k \in Gateways :
        m # k /\ {n, m} \in Links /\ {n, k} \in Links => k \notin Behind(n, m)

\* The smallest set that spreads from m.
LEMMA BehindIsLeast ==
    ASSUME NEW n, NEW m, NEW S \in SUBSET Nodes, m \in S, Spreads(S, n)
    PROVE  Behind(n, m) \subseteq S
BY DEF Behind

LEMMA BehindSpreads ==
    ASSUME NEW n, NEW m \in Nodes
    PROVE  /\ Behind(n, m) \subseteq Nodes /\ m \in Behind(n, m)
           /\ Spreads(Behind(n, m), n)
<1>1. Behind(n, m) \subseteq Nodes /\ m \in Behind(n, m)
    BY DEF Behind
<1>2. ASSUME NEW y \in Behind(n, m) \cap Gateways, NEW z \in Nodes, {y, z} \in Links, z # n
      PROVE  z \in Behind(n, m)
    <2> SUFFICES ASSUME NEW S \in SUBSET Nodes, m \in S, Spreads(S, n) PROVE z \in S
        BY DEF Behind
    <2>1. y \in S
        BY BehindIsLeast
    <2> QED BY <1>2, <2>1 DEF Spreads
<1> QED BY <1>1, <1>2 DEF Spreads

\* A node is not behind its neighbours.
LEMMA NotBehind ==
    ASSUME NEW n \in Nodes, NEW m \in Nodes, n # m
    PROVE  n \notin Behind(n, m)
<1>1. Spreads(Nodes \ {n}, n)
    BY DEF Spreads
<1>2. Behind(n, m) \subseteq Nodes \ {n}
    BY <1>1, BehindIsLeast
<1> QED BY <1>2

\* What n reaches by a node behind m is behind m.
LEMMA BehindBehind ==
    ASSUME NEW n \in Nodes, NEW m \in Nodes, NEW x \in Behind(n, m)
    PROVE  Behind(n, x) \subseteq Behind(n, m)
<1>1. Behind(n, m) \in SUBSET Nodes /\ Spreads(Behind(n, m), n)
    BY BehindSpreads
<1> QED BY <1>1, BehindIsLeast

\* What a gateway n reaches by m, another neighbour b of n reaches by n.
LEMMA BehindFurther ==
    ASSUME NoRings, NEW n \in Gateways, NEW m \in Nodes, NEW b \in Nodes,
           m # b, {n, m} \in Links, {n, b} \in Links
    PROVE  Behind(n, m) \subseteq Behind(b, n)
<1>1. n \in Nodes /\ n # m /\ n # b
    BY LinkEnds, RoutingAssumption DEF RoutingAssumption
<1>2. PICK S : S = Behind(b, n) \ {n}
    OBVIOUS
<1>3. Behind(b, n) \subseteq Nodes /\ n \in Behind(b, n) /\ Spreads(Behind(b, n), b)
    BY <1>1, BehindSpreads
<1>4. m \in S
    <2>1. m \in Behind(b, n)
        BY <1>3 DEF Spreads
    <2> QED BY <1>1, <1>2, <2>1
<1>5. Spreads(S, n)
    <2> SUFFICES ASSUME NEW y \in S \cap Gateways, NEW z \in Nodes, {y, z} \in Links, z # n
                 PROVE  z \in S
        BY DEF Spreads
    <2>1. y \in Behind(b, n) /\ y # n
        BY <1>2
    <2>2. z # b
        <3> SUFFICES ASSUME z = b PROVE FALSE
            OBVIOUS
        <3>1. {b, y} \in Links /\ {b, n} \in Links
            <4>1. {b, y} = {y, z} /\ {b, n} = {n, b}
                OBVIOUS
            <4> QED BY <4>1
        <3>2. y \notin Behind(b, n)
            BY <2>1, <3>1 DEF NoRings
        <3> QED BY <2>1, <3>2
    <2>3. z \in Behind(b, n)
        BY <1>3, <2>1, <2>2 DEF Spreads
    <2> QED BY <1>2, <2>3
<1>6. Behind(n, m) \subseteq S
    BY <1>2, <1>3, <1>4, <1>5, BehindIsLeast
<1> QED BY <1>2, <1>6

\* No gateway is on both sides of a link between gateways.
LEMMA GatewaysApart ==
    ASSUME NoRings, NEW m \in Gateways, NEW k \in Gateways, {m, k} \in Links,
           NEW x \in Gateways, x \in Behind(m, k)
    PROVE  x \notin Behind(k, m)
<1>1. m \in Nodes /\ k \in Nodes /\ m # k
    BY LinkEnds, RoutingAssumption DEF RoutingAssumption
<1>2. PICK S : S = {y \in Nodes : y \in Gateways => y \notin Behind(k, m)}
    OBVIOUS
<1>3. k \in S
    BY <1>1, <1>2, NotBehind
<1>4. Spreads(S, m)
    <2> SUFFICES ASSUME NEW y \in S \cap Gateways, NEW z \in Nodes, {y, z} \in Links, z # m,
                        z \in Gateways, z \in Behind(k, m)
                 PROVE  FALSE
        BY <1>2 DEF Spreads
    <2>1. {z, y} \in Links /\ {k, m} \in Links /\ y \in Nodes
        <3>1. {z, y} = {y, z} /\ {k, m} = {m, k}
            OBVIOUS
        <3> QED BY <1>2, <3>1
    <2>2. CASE y = k
        <3>1. z \notin Behind(k, m)
            BY <1>1, <2>1, <2>2 DEF NoRings
        <3> QED BY <3>1
    <2>3. CASE y # k
        <3>1. y \in Behind(k, m)
            BY <1>1, <2>1, <2>3, BehindSpreads DEF Spreads
        <3> QED BY <1>2, <3>1
    <2> QED BY <2>2, <2>3
<1>5. Behind(m, k) \subseteq S
    BY <1>2, <1>3, <1>4, BehindIsLeast
<1> QED BY <1>2, <1>5

\* An ordinary node gets behind a gateway by a gateway next to it.
LEMMA OrdinaryBehind ==
    ASSUME NEW n \in Nodes, NEW m \in Gateways, NEW w \in Behind(n, m), w \notin Gateways
    PROVE  \E y \in Behind(n, m) \cap Gateways : {y, w} \in Links
<1>1. m \in Nodes
    BY RoutingAssumption DEF RoutingAssumption
<1>2. Behind(n, m) \subseteq Nodes /\ m \in Behind(n, m) /\ Spreads(Behind(n, m), n)
    BY <1>1, BehindSpreads
<1> SUFFICES ASSUME \A y \in Behind(n, m) \cap Gateways : {y, w} \notin Links PROVE FALSE
    OBVIOUS
<1>3. PICK S : S = Behind(n, m) \ {w}
    OBVIOUS
<1>4. Spreads(S, n)
    <2> SUFFICES ASSUME NEW y \in S \cap Gateways, NEW z \in Nodes, {y, z} \in Links, z # n
                 PROVE  z \in S
        BY DEF Spreads
    <2>1. z \in Behind(n, m)
        BY <1>2, <1>3 DEF Spreads
    <2>2. z # w
        BY <1>3
    <2> QED BY <1>3, <2>1, <2>2
<1>5. S \in SUBSET Nodes /\ m \in S
    BY <1>2, <1>3
<1>6. Behind(n, m) \subseteq S
    BY <1>4, <1>5, BehindIsLeast
<1> QED BY <1>3, <1>6

\* From gateway to gateway there and back, past an ordinary node w: what is
\* behind k can be reached from w by k, and k by it.
LEMMA ThereAndBack ==
    ASSUME NEW w \in Nodes, w \notin Gateways, NEW n \in Nodes, NEW k \in Gateways,
           NEW x \in Gateways, x \in Behind(n, k)
    PROVE  x \in Behind(w, k) /\ k \in Behind(w, x)
<1>1. k \in Nodes /\ x \in Nodes /\ Gateways \subseteq Nodes
    BY RoutingAssumption DEF RoutingAssumption
<1>2. PICK S : S = {y \in Nodes : y \in Gateways => y \in Behind(w, k) /\ k \in Behind(w, y)}
    OBVIOUS
<1>3. k \in S
    BY <1>1, <1>2, BehindSpreads
<1>4. Spreads(S, n)
    <2> SUFFICES ASSUME NEW y \in S \cap Gateways, NEW z \in Nodes, {y, z} \in Links, z \in Gateways
                 PROVE  z \in Behind(w, k) /\ k \in Behind(w, z)
        BY <1>2 DEF Spreads
    <2>1. y \in Nodes /\ y \in Behind(w, k) /\ k \in Behind(w, y) /\ z # w /\ y # w
        BY <1>1, <1>2
    <2>2. z \in Behind(w, k)
        BY <1>1, <2>1, BehindSpreads DEF Spreads
    <2>3. {z, y} \in Links
        <3>1. {z, y} = {y, z}
            OBVIOUS
        <3> QED BY <3>1
    <2>4. y \in Behind(w, z)
        BY <2>1, <2>3, BehindSpreads DEF Spreads
    <2>5. k \in Behind(w, z)
        BY <2>1, <2>4, BehindBehind
    <2> QED BY <2>2, <2>5
<1>5. Behind(n, k) \subseteq S
    BY <1>2, <1>3, <1>4, BehindIsLeast
<1> QED BY <1>2, <1>5

\* No node is on both sides of a link between gateways.
LEMMA SidesApart ==
    ASSUME NoRings, NEW m \in Gateways, NEW k \in Gateways, {m, k} \in Links
    PROVE  Behind(m, k) \cap Behind(k, m) = {}
<1>1. m \in Nodes /\ k \in Nodes /\ m # k /\ Gateways \subseteq Nodes
    BY LinkEnds, RoutingAssumption DEF RoutingAssumption
<1> SUFFICES ASSUME NEW w \in Behind(m, k), w \in Behind(k, m) PROVE FALSE
    OBVIOUS
<1>2. w \in Nodes /\ w \notin Gateways
    BY <1>1, BehindSpreads, GatewaysApart
<1>3. PICK z \in Behind(m, k) \cap Gateways : {z, w} \in Links
    BY <1>1, <1>2, OrdinaryBehind
<1>4. PICK u \in Behind(k, m) \cap Gateways : {u, w} \in Links
    BY <1>1, <1>2, OrdinaryBehind
<1>5. z # u /\ z \in Nodes /\ u \in Nodes
    BY <1>1, <1>3, <1>4, GatewaysApart
<1>6. k \in Behind(w, z) /\ u \in Behind(w, m)
    BY <1>1, <1>2, <1>3, <1>4, ThereAndBack
<1>7. m \in Behind(w, k)
    <2>1. {k, m} \in Links
        <3>1. {k, m} = {m, k}
            OBVIOUS
        <3> QED BY <3>1
    <2>2. k \in Behind(w, k) /\ Spreads(Behind(w, k), w) /\ m # w
        BY <1>1, <1>2, BehindSpreads
    <2> QED BY <1>1, <2>1, <2>2 DEF Spreads
<1>8. m \in Behind(w, z)
    BY <1>1, <1>2, <1>5, <1>6, <1>7, BehindBehind
<1>9. u \in Behind(w, z)
    BY <1>1, <1>2, <1>5, <1>6, <1>8, BehindBehind
<1>10. {w, z} \in Links /\ {w, u} \in Links
    <2>1. {w, z} = {z, w} /\ {w, u} = {u, w}
        OBVIOUS
    <2> QED BY <1>3, <1>4, <2>1
<1> QED BY <1>2, <1>3, <1>4, <1>5, <1>9, <1>10 DEF NoRings

-----------------------------------------------------------------------------
(***************************************************************************)
(* What a node holds for true, and who backs it, after connections failed. *)
(***************************************************************************)

\* A packet from m tells n of nothing that n reaches otherwise than by m.
PacketStraight(m, n, p) ==
    /\ p.type = "request" =>
           /\ p.initiator \in Behind(n, m)
           /\ \A j \in 1 .. Len(p.route) : p.route[j] \in Behind(n, m)
    /\ p.type = "response" =>
           /\ p.responder # p.initiator
           /\ \A j \in 1 .. Len(p.route) : p.route[j] # p.responder
           /\ \A i \in 0 .. Len(p.route) : OnTheWay(m, n, p, i) =>
                  /\ p.responder \in Behind(n, m)
                  /\ \A j \in i + 1 .. Len(p.route) : p.route[j] \in Behind(n, m)
    /\ p.type = "unreachable" => m \in Gateways /\ p.gw \in Behind(n, m) /\ p.id \in Behind(n, m)

PacketsStraight == \A m, n \in Nodes : \A p \in Range(control[m][n]) : PacketStraight(m, n, p)

\* A route goes by a neighbour, and meets no node twice.
RouteStraight(n, r) ==
    /\ Head(r[2]) \in channels[n]
    /\ Once(r[2])
    /\ r[1] \in Behind(n, Head(r[2]))
    /\ \A j \in 1 .. Len(r[2]) : r[2][j] \in Behind(n, Head(r[2]))

RoutesStraight == \A n \in Nodes : \A r \in routes[n] : RouteStraight(n, r)

\* Where packets are in flight, the receiver holds a channel or will get one.
QueuesOpen == \A m, n \in Nodes : control[m][n] # <<>> => m \in channels[n] \/ {n, m} \in wire

\* Over a live connection, a node that was told of something by the other one, or
\* will be, is in the channels of that one.
Heard ==
    \A m, n \in Nodes :
        {n, m} \in wire /\ (control[m][n] # <<>> \/ \E r \in routes[n] : Head(r[2]) = m)
            => n \in channels[m]

\* That one can reach dest by m and the rest: n has it in its table, or packet
\* number i from m will teach it.
Claim(m, n, i, dest, rest) ==
    \/ i = 0 /\ \E r \in routes[n] : Head(r[2]) = m /\ dest = r[1] /\ rest = Tail(r[2])
    \/ i \in 1 .. Len(control[m][n]) /\ Teaches(m, n, control[m][n][i], dest, rest)

\* The packet disables the route.
News(p, dest, rest) == p.type = "unreachable" /\ (p.id = dest \/ p.id \in Range(rest))

\* Either m knows the rest itself, or the news is behind packet number i.
Backed(m, n, i, dest, rest) ==
    \/ Knows(m, dest, rest)
    \/ \E j \in i + 1 .. Len(control[m][n]) : News(control[m][n][j], dest, rest)

AllBacked(m, n) ==
    \A i \in 0 .. Len(control[m][n]) : \A dest, rest :
        Claim(m, n, i, dest, rest) => Backed(m, n, i, dest, rest)

Backing == \A m, n \in Nodes : {n, m} \in wire => AllBacked(m, n)

Credible == PacketsStraight /\ RoutesStraight /\ QueuesOpen /\ Heard /\ Backing

\* What is claimed and backed stays so for one node that hears another one.
LEMMA BackedStep ==
    ASSUME NEW m \in Nodes, NEW n \in Nodes, AllBacked(m, n),
           control[m][n] \in Seq(Packet), control'[m][n] \in Seq(Packet),
           NEW s, NEW more \in Seq(Packet), Carried(control[m][n], control'[m][n], s, more),
           \A i \in 0 .. Len(control[m][n]) : \A dest, rest :
               Claim(m, n, i, dest, rest) /\ Knows(m, dest, rest) =>
                   Knows(m, dest, rest)' \/ \E j \in 1 .. Len(more) : News(more[j], dest, rest),
           \A j \in 1 .. Len(more) : \A dest, rest :
               Teaches(m, n, more[j], dest, rest) => Knows(m, dest, rest)',
           \A r \in routes'[n] : Head(r[2]) = m =>
               \/ r \in routes[n] /\ (s = 1 => ~News(control[m][n][1], r[1], Tail(r[2])))
               \/ s = 1 /\ Teaches(m, n, control[m][n][1], r[1], Tail(r[2]))
    PROVE  AllBacked(m, n)'
<1>1. PICK old, new : old = control[m][n] /\ new = control'[m][n]
    OBVIOUS
<1>2. PICK size \in Nat, added \in Nat : size = Len(old) /\ added = Len(more)
    BY <1>1, LenProperties
<1>3. /\ s \in {0, 1} /\ s <= size
      /\ Len(new) = (size - s) + added
      /\ \A i \in 1 .. size - s : new[i] = old[i + s]
      /\ \A i \in 1 .. added : new[(size - s) + i] = more[i]
    BY <1>1, <1>2 DEF Carried
<1>4. ASSUME NEW i \in 0 .. size, NEW dest, NEW rest, Claim(m, n, i, dest, rest),
             NEW k \in 0 .. size - s, k = i - s \/ (i = 0 /\ k = 0 /\ (s = 1 => ~News(old[1], dest, rest)))
      PROVE  Backed(m, n, k, dest, rest)'
    <2>1. Backed(m, n, i, dest, rest)
        BY <1>1, <1>2, <1>4 DEF AllBacked
    <2>2. CASE \E j \in 1 .. added : News(more[j], dest, rest)
        <3>1. PICK j \in 1 .. added : News(more[j], dest, rest)
            BY <2>2
        <3>2. (size - s) + j \in k + 1 .. Len(new) /\ new[(size - s) + j] = more[j]
            BY <1>2, <1>3, <3>1
        <3> QED BY <1>1, <3>1, <3>2 DEF Backed
    <2>3. CASE Knows(m, dest, rest)
        <3>1. Knows(m, dest, rest)' \/ \E j \in 1 .. added : News(more[j], dest, rest)
            BY <1>1, <1>2, <1>4, <2>3
        <3> QED BY <2>2, <3>1 DEF Backed
    <2>4. CASE \E j \in i + 1 .. size : News(old[j], dest, rest)
        <3>1. PICK j \in i + 1 .. size : News(old[j], dest, rest)
            BY <2>4
        <3>2. j # s \/ s = 0
            <4> SUFFICES ASSUME j = s, s = 1 PROVE FALSE
                BY <1>3
            <4>1. i = 0 /\ k = i
                BY <1>2, <1>4, <3>1
            <4> QED BY <1>4, <3>1, <4>1
        <3>3. j - s \in k + 1 .. Len(new) /\ j - s \in 1 .. size - s /\ (j - s) + s = j
            BY <1>2, <1>3, <1>4, <3>1, <3>2
        <3>4. new[j - s] = old[j]
            BY <1>3, <3>3
        <3> QED BY <1>1, <3>1, <3>3, <3>4 DEF Backed
    <2> QED BY <1>1, <1>2, <2>1, <2>3, <2>4 DEF Backed
<1>5. ASSUME NEW k \in 0 .. Len(new), NEW dest, NEW rest, Claim(m, n, k, dest, rest)'
      PROVE  Backed(m, n, k, dest, rest)'
    <2>1. CASE k = 0
        <3>1. PICK r \in routes'[n] : Head(r[2]) = m /\ dest = r[1] /\ rest = Tail(r[2])
            BY <1>5, <2>1 DEF Claim
        <3>2. CASE r \in routes[n] /\ (s = 1 => ~News(control[m][n][1], r[1], Tail(r[2])))
            <4>1. Claim(m, n, 0, dest, rest)
                BY <3>1, <3>2 DEF Claim
            <4>2. 0 \in 0 .. size /\ 0 \in 0 .. size - s
                BY <1>2, <1>3
            <4> QED BY <1>1, <1>4, <2>1, <3>1, <3>2, <4>1, <4>2
        <3>3. CASE s = 1 /\ Teaches(m, n, control[m][n][1], r[1], Tail(r[2]))
            <4>1. 1 \in 0 .. size /\ 1 \in 1 .. Len(control[m][n]) /\ 0 \in 0 .. size - s /\ 0 = 1 - s
                BY <1>1, <1>2, <1>3, <3>3
            <4>2. Claim(m, n, 1, dest, rest)
                BY <3>1, <3>3, <4>1 DEF Claim
            <4> QED BY <1>4, <2>1, <4>1, <4>2
        <3> QED BY <3>1, <3>2, <3>3
    <2>2. CASE k # 0 /\ k \in 1 .. size - s
        <3>1. k + s \in 0 .. size /\ k + s \in 1 .. size /\ k \in 0 .. size - s /\ k = (k + s) - s
            BY <1>2, <1>3, <2>2
        <3>2. Teaches(m, n, new[k], dest, rest) /\ new[k] = old[k + s]
            BY <1>1, <1>3, <1>5, <2>2 DEF Claim
        <3>3. Claim(m, n, k + s, dest, rest)
            BY <1>1, <1>2, <3>1, <3>2 DEF Claim
        <3> QED BY <1>4, <3>1, <3>3
    <2>3. CASE k # 0 /\ k \notin 1 .. size - s
        <3>1. k - (size - s) \in 1 .. added /\ k = (size - s) + (k - (size - s))
            BY <1>2, <1>3, <2>3
        <3>2. Teaches(m, n, new[k], dest, rest) /\ new[k] = more[k - (size - s)]
            <4>1. Teaches(m, n, new[k], dest, rest)
                BY <1>1, <1>5, <2>3 DEF Claim
            <4> QED BY <1>3, <3>1, <4>1
        <3>3. Knows(m, dest, rest)'
            BY <1>2, <3>1, <3>2
        <3> QED BY <3>3 DEF Backed
    <2> QED BY <2>1, <2>2, <2>3
<1> QED BY <1>1, <1>5 DEF AllBacked

\* What a packet teaches is straight: it goes by the sender, a gateway, and
\* meets no node twice.
LEMMA TeachesStraight ==
    ASSUME NEW m \in Nodes, NEW n \in Nodes, NEW p \in Packet, PacketFits(m, n, p), PacketStraight(m, n, p),
           NEW dest, NEW rest, Teaches(m, n, p, dest, rest)
    PROVE  /\ m \in Gateways /\ dest \in Behind(n, m)
           /\ rest \in Seq(Gateways) /\ Once(rest)
           /\ \A j \in 1 .. Len(rest) : rest[j] \in Behind(n, m) /\ rest[j] # m
<1>1. CASE p.type = "request"
    <2>1. p.route \in Seq(Gateways) /\ p.route # <<>> /\ p.initiator \in Nodes
        BY <1>1, RouteFields DEF Teaches
    <2>2. PICK size \in Nat : size = Len(p.route) /\ size # 0
        BY <2>1, ChainType
    <2>3. /\ Once(p.route) /\ Runs(p.initiator, p.route, n) /\ m = p.route[size]
        BY <1>1, <2>2 DEF PacketFits, RouteFits, Hop
    <2>4. PICK back : back = Reverse(p.route)
        OBVIOUS
    <2>5. /\ back \in Seq(Gateways) /\ Len(back) = size /\ back # <<>>
          /\ \A j \in 1 .. size : back[j] = p.route[(size - j) + 1]
        <3>1. back \in Seq(Gateways) /\ Len(back) = size /\ back # <<>>
            BY <2>1, <2>2, <2>3, <2>4, ReverseRuns
        <3>2. back = [j \in 1 .. size |-> p.route[(size - j) + 1]]
            BY <2>2, <2>4 DEF Reverse
        <3> QED BY <3>1, <3>2
    <2>6. dest = p.initiator /\ rest = Tail(back)
        BY <1>1, <2>4 DEF Teaches
    <2>7. /\ rest \in Seq(Gateways) /\ Len(rest) = size - 1
          /\ \A j \in 1 .. size - 1 : rest[j] = p.route[size - j]
        <3>1. /\ rest \in Seq(Gateways) /\ Len(rest) = Len(back) - 1
              /\ \A j \in 1 .. Len(rest) : rest[j] = back[j + 1]
            BY ONLY <2>5, <2>6, HeadTailProperties
        <3>2. \A j \in 1 .. size - 1 : j + 1 \in 1 .. size /\ (size - (j + 1)) + 1 = size - j
            BY <2>2
        <3> QED BY <2>2, <2>5, <3>1, <3>2
    <2>8. \A i, j \in 1 .. size : p.route[i] = p.route[j] => i = j
        BY <2>2, <2>3 DEF Once
    <2>9. ASSUME NEW j \in 1 .. size - 1 PROVE rest[j] \in Behind(n, m) /\ rest[j] # m
        <3>1. size - j \in 1 .. size /\ size \in 1 .. size /\ size - j # size
            BY <2>2
        <3> QED BY <1>1, <2>2, <2>3, <2>7, <2>8, <3>1 DEF PacketStraight
    <2>10. Once(rest)
        <3> SUFFICES ASSUME NEW i \in 1 .. size - 1, NEW j \in 1 .. size - 1, rest[i] = rest[j] PROVE i = j
            BY <2>7 DEF Once
        <3>1. size - i \in 1 .. size /\ size - j \in 1 .. size
            BY <2>2
        <3>2. size - i = size - j
            BY <2>7, <2>8, <3>1
        <3> QED BY <2>2, <3>2
    <2>11. m \in Gateways /\ dest \in Behind(n, m)
        <3>1. p.route[size] \in Gateways
            BY <2>1, <2>2, ChainType
        <3> QED BY <1>1, <2>3, <2>6, <3>1 DEF PacketStraight
    <2> QED BY <2>7, <2>9, <2>10, <2>11
<1>2. CASE p.type = "response"
    <2>1. p.route \in Seq(Gateways) /\ Once(p.route)
        BY <1>2, ResponsePlace
    <2>2. PICK i \in 0 .. Len(p.route) :
              OnTheWay(m, n, p, i) /\ i # Len(p.route) /\ rest = SubSeq(p.route, i + 2, Len(p.route))
        BY <1>2 DEF Teaches
    <2>3. PICK size \in Nat : size = Len(p.route) /\ i \in 0 .. size - 1
        BY <2>1, <2>2, ChainType
    <2>4. m = p.route[i + 1] /\ m \in Gateways
        <3>1. i + 1 \in 1 .. size
            BY <2>3
        <3>2. m = p.route[i + 1]
            BY <2>2, <2>3, <3>1 DEF OnTheWay, Hop
        <3> QED BY <2>1, <2>3, <3>1, <3>2, ChainType
    <2>5. /\ rest \in Seq(Gateways) /\ Len(rest) = (size - i) - 1
          /\ \A j \in 1 .. (size - i) - 1 : rest[j] = p.route[(i + 1) + j]
        <3>1. i + 2 \in Int /\ size \in Int /\ \A j \in i + 2 .. size : p.route[j] \in Gateways
            BY <2>1, <2>3, ChainType
        <3>2. /\ rest \in Seq(Gateways)
              /\ Len(rest) = IF i + 2 <= size THEN size - (i + 2) + 1 ELSE 0
              /\ \A j \in 1 .. size - (i + 2) + 1 : rest[j] = p.route[(i + 2) + j - 1]
            BY <2>2, <2>3, <3>1, SubSeqProperties
        <3>3. Len(rest) = (size - i) - 1
            BY <2>3, <3>2
        <3>4. ASSUME NEW j \in 1 .. (size - i) - 1 PROVE rest[j] = p.route[(i + 1) + j]
            <4>1. j \in 1 .. size - (i + 2) + 1 /\ (i + 2) + j - 1 = (i + 1) + j
                BY <2>3
            <4> QED BY <3>2, <4>1
        <3> QED BY <3>2, <3>3, <3>4
    <2>6. /\ p.responder \in Behind(n, m) /\ dest = p.responder
          /\ \A j \in i + 1 .. size : p.route[j] \in Behind(n, m)
        BY <1>2, <2>2, <2>3 DEF PacketStraight, Teaches
    <2>7. \A k, j \in 1 .. size : p.route[k] = p.route[j] => k = j
        BY <2>1, <2>3 DEF Once
    <2>8. ASSUME NEW j \in 1 .. (size - i) - 1 PROVE rest[j] \in Behind(n, m) /\ rest[j] # m
        <3>1. /\ (i + 1) + j \in 1 .. size /\ i + 1 \in 1 .. size /\ (i + 1) + j # i + 1
              /\ (i + 1) + j \in i + 1 .. size
            BY <2>3
        <3> QED BY <2>4, <2>5, <2>6, <2>7, <3>1
    <2>9. Once(rest)
        <3> SUFFICES ASSUME NEW k \in 1 .. (size - i) - 1, NEW j \in 1 .. (size - i) - 1, rest[k] = rest[j]
                     PROVE  k = j
            BY <2>5 DEF Once
        <3>1. (i + 1) + k \in 1 .. size /\ (i + 1) + j \in 1 .. size
            BY <2>3
        <3>2. (i + 1) + k = (i + 1) + j
            BY <2>5, <2>7, <3>1
        <3> QED BY <2>3, <3>2
    <2> QED BY <2>4, <2>5, <2>6, <2>8, <2>9
<1> QED BY <1>1, <1>2 DEF Teaches

\* A chain by its first gateway and the rest.
LEMMA HeadAndRest ==
    ASSUME NEW chain \in Seq(Gateways), chain # <<>>
    PROVE  /\ Tail(chain) \in Seq(Gateways) /\ Len(Tail(chain)) = Len(chain) - 1
           /\ Head(chain) = chain[1] /\ Head(chain) \in Gateways
           /\ \A j \in 1 .. Len(Tail(chain)) : Tail(chain)[j] = chain[j + 1]
           /\ Range(chain) = {Head(chain)} \cup Range(Tail(chain))
<1>1. PICK rest : rest = Tail(chain)
    OBVIOUS
<1>2. /\ rest \in Seq(Gateways) /\ Len(rest) = Len(chain) - 1
      /\ \A j \in 1 .. Len(rest) : rest[j] = chain[j + 1]
    BY <1>1, HeadTailProperties
<1>3. PICK size \in Nat : size = Len(chain) /\ size # 0
    BY ChainType
<1>4. Head(chain) = chain[1] /\ chain[1] \in Gateways
    <2>1. 1 \in 1 .. Len(chain)
        BY <1>3
    <2> QED BY <2>1, ChainType
<1>5. Range(chain) = {chain[j] : j \in 1 .. size} /\ Range(rest) = {rest[j] : j \in 1 .. size - 1}
    BY <1>2, <1>3, RangeEquality
<1>6. ASSUME NEW j \in 1 .. size PROVE j = 1 \/ (j - 1 \in 1 .. size - 1 /\ (j - 1) + 1 = j)
    BY <1>3
<1>7. ASSUME NEW j \in 1 .. size - 1 PROVE j + 1 \in 1 .. size
    BY <1>3
<1>8. Range(chain) \subseteq {chain[1]} \cup Range(rest)
    <2> SUFFICES ASSUME NEW j \in 1 .. size, j # 1 PROVE chain[j] \in Range(rest)
        BY <1>5
    <2>1. j - 1 \in 1 .. size - 1 /\ (j - 1) + 1 = j
        BY <1>6
    <2>2. rest[j - 1] = chain[j]
        BY <1>2, <1>3, <2>1
    <2> QED BY <1>5, <2>1, <2>2
<1>9. {chain[1]} \cup Range(rest) \subseteq Range(chain)
    <2>1. chain[1] \in Range(chain)
        BY <1>3, <1>5
    <2>2. ASSUME NEW j \in 1 .. size - 1 PROVE rest[j] \in Range(chain)
        BY <1>2, <1>3, <1>5, <1>7
    <2> QED BY <1>5, <2>1, <2>2
<1> QED BY <1>1, <1>2, <1>4, <1>8, <1>9

\* What n claims m reaches is behind m, a gateway.
LEMMA ClaimStraight ==
    ASSUME Tables, Control, PacketsStraight, RoutesStraight, NEW m \in Nodes, NEW n \in Nodes,
           NEW i, NEW dest, NEW rest, Claim(m, n, i, dest, rest)
    PROVE  /\ m \in Gateways /\ dest \in Behind(n, m) /\ rest \in Seq(Gateways)
           /\ \A x \in Range(rest) : x \in Behind(n, m)
           /\ control[m][n] # <<>> \/ \E r \in routes[n] : Head(r[2]) = m
<1>1. CASE \E r \in routes[n] : Head(r[2]) = m /\ dest = r[1] /\ rest = Tail(r[2])
    <2>1. PICK r \in routes[n] : Head(r[2]) = m /\ dest = r[1] /\ rest = Tail(r[2])
        BY <1>1
    <2>2. r[2] \in Seq(Gateways) /\ r[2] # <<>> /\ RouteStraight(n, r)
        <3>1. TableFits(n, Table(n)) /\ Table(n).routes = routes[n]
            BY TableOf
        <3> QED BY <2>1, <3>1 DEF TableFits, RoutesStraight
    <2>3. /\ rest \in Seq(Gateways) /\ m \in Gateways
          /\ Range(r[2]) = {Head(r[2])} \cup Range(rest)
        BY <2>1, <2>2, HeadAndRest
    <2>4. Range(r[2]) = {r[2][j] : j \in 1 .. Len(r[2])}
        BY <2>2, RangeEquality
    <2> QED BY <2>1, <2>2, <2>3, <2>4 DEF RouteStraight
<1>2. CASE i \in 1 .. Len(control[m][n]) /\ Teaches(m, n, control[m][n][i], dest, rest)
    <2>1. control[m][n] \in Seq(Packet) /\ Range(control[m][n]) = {control[m][n][j] : j \in 1 .. Len(control[m][n])}
        <3>1. control[m][n] \in Seq(Packet)
            BY DEF Control, Queues
        <3> QED BY <3>1, RangeEquality
    <2>2. PICK p : p = control[m][n][i]
        OBVIOUS
    <2>3. p \in Range(control[m][n]) /\ p \in Packet
        BY <1>2, <2>1, <2>2, ElementOfSeq
    <2>4. PacketFits(m, n, p) /\ PacketStraight(m, n, p)
        BY <2>3 DEF Control, PacketsStraight
    <2>5. /\ m \in Gateways /\ dest \in Behind(n, m) /\ rest \in Seq(Gateways)
          /\ \A j \in 1 .. Len(rest) : rest[j] \in Behind(n, m)
        BY <1>2, <2>2, <2>3, <2>4, TeachesStraight
    <2>6. Range(rest) = {rest[j] : j \in 1 .. Len(rest)}
        BY <2>5, RangeEquality
    <2>7. control[m][n] # <<>>
        BY <1>2
    <2> QED BY <2>5, <2>6, <2>7
<1> QED BY <1>1, <1>2 DEF Claim

\* The answer to a request tells of its sender only.
LEMMA AnswerStraight ==
    ASSUME NEW m \in Nodes, NEW n \in Nodes, n # m,
           NEW p \in Packet, p.type = "request", PacketFits(m, n, p), PacketStraight(m, n, p)
    PROVE  PacketStraight(n, m, Response(n, p))
<1>1. p.route \in Seq(Gateways) /\ Len(p.route) \in Nat
    BY RouteFields, ChainType
<1>2. PICK q : q = Response(n, p)
    OBVIOUS
<1>3. q.type = "response" /\ q.initiator = p.initiator /\ q.responder = n /\ q.route = p.route
    BY <1>2, AnswerFits
<1>4. /\ Once(p.route) /\ \A j \in 1 .. Len(p.route) : p.route[j] # p.initiator
      /\ m = Hop(p.initiator, p.route, n, Len(p.route))
    BY DEF PacketFits, RouteFits
<1>5. n # p.initiator /\ \A j \in 1 .. Len(p.route) : p.route[j] # n
    BY NotBehind DEF PacketStraight
<1>6. n \in Behind(m, n)
    BY BehindSpreads
<1>7. ASSUME NEW i \in 0 .. Len(q.route), OnTheWay(n, m, q, i)
      PROVE  \A j \in i + 1 .. Len(q.route) : q.route[j] \in Behind(m, n)
    <2>1. m = Hop(p.initiator, p.route, q.responder, i) /\ i \in 0 .. Len(p.route)
        BY <1>3, <1>7 DEF OnTheWay
    <2>2. Len(p.route) \in 0 .. Len(p.route)
        BY <1>1
    <2>3. i = Len(p.route)
        BY <1>1, <1>4, <2>1, <2>2, PlaceOnce
    <2> QED BY <1>1, <1>3, <2>3
<1>8. PacketStraight(n, m, q)
    BY ONLY <1>3, <1>5, <1>6, <1>7 DEF PacketStraight
<1> QED BY <1>2, <1>8

\* A request goes on to where it does not come from.
LEMMA ForwardStraight ==
    ASSUME NoRings, NEW m \in Nodes, NEW n \in Gateways, NEW b \in Nodes, b # m,
           {n, m} \in Links, {n, b} \in Links,
           NEW p \in Packet, p.type = "request", PacketFits(m, n, p), PacketStraight(m, n, p),
           n # p.initiator, n \notin Range(p.route)
    PROVE  PacketStraight(n, b, Forwarded(n, p))
<1>1. p.route \in Seq(Gateways) /\ Len(p.route) \in Nat /\ n \in Nodes
    BY RouteFields, ChainType, RoutingAssumption DEF RoutingAssumption
<1>2. PICK q : q = Forwarded(n, p)
    OBVIOUS
<1>3. q.type = "request" /\ q.initiator = p.initiator /\ q.route = Append(p.route, n)
    BY <1>1, <1>2, ForwardFits
<1>4. Behind(n, m) \subseteq Behind(b, n) /\ n \in Behind(b, n)
    BY <1>1, BehindFurther, BehindSpreads
<1>5. /\ Len(q.route) = Len(p.route) + 1
      /\ \A j \in 1 .. Len(p.route) : q.route[j] = p.route[j]
      /\ q.route[Len(p.route) + 1] = n
    BY <1>1, <1>3, AppendProperties
<1>6. ASSUME NEW j \in 1 .. Len(q.route) PROVE q.route[j] \in Behind(b, n)
    <2>1. j \in 1 .. Len(p.route) \/ j = Len(p.route) + 1
        BY <1>1, <1>5
    <2> QED BY <1>4, <1>5, <2>1 DEF PacketStraight
<1>7. q.initiator \in Behind(b, n)
    BY <1>3, <1>4 DEF PacketStraight
<1>8. PacketStraight(n, b, q)
    BY ONLY <1>3, <1>6, <1>7 DEF PacketStraight
<1> QED BY <1>2, <1>8

\* A response goes back to where it does not come from.
LEMMA PassedStraight ==
    ASSUME NoRings, NEW m \in Nodes, NEW n \in Nodes, {n, m} \in Links,
           NEW p \in Packet, p.type = "response", PacketFits(m, n, p), PacketStraight(m, n, p),
           n # p.initiator, NEW b \in Nodes, b = Addressee(n, p), {n, b} \in Links
    PROVE  PacketStraight(n, b, p)
<1>1. /\ p.route \in Seq(Gateways) /\ Once(p.route)
      /\ \A j \in 1 .. Len(p.route) : p.route[j] # p.initiator
    BY ResponsePlace
<1>2. PICK size \in Nat : size = Len(p.route)
    BY <1>1, ChainType
<1>3. PICK i \in 0 .. size :
          /\ OnTheWay(m, n, p, i)
          /\ i # 0 => i \in 1 .. size /\ n = p.route[i] /\ n \in Gateways
          /\ m = IF i = size THEN p.responder ELSE p.route[i + 1]
    <2>1. PICK i \in 0 .. Len(p.route) : PlaceOf(m, n, p, i)
        BY ResponsePlace
    <2> QED BY ONLY <1>2, <2>1 DEF PlaceOf
<1>4. i # 0 /\ OnTheWay(n, b, p, i - 1) /\ i - 1 \in 0 .. size
    BY <1>2, <1>3, PassedOnFits
<1>5. b = IF i = 1 THEN p.initiator ELSE p.route[i - 1]
    <2>1. b = Hop(p.initiator, p.route, p.responder, i - 1)
        BY <1>4 DEF OnTheWay
    <2>2. i - 1 = 0 <=> i = 1
        BY <1>2, <1>3
    <2>3. i - 1 <= Len(p.route)
        BY <1>2, <1>3
    <2> QED BY <2>1, <2>2, <2>3 DEF Hop
<1>6. /\ p.responder # p.initiator /\ \A j \in 1 .. size : p.route[j] # p.responder
      /\ p.responder \in Behind(n, m)
      /\ \A j \in i + 1 .. size : p.route[j] \in Behind(n, m)
    BY <1>2, <1>3 DEF PacketStraight
<1>7. b # m
    <2>1. \A k, j \in 1 .. size : p.route[k] = p.route[j] => k = j
        BY <1>1, <1>2 DEF Once
    <2>2. i # 1 => i - 1 \in 1 .. size
        BY <1>2, <1>3, <1>4
    <2>3. i # size => i + 1 \in 1 .. size /\ i + 1 # i - 1
        BY <1>2, <1>3
    <2> QED BY <1>1, <1>2, <1>3, <1>5, <1>6, <2>1, <2>2, <2>3
<1>8. Behind(n, m) \subseteq Behind(b, n) /\ n \in Behind(b, n)
    BY <1>3, <1>4, <1>7, BehindFurther, BehindSpreads
<1>9. ASSUME NEW k \in 0 .. Len(p.route), OnTheWay(n, b, p, k)
      PROVE  /\ p.responder \in Behind(b, n)
             /\ \A j \in k + 1 .. Len(p.route) : p.route[j] \in Behind(b, n)
    <2>1. k = i - 1
        BY <1>1, <1>2, <1>4, <1>9, PlaceOnce DEF OnTheWay
    <2>2. ASSUME NEW j \in k + 1 .. size PROVE p.route[j] \in Behind(b, n)
        <3>1. j = i \/ j \in i + 1 .. size
            BY <1>2, <1>3, <2>1
        <3> QED BY <1>3, <1>4, <1>6, <1>8, <3>1
    <2> QED BY <1>2, <1>6, <1>8, <2>2
<1>10. p.type = "response" /\ p.responder # p.initiator /\ \A j \in 1 .. Len(p.route) : p.route[j] # p.responder
    BY <1>2, <1>6
<1> QED BY ONLY <1>9, <1>10 DEF PacketStraight

\* A gateway announces itself and its other neighbours.
LEMMA AnnouncementStraight ==
    ASSUME ChannelsAreLinks, NEW n \in Nodes, NEW m \in Nodes, {n, m} \in Links,
           channels[n] \subseteq Nodes, NEW p, Announces(n, m, p)
    PROVE  PacketStraight(n, m, p)
<1>1. n # m /\ n \in Behind(m, n) /\ Spreads(Behind(m, n), m)
    BY LinkEnds, BehindSpreads
<1>2. p.type = "request"
    BY DEF Announces
<1>3. CASE p.route = <<>> /\ p.initiator = n
    <2>1. Len(p.route) = 0
        BY <1>3
    <2> QED BY <1>1, <1>2, <1>3, <2>1 DEF PacketStraight
<1>4. CASE p.route = <<n>> /\ n \in Gateways /\ p.initiator \in channels[n] \ {m}
    <2>1. Len(p.route) = 1 /\ p.route[1] = n
        BY <1>4
    <2>2. {n, p.initiator} \in Links /\ p.initiator \in Nodes
        BY <1>4 DEF ChannelsAreLinks
    <2>3. p.initiator \in Behind(m, n)
        BY <1>1, <1>4, <2>2 DEF Spreads
    <2>4. \A j \in 1 .. Len(p.route) : p.route[j] \in Behind(m, n)
        <3>1. \A j \in 1 .. Len(p.route) : j = 1
            BY <2>1
        <3> QED BY <1>1, <2>1, <3>1
    <2> QED BY ONLY <1>2, <2>3, <2>4 DEF PacketStraight
<1> QED BY <1>3, <1>4 DEF Announces

\* The news of a lost neighbour, and the news passed on.
LEMMA NewsStraight ==
    ASSUME NoRings, NEW n \in Gateways, NEW m \in Nodes, NEW b \in Nodes, b # m,
           {n, m} \in Links, {n, b} \in Links, NEW p, p.type = "unreachable",
           (p.gw = n /\ p.id = m) \/ PacketStraight(m, n, p)
    PROVE  PacketStraight(n, b, p)
<1>1. n \in Nodes
    BY RoutingAssumption DEF RoutingAssumption
<1>2. Behind(n, m) \subseteq Behind(b, n) /\ n \in Behind(b, n) /\ m \in Behind(n, m)
    BY <1>1, BehindFurther, BehindSpreads
<1>3. p.gw \in Behind(b, n) /\ p.id \in Behind(b, n)
    BY <1>2 DEF PacketStraight
<1> QED BY <1>3 DEF PacketStraight

\* The routes of a node that learns what a packet teaches, or forgets some.
LEMMA RoutesStraightStep ==
    ASSUME Tables, RoutesStraight, NEW n \in Nodes, NEW m \in Nodes, m \in channels'[n],
           NEW p \in Packet, PacketFits(m, n, p), PacketStraight(m, n, p),
           NEW t, UpdateTable(n, t), TaughtBy(m, n, p, t), TableFits(n, t),
           \A k \in Nodes : channels[k] \subseteq channels'[k]
    PROVE  RoutesStraight'
<1>1. /\ routes'[n] = t.routes
      /\ \A k \in Nodes : k # n => routes'[k] = routes[k]
    BY NewTable
<1>2. ASSUME NEW k \in Nodes, NEW r \in routes[k] PROVE RouteStraight(k, r)'
    BY <1>2 DEF RoutesStraight, RouteStraight
<1>3. ASSUME NEW r \in t.routes, Head(r[2]) = m, Teaches(m, n, p, r[1], Tail(r[2]))
      PROVE  RouteStraight(n, r)'
    <2>1. PICK rest : rest = Tail(r[2])
        OBVIOUS
    <2>2. /\ r[1] \in Behind(n, m) /\ rest \in Seq(Gateways) /\ Once(rest)
          /\ \A j \in 1 .. Len(rest) : rest[j] \in Behind(n, m) /\ rest[j] # m
        BY <1>3, <2>1, TeachesStraight
    <2>3. r[2] \in Seq(Gateways) /\ r[2] # <<>>
        BY <1>3 DEF TableFits
    <2>4. PICK size \in Nat : size = Len(r[2]) /\ size # 0
        BY <2>3, ChainType
    <2>5. /\ Len(rest) = size - 1 /\ r[2][1] = m
          /\ \A j \in 1 .. size - 1 : rest[j] = r[2][j + 1]
        BY <1>3, <2>1, <2>3, <2>4, HeadAndRest
    <2>6. \A j \in 1 .. size : j = 1 \/ (j - 1 \in 1 .. size - 1 /\ (j - 1) + 1 = j)
        BY <2>4
    <2>7. ASSUME NEW j \in 1 .. size
          PROVE  r[2][j] \in Behind(n, m) /\ (j # 1 => r[2][j] # m /\ r[2][j] = rest[j - 1])
        <3>1. CASE j = 1
            BY <2>5, <3>1, BehindSpreads
        <3>2. CASE j # 1
            <4>1. j - 1 \in 1 .. size - 1 /\ (j - 1) + 1 = j
                BY <2>6, <3>2
            <4>2. rest[j - 1] = r[2][j]
                BY <2>5, <4>1
            <4> QED BY <2>2, <2>5, <3>2, <4>1, <4>2
        <3> QED BY <3>1, <3>2
    <2>8. Once(r[2])
        <3> SUFFICES ASSUME NEW i \in 1 .. size, NEW j \in 1 .. size, r[2][i] = r[2][j] PROVE i = j
            BY <2>4 DEF Once
        <3>1. CASE i = 1 \/ j = 1
            BY <2>5, <2>7, <3>1
        <3>2. CASE i # 1 /\ j # 1
            <4>1. i - 1 \in 1 .. Len(rest) /\ j - 1 \in 1 .. Len(rest) /\ rest[i - 1] = rest[j - 1]
                BY <2>5, <2>6, <2>7, <3>2
            <4>2. i - 1 = j - 1
                BY <2>2, <4>1 DEF Once
            <4> QED BY <2>4, <4>2
        <3> QED BY <3>1, <3>2
    <2> QED BY <1>3, <2>2, <2>4, <2>7, <2>8 DEF RouteStraight
<1>4. ASSUME NEW k \in Nodes, NEW r \in routes'[k] PROVE RouteStraight(k, r)'
    BY <1>1, <1>2, <1>3, <1>4 DEF TaughtBy
<1> QED BY <1>4 DEF RoutesStraight

-----------------------------------------------------------------------------
(***************************************************************************)
(* Packets read, after connections failed.                                 *)
(***************************************************************************)

\* What is in a queue was in it, or has been put into it.
LEMMA CarriedFrom ==
    ASSUME NEW old \in Seq(Packet), NEW new \in Seq(Packet), NEW more \in Seq(Packet), NEW s,
           Carried(old, new, s, more), new # <<>>
    PROVE  old # <<>> \/ more # <<>>
<1>1. Len(old) \in Nat /\ Len(new) \in Nat /\ Len(more) \in Nat
    BY LenProperties
<1>2. Len(new) # 0
    BY EmptySeq
<1>3. Len(old) # 0 \/ Len(more) # 0
    BY <1>1, <1>2 DEF Carried
<1>4. Len(<<>>) = 0
    OBVIOUS
<1> QED BY <1>3, <1>4

\* A table that stays as it is has been exchanged for itself.
LEMMA SameTable ==
    ASSUME Tables, NEW n \in Nodes, UNCHANGED tableVars
    PROVE  UpdateTable(n, Table(n)) /\ TableFits(n, Table(n))
<1>1. Told(n, Table(n), Table(n)) = view[n]
    BY DEF Told
<1>2. Table(n).siblings = siblings[n] /\ Table(n).routes = routes[n]
    BY DEF Table
<1>3. /\ siblings = [siblings EXCEPT ![n] = siblings[n]]
      /\ routes = [routes EXCEPT ![n] = routes[n]]
      /\ view = [view EXCEPT ![n] = view[n]]
    BY DEF Tables
<1>4. UpdateTable(n, Table(n))
    BY <1>1, <1>2, <1>3 DEF UpdateTable, tableVars
<1> QED BY <1>4, TableOf

\* A node reads a packet: it sends only what is straight and known, forgets what
\* the packet disables, and what else it forgets it tells those who heard of it.
LEMMA ReadCredible ==
    ASSUME RoutingInvariant, Credible, NEW m \in Nodes, NEW n \in Nodes, Readable(m, n),
           UNCHANGED <<wire, channels>>, NEW p, p = Head(control[m][n]),
           NEW t, UpdateTable(n, t), TableFits(n, t), TaughtBy(m, n, p, t),
           \A r \in t.routes : ~News(p, r[1], Tail(r[2])),
           NEW out, AddedBy(n, out), Moves(m, n, out),
           \A b \in Nodes : {n, b} \in Links => \A q \in Range(out[b]) :
               /\ PacketStraight(n, b, q)
               /\ \A dest, rest : Teaches(n, b, q, dest, rest) => Knows(n, dest, rest)',
           \A b \in channels[n] : \A dest, rest :
               /\ n \in Gateways /\ Knows(n, dest, rest)
               /\ dest \in Behind(b, n) /\ \A x \in Range(rest) : x \in Behind(b, n)
               => Knows(n, dest, rest)' \/ \E j \in 1 .. Len(out[b]) : News(out[b][j], dest, rest)
    PROVE  Credible'
<1>1. /\ Tables /\ ChannelsAreLinks /\ Control /\ m \in channels[n]
      /\ PacketsStraight /\ RoutesStraight /\ QueuesOpen /\ Heard /\ Backing
    BY DEF RoutingInvariant, Credible, Readable
<1>2. /\ p \in Packet /\ p \in Range(control[m][n]) /\ p = control[m][n][1]
      /\ PacketFits(m, n, p) /\ PacketStraight(m, n, p) /\ control[m][n] # <<>>
    <2>1. p \in Packet /\ p \in Range(control[m][n])
        BY <1>1, ReadTakes
    <2>2. control[m][n] \in Seq(Packet) /\ control[m][n] # <<>>
        BY <1>1 DEF Control, Queues, Readable
    <2>3. p = control[m][n][1]
        BY <2>2
    <2> QED BY <1>1, <2>1, <2>2, <2>3 DEF Control, PacketsStraight
<1>3. /\ routes'[n] = t.routes /\ siblings'[n] = t.siblings
      /\ \A k \in Nodes : k # n => siblings'[k] = siblings[k] /\ routes'[k] = routes[k]
    BY <1>1, NewTable
<1>4. \A x, y : {x, y} = {y, x}
    OBVIOUS
<1>5. /\ \A k, b \in Nodes : control[k][b] \in Seq(Packet) /\ control'[k][b] \in Seq(Packet)
      /\ \A b \in Nodes : out[b] \in Seq(Packet)
    BY <1>1 DEF Control, Queues, AddedBy, Moves
<1>6. ASSUME NEW k \in Nodes, NEW b \in Nodes
      PROVE  /\ Sent(n, out, k, b) \in Seq(Packet)
             /\ Sent(n, out, k, b) # <<>> => k = n /\ b \in channels[n] /\ {n, b} \in wire
             /\ k # n => Sent(n, out, k, b) = <<>>
             /\ b \in channels[n] /\ {n, b} \in wire => Sent(n, out, n, b) = out[b]
    <2>1. PICK none \in Seq(Packet) : none = <<>>
        <3>1. <<>> \in Seq(Packet)
            OBVIOUS
        <3> QED BY <3>1
    <2> QED BY <1>5, <2>1 DEF Sent
<1>7. PacketsStraight'
    <2> SUFFICES ASSUME NEW k \in Nodes, NEW b \in Nodes, NEW q \in Range(control'[k][b])
                 PROVE  PacketStraight(k, b, q)
        BY DEF PacketsStraight, PacketStraight, OnTheWay
    <2>1. q \in Range(control[k][b]) \/ (k = n /\ {n, b} \in Links /\ q \in Range(out[b]))
        BY DEF AddedBy
    <2> QED BY <1>1, <2>1 DEF PacketsStraight
<1>8. RoutesStraight'
    BY <1>1, <1>2, RoutesStraightStep
<1>9. ASSUME NEW k \in Nodes, NEW b \in Nodes, control'[k][b] # <<>>
      PROVE  control[k][b] # <<>> \/ (k = n /\ b \in channels[n] /\ {n, b} \in wire)
    <2>1. PICK s : Carried(control[k][b], control'[k][b], s, Sent(n, out, k, b))
        BY DEF Moves
    <2>2. control[k][b] # <<>> \/ Sent(n, out, k, b) # <<>>
        BY <1>5, <1>6, <1>9, <2>1, CarriedFrom
    <2> QED BY <1>6, <2>2
<1>10. QueuesOpen'
    <2> SUFFICES ASSUME NEW k \in Nodes, NEW b \in Nodes, control'[k][b] # <<>>
                 PROVE  k \in channels[b] \/ {b, k} \in wire
        BY DEF QueuesOpen
    <2>1. CASE control[k][b] # <<>>
        BY <1>1, <2>1 DEF QueuesOpen
    <2>2. CASE k = n /\ b \in channels[n] /\ {n, b} \in wire
        BY <1>4, <2>2
    <2> QED BY <1>9, <2>1, <2>2
<1>11. ASSUME NEW b \in Nodes, NEW r \in routes'[b]
       PROVE  r \in routes[b] \/ (b = n /\ Head(r[2]) = m /\ Teaches(m, n, p, r[1], Tail(r[2])))
    BY <1>3, <1>11 DEF TaughtBy
<1>12. Heard'
    <2> SUFFICES ASSUME NEW k \in Nodes, NEW b \in Nodes, {b, k} \in wire,
                        control'[k][b] # <<>> \/ \E r \in routes'[b] : Head(r[2]) = k
                 PROVE  b \in channels[k]
        BY DEF Heard
    <2>1. CASE control'[k][b] # <<>>
        BY <1>1, <1>9, <2>1 DEF Heard
    <2>2. CASE \E r \in routes'[b] : Head(r[2]) = k
        <3>1. PICK r \in routes'[b] : Head(r[2]) = k
            BY <2>2
        <3> QED BY <1>1, <1>2, <1>11, <3>1 DEF Heard
    <2> QED BY <2>1, <2>2
<1>13. Backing'
    <2> SUFFICES ASSUME NEW k \in Nodes, NEW b \in Nodes, {b, k} \in wire PROVE AllBacked(k, b)'
        BY DEF Backing
    <2>1. PICK s : s = IF k = m /\ b = n THEN 1 ELSE 0
        OBVIOUS
    <2>2. PICK more : more = Sent(n, out, k, b)
        OBVIOUS
    <2>3. more \in Seq(Packet) /\ Carried(control[k][b], control'[k][b], s, more)
        BY <1>6, <2>1, <2>2 DEF Moves
    <2>4. AllBacked(k, b)
        BY <1>1 DEF Backing
    <2>5. ASSUME NEW i \in 0 .. Len(control[k][b]), NEW dest, NEW rest,
                 Claim(k, b, i, dest, rest), Knows(k, dest, rest)
          PROVE  Knows(k, dest, rest)' \/ \E j \in 1 .. Len(more) : News(more[j], dest, rest)
        <3>1. CASE k # n
            <4>1. siblings'[k] = siblings[k] /\ routes'[k] = routes[k]
                BY <1>3, <3>1
            <4> QED BY <2>5, <4>1 DEF Knows, KnownBy, Table
        <3>2. CASE k = n
            <4>1. /\ n \in Gateways /\ dest \in Behind(b, n) /\ \A x \in Range(rest) : x \in Behind(b, n)
                  /\ control[n][b] # <<>> \/ \E r \in routes[b] : Head(r[2]) = n
                BY <1>1, <2>5, <3>2, ClaimStraight
            <4>2. b \in channels[n]
                BY <1>1, <3>2, <4>1 DEF Heard
            <4>3. more = out[b]
                BY <1>4, <1>6, <2>2, <3>2, <4>2
            <4> QED BY <2>5, <3>2, <4>1, <4>2, <4>3
        <3> QED BY <3>1, <3>2
    <2>6. ASSUME NEW j \in 1 .. Len(more), NEW dest, NEW rest, Teaches(k, b, more[j], dest, rest)
          PROVE  Knows(k, dest, rest)'
        <3>1. more # <<>>
            <4>1. j \in 1 .. Len(more) /\ Len(<<>>) = 0
                BY <2>6
            <4> QED BY <4>1
        <3>2. k = n /\ b \in channels[n] /\ more = out[b]
            BY <1>6, <2>2, <3>1
        <3>3. {n, b} \in Links
            BY <1>1, <3>2 DEF ChannelsAreLinks
        <3>4. more[j] \in Range(out[b])
            BY <1>5, <2>6, <3>2, RangeEquality
        <3> QED BY <2>6, <3>2, <3>3, <3>4
    <2>7. ASSUME NEW r \in routes'[b], Head(r[2]) = k
          PROVE  \/ r \in routes[b] /\ (s = 1 => ~News(control[k][b][1], r[1], Tail(r[2])))
                 \/ s = 1 /\ Teaches(k, b, control[k][b][1], r[1], Tail(r[2]))
        <3>1. CASE r \in routes[b]
            BY <1>2, <1>3, <2>1, <2>7, <3>1
        <3>2. CASE b = n /\ Head(r[2]) = m /\ Teaches(m, n, p, r[1], Tail(r[2]))
            BY <1>2, <2>1, <2>7, <3>2
        <3> QED BY <1>11, <2>7, <3>1, <3>2
    <2> QED BY <1>5, <2>3, <2>4, <2>5, <2>6, <2>7, BackedStep
<1> QED BY <1>7, <1>8, <1>10, <1>12, <1>13 DEF Credible

\* A packet is read, and neither teaches nor disables anything.
LEMMA IdleCredible ==
    ASSUME RoutingInvariant, Credible, NEW m \in Nodes, NEW n \in Nodes, Readable(m, n),
           UNCHANGED <<wire, channels>>, UNCHANGED tableVars,
           NEW p \in Packet, p = Head(control[m][n]),
           \A out : AddedBy(n, out), Moves(m, n, Nothing),
           \A r \in routes[n] : ~News(p, r[1], Tail(r[2]))
    PROVE  Credible'
<1>1. Tables
    BY DEF RoutingInvariant
<1>2. PICK t : t = Table(n)
    OBVIOUS
<1>3. UpdateTable(n, t) /\ TableFits(n, t) /\ t.routes = routes[n]
    BY <1>1, <1>2, SameTable, TableOf
<1>4. TaughtBy(m, n, p, t)
    BY <1>3 DEF TaughtBy
<1>5. PICK out : out = Nothing
    OBVIOUS
<1>6. Sends(out, {}, p)
    BY <1>5, OutTypes
<1>7. \A b \in Nodes : \A q \in Range(out[b]) : FALSE
    BY ONLY <1>6 DEF Sends
<1>8. \A dest, rest : Knows(n, dest, rest) => Knows(n, dest, rest)'
    BY DEF Knows, KnownBy, Table, tableVars
<1>9. AddedBy(n, out) /\ Moves(m, n, out)
    BY <1>5
<1>10. \A r \in t.routes : ~News(p, r[1], Tail(r[2]))
    BY <1>3
<1> QED BY <1>3, <1>4, <1>7, <1>8, <1>9, <1>10, ReadCredible

\* A packet is read and teaches, and what is sent tells what its sender knows.
LEMMA TaughtCredible ==
    ASSUME RoutingInvariant, Credible, NEW m \in Nodes, NEW n \in Nodes, Readable(m, n),
           UNCHANGED <<wire, channels>>, NEW p, p = Head(control[m][n]), p.type # "unreachable",
           NEW t, UpdateTable(n, t), TableFits(n, t), Grows(n, t), TaughtBy(m, n, p, t),
           NEW out, AddedBy(n, out), Moves(m, n, out),
           \A b \in Nodes : {n, b} \in Links => \A q \in Range(out[b]) :
               PacketStraight(n, b, q) /\ PacketKnown(n, b, q)'
    PROVE  Credible'
<1>1. Tables
    BY DEF RoutingInvariant
<1>2. \A k \in Nodes : channels[k] \subseteq channels'[k]
    OBVIOUS
<1>3. KnowledgeKept
    BY <1>1, <1>2, GrowthKeeps
<1>4. \A dest, rest : Knows(n, dest, rest) => Knows(n, dest, rest)'
    BY <1>3 DEF KnowledgeKept
<1>5. \A r \in t.routes : ~News(p, r[1], Tail(r[2]))
    BY DEF News
<1>6. ASSUME NEW b \in Nodes, {n, b} \in Links, NEW q \in Range(out[b])
      PROVE  /\ PacketStraight(n, b, q)
             /\ \A dest, rest : Teaches(n, b, q, dest, rest) => Knows(n, dest, rest)'
    <2>1. PacketStraight(n, b, q) /\ PacketKnown(n, b, q)'
        BY <1>6
    <2> QED BY ONLY <2>1 DEF Teaches, PacketKnown
<1> QED BY <1>4, <1>5, <1>6, ReadCredible

\* Reading a request.
LEMMA RequestCredible ==
    ASSUME NoRings, RoutingInvariant, Credible, NEW m \in Nodes, NEW n \in Nodes, ProcessRequest(m, n)
    PROVE  Credible'
<1>1. Tables /\ ChannelsAreLinks /\ Control /\ PacketsStraight
    BY DEF RoutingInvariant, Credible
<1>2. PICK p : p = Head(control[m][n])
    OBVIOUS
<1>3. UNCHANGED <<wire, channels>> /\ Readable(m, n)
    BY DEF ProcessRequest
<1>4. /\ p \in Packet /\ p.type = "request" /\ PacketFits(m, n, p) /\ m \in channels[n]
      /\ \/ (\A out : AddedBy(n, out)) /\ Moves(m, n, Nothing)
            /\ UNCHANGED tableVars
         \/ /\ p.initiator # n
            /\ UpdateTable(n, Learnt(n, p))
            /\ \E out : AddedBy(n, out) /\ Moves(m, n, out) /\ OnRequest(n, m, p, out)
    BY <1>1, <1>2, RequestStep
<1>5. PacketStraight(m, n, p)
    <2>1. p \in Range(control[m][n])
        BY <1>1, <1>2, <1>3, ReadTakes
    <2> QED BY <1>1, <2>1 DEF PacketsStraight
<1>6. {n, m} \in Links /\ n # m
    BY <1>1, <1>4, LinkEnds DEF ChannelsAreLinks
<1>7. CASE (\A out : AddedBy(n, out)) /\ Moves(m, n, Nothing) /\ UNCHANGED tableVars
    <2>1. \A r \in routes[n] : ~News(p, r[1], Tail(r[2]))
        BY <1>4 DEF News
    <2> QED BY <1>2, <1>3, <1>4, <1>7, <2>1, IdleCredible
<1>8. CASE /\ p.initiator # n
           /\ UpdateTable(n, Learnt(n, p))
           /\ \E out : AddedBy(n, out) /\ Moves(m, n, out) /\ OnRequest(n, m, p, out)
    <2>1. PICK out : AddedBy(n, out) /\ Moves(m, n, out) /\ OnRequest(n, m, p, out)
        BY <1>8
    <2>2. PICK t : t = Learnt(n, p)
        OBVIOUS
    <2>3. PICK back : back = Reverse(p.route)
        OBVIOUS
    <2>4. Grows(n, t) /\ TaughtBy(m, n, p, t) /\ KnownBy(t, p.initiator, back) /\ UpdateTable(n, t)
        BY <1>4, <1>8, <2>2, <2>3, LearntGrows
    <2>5. TableFits(n, t)
        BY <1>1, <1>4, <2>2, LearntFits
    <2>6. Knows(n, p.initiator, back)'
        BY <1>1, <2>4, NewTable
    <2>7. ASSUME NEW b \in Nodes, {n, b} \in Links, NEW q \in Range(out[b])
          PROVE  PacketStraight(n, b, q) /\ PacketKnown(n, b, q)'
        <3>1. CASE b = m /\ q = Response(n, p)
            BY <1>4, <1>5, <1>6, <3>1, AnswerKnown, AnswerStraight
        <3>2. CASE b # m /\ n \in Gateways /\ n \notin Range(p.route) /\ q = Forwarded(n, p)
            <4>1. Knows(n, p.initiator, Reverse(p.route))'
                BY ONLY <2>3, <2>6
            <4>2. PacketKnown(n, b, q)'
                BY <1>4, <1>8, <3>2, <4>1, ForwardKnown
            <4>3. PacketStraight(n, b, q)
                BY <1>4, <1>5, <1>6, <1>8, <2>7, <3>2, ForwardStraight
            <4> QED BY <4>2, <4>3
        <3> QED BY <2>1, <2>7, <3>1, <3>2 DEF OnRequest
    <2>8. p.type # "unreachable"
        BY <1>4
    <2> QED BY <1>2, <1>3, <2>1, <2>4, <2>5, <2>7, <2>8, TaughtCredible
<1> QED BY <1>4, <1>7, <1>8

\* Reading a response.
LEMMA ResponseCredible ==
    ASSUME NoRings, RoutingInvariant, Credible, NEW m \in Nodes, NEW n \in Nodes, ProcessResponse(m, n)
    PROVE  Credible'
<1>1. Tables /\ ChannelsAreLinks /\ Control /\ PacketsStraight
    BY DEF RoutingInvariant, Credible
<1>2. PICK p : p = Head(control[m][n])
    OBVIOUS
<1>3. UNCHANGED <<wire, channels>> /\ Readable(m, n)
    BY DEF ProcessResponse
<1>4. /\ p \in Packet /\ p.type = "response" /\ PacketFits(m, n, p) /\ m \in channels[n]
      /\ \/ (\A out : AddedBy(n, out)) /\ Moves(m, n, Nothing) /\ UNCHANGED tableVars
         \/ /\ UpdateTable(n, LearnFromResponse(n, p))
            /\ \E out : AddedBy(n, out) /\ Moves(m, n, out) /\ OnResponse(n, p, out)
    BY <1>1, <1>2, ResponseStep
<1>5. PacketStraight(m, n, p)
    <2>1. p \in Range(control[m][n])
        BY <1>1, <1>2, <1>3, ReadTakes
    <2> QED BY <1>1, <2>1 DEF PacketsStraight
<1>6. {n, m} \in Links
    BY <1>1, <1>4 DEF ChannelsAreLinks
<1>7. CASE (\A out : AddedBy(n, out)) /\ Moves(m, n, Nothing) /\ UNCHANGED tableVars
    <2>1. \A r \in routes[n] : ~News(p, r[1], Tail(r[2]))
        BY <1>4 DEF News
    <2> QED BY <1>2, <1>3, <1>4, <1>7, <2>1, IdleCredible
<1>8. CASE /\ UpdateTable(n, LearnFromResponse(n, p))
           /\ \E out : AddedBy(n, out) /\ Moves(m, n, out) /\ OnResponse(n, p, out)
    <2>1. PICK out : AddedBy(n, out) /\ Moves(m, n, out) /\ OnResponse(n, p, out)
        BY <1>8
    <2>2. PICK t : t = LearnFromResponse(n, p)
        OBVIOUS
    <2>3. PICK i \in 0 .. Len(p.route) : OnTheWay(m, n, p, i)
        <3>1. PICK i \in 0 .. Len(p.route) : PlaceOf(m, n, p, i)
            BY <1>4, ResponsePlace
        <3> QED BY <3>1 DEF PlaceOf
    <2>4. PICK rest : rest = SubSeq(p.route, i + 1, Len(p.route))
        OBVIOUS
    <2>5. Grows(n, t) /\ TaughtBy(m, n, p, t) /\ KnownBy(t, p.responder, rest) /\ UpdateTable(n, t)
        <3>1. /\ Grows(n, t) /\ TaughtBy(m, n, p, t)
              /\ KnownBy(t, p.responder, SubSeq(p.route, i + 1, Len(p.route)))
            BY <1>4, <2>2, <2>3, TaughtGrows
        <3> QED BY <1>8, <2>2, <2>4, <3>1
    <2>6. TableFits(n, t)
        BY <1>1, <1>4, <2>2, TaughtFits
    <2>7. Knows(n, p.responder, rest)'
        BY <1>1, <2>5, NewTable
    <2>8. ASSUME NEW b \in Nodes, {n, b} \in Links, NEW q \in Range(out[b])
          PROVE  PacketStraight(n, b, q) /\ PacketKnown(n, b, q)'
        <3>1. n # p.initiator /\ b = Addressee(n, p) /\ q = p
            BY <2>1, <2>8 DEF OnResponse
        <3>2. Knows(n, p.responder, SubSeq(p.route, i + 1, Len(p.route)))'
            BY ONLY <2>4, <2>7
        <3>3. PacketKnown(n, Addressee(n, p), p)'
            BY <1>4, <2>3, <3>1, <3>2, PassedKnown
        <3>4. PacketStraight(n, b, p)
            BY <1>4, <1>5, <1>6, <2>8, <3>1, PassedStraight
        <3> QED BY ONLY <3>1, <3>3, <3>4
    <2>9. p.type # "unreachable"
        BY <1>4
    <2> QED BY <1>2, <1>3, <2>1, <2>5, <2>6, <2>8, <2>9, TaughtCredible
<1> QED BY <1>4, <1>7, <1>8

\* Reading the news that a node is lost: a gateway that forgets a route by it
\* tells all its neighbours but the one it heard it from, which is not told of
\* what is on its own side.
LEMMA UnreachableCredible ==
    ASSUME NoRings, RoutingInvariant, Credible, NEW m \in Nodes, NEW n \in Nodes, ProcessUnreachable(m, n)
    PROVE  Credible'
<1>1. Tables /\ ChannelsAreLinks /\ Control /\ PacketsStraight
    BY DEF RoutingInvariant, Credible
<1>2. PICK p : p = Head(control[m][n])
    OBVIOUS
<1>3. UNCHANGED <<wire, channels>> /\ Readable(m, n) /\ m \in channels[n]
    BY DEF ProcessUnreachable, Readable
<1>4. /\ p \in Packet /\ p.type = "unreachable"
      /\ \/ /\ (\A out : AddedBy(n, out)) /\ Moves(m, n, Nothing) /\ UNCHANGED tableVars
            /\ p.gw = n \/ RemoveRoutes(Table(n), p.id) = Table(n)
         \/ /\ UpdateTable(n, RemoveRoutes(Table(n), p.id))
            /\ \E out : /\ AddedBy(n, out) /\ Moves(m, n, out) /\ Sends(out, Nodes, p)
                        /\ n \in Gateways => out = ToAllBut(n, m, p)
                        /\ n \notin Gateways => out = Nothing
    BY <1>1, <1>2, UnreachableStep
<1>5. PacketStraight(m, n, p)
    <2>1. p \in Range(control[m][n])
        BY <1>1, <1>2, <1>3, ReadTakes
    <2> QED BY <1>1, <2>1 DEF PacketsStraight
<1>6. {n, m} \in Links /\ n # m
    BY <1>1, <1>3, LinkEnds DEF ChannelsAreLinks
<1>7. m \in Gateways /\ p.gw # n /\ p.id \in Behind(n, m)
    BY <1>4, <1>5, <1>6, NotBehind DEF PacketStraight
<1>8. PICK t : t = RemoveRoutes(Table(n), p.id)
    OBVIOUS
<1>9. /\ t.siblings = siblings[n]
      /\ t.routes = {r \in routes[n] : r[1] # p.id /\ p.id \notin Range(r[2])}
    BY <1>8 DEF RemoveRoutes, Table
<1>10. ASSUME NEW r \in t.routes PROVE ~News(p, r[1], Tail(r[2]))
    <2>1. r \in routes[n] /\ r[1] # p.id /\ p.id \notin Range(r[2])
        BY <1>9, <1>10
    <2>2. r[2] \in Seq(Gateways) /\ r[2] # <<>>
        BY <1>1, <2>1, TableOf DEF TableFits
    <2>3. Range(Tail(r[2])) \subseteq Range(r[2])
        BY <2>2, HeadAndRest
    <2> QED BY <2>1, <2>3 DEF News
<1>11. CASE /\ (\A out : AddedBy(n, out)) /\ Moves(m, n, Nothing) /\ UNCHANGED tableVars
            /\ p.gw = n \/ RemoveRoutes(Table(n), p.id) = Table(n)
    <2>1. t = Table(n) /\ Table(n).routes = routes[n]
        BY <1>7, <1>8, <1>11 DEF Table
    <2>2. \A r \in routes[n] : ~News(p, r[1], Tail(r[2]))
        BY <1>10, <2>1
    <2> QED BY <1>2, <1>3, <1>4, <1>11, <2>2, IdleCredible
<1>12. CASE /\ UpdateTable(n, RemoveRoutes(Table(n), p.id))
            /\ \E out : /\ AddedBy(n, out) /\ Moves(m, n, out) /\ Sends(out, Nodes, p)
                        /\ n \in Gateways => out = ToAllBut(n, m, p)
                        /\ n \notin Gateways => out = Nothing
    <2>1. PICK out : /\ AddedBy(n, out) /\ Moves(m, n, out) /\ Sends(out, Nodes, p)
                     /\ n \in Gateways => out = ToAllBut(n, m, p)
                     /\ n \notin Gateways => out = Nothing
        BY <1>12
    <2>2. UpdateTable(n, t) /\ TableFits(n, t)
        BY <1>1, <1>8, <1>12, TableOf, FitsRemoveRoutes
    <2>3. TaughtBy(m, n, p, t)
        BY <1>9 DEF TaughtBy
    <2>4. ASSUME NEW b \in Nodes, {n, b} \in Links, NEW q \in Range(out[b])
          PROVE  /\ PacketStraight(n, b, q)
                 /\ \A dest, rest : Teaches(n, b, q, dest, rest) => Knows(n, dest, rest)'
        <3>1. q = p
            BY <2>1, <2>4 DEF Sends
        <3>2. n \in Gateways /\ b # m
            <4>1. Sends(Nothing, {}, p) /\ Sends(ToAllBut(n, m, p), Nodes \ {m}, p)
                BY <1>4, OutTypes
            <4>2. (\A c \in Nodes : \A x \in Range(Nothing[c]) : FALSE)
                  /\ (\A c \in Nodes : \A x \in Range(ToAllBut(n, m, p)[c]) : c # m)
                BY ONLY <4>1 DEF Sends
            <4> QED BY <2>1, <2>4, <4>2
        <3>3. PacketStraight(n, b, p)
            BY <1>4, <1>5, <1>6, <2>4, <3>2, NewsStraight
        <3>4. \A dest, rest : ~Teaches(n, b, p, dest, rest)
            BY <1>4 DEF Teaches
        <3> QED BY <3>1, <3>3, <3>4
    <2>5. ASSUME NEW b \in channels[n], NEW dest, NEW rest, n \in Gateways, Knows(n, dest, rest),
                 dest \in Behind(b, n), \A x \in Range(rest) : x \in Behind(b, n)
          PROVE  Knows(n, dest, rest)' \/ \E j \in 1 .. Len(out[b]) : News(out[b][j], dest, rest)
        <3>1. CASE dest \in siblings[n] \/ (dest # p.id /\ p.id \notin Range(rest))
            <4>1. Knows(n, dest, rest)' <=> KnownBy(t, dest, rest)
                BY <1>1, <2>2, NewTable
            <4>2. dest \in siblings[n] \/ (rest # <<>> /\ <<dest, rest>> \in routes[n])
                BY <2>5 DEF Knows, KnownBy, Table
            <4>3. <<dest, rest>>[1] = dest /\ <<dest, rest>>[2] = rest
                OBVIOUS
            <4>4. KnownBy(t, dest, rest)
                BY ONLY <1>9, <3>1, <4>2, <4>3 DEF KnownBy
            <4> QED BY <4>1, <4>4
        <3>2. CASE dest = p.id \/ p.id \in Range(rest)
            <4>1. b \in Nodes /\ p.id \in Behind(b, n)
                BY <1>1, <2>5, <3>2 DEF Tables
            <4>2. b # m
                BY <1>6, <1>7, <2>5, <4>1, SidesApart
            <4>3. out[b] = <<p>>
                BY <2>1, <2>5, <4>1, <4>2 DEF ToAllBut
            <4>4. 1 \in 1 .. Len(out[b]) /\ out[b][1] = p
                BY <4>3
            <4>5. News(p, dest, rest)
                BY <1>4, <3>2 DEF News
            <4> QED BY <4>4, <4>5
        <3> QED BY <3>1, <3>2
    <2> QED BY <1>2, <1>3, <1>10, <2>1, <2>2, <2>3, <2>4, <2>5, ReadCredible
<1> QED BY <1>4, <1>11, <1>12

-----------------------------------------------------------------------------
(***************************************************************************)
(* Channels that come and go.                                              *)
(***************************************************************************)

\* Over a new connection nothing is claimed yet; what is announced is known.
LEMMA EstablishedCredible ==
    ASSUME RoutingInvariant, Credible, NEW n \in Nodes, NEW m \in Nodes, OnChannelEstablished(n, m)
    PROVE  Credible'
<1>1. /\ Tables /\ ChannelsAreLinks /\ Control
      /\ PacketsStraight /\ RoutesStraight /\ QueuesOpen /\ Heard /\ Backing
    BY DEF RoutingInvariant, Credible
<1>2. PICK t : t = AddSibling(Table(n), m)
    OBVIOUS
<1>3. /\ channels' = [channels EXCEPT ![n] = @ \cup {m}]
      /\ UpdateTable(n, t)
      /\ {n, m} \in Links /\ m \notin channels[n]
      /\ wire \subseteq wire' /\ {n, m} \in wire' /\ wire' \subseteq wire \cup {{n, m}}
      /\ {n, m} \in wire \/ n \notin channels[m]
    BY <1>2 DEF OnChannelEstablished, Connected
<1>4. /\ channels'[n] = channels[n] \cup {m}
      /\ \A k \in Nodes : k # n => channels'[k] = channels[k]
    BY <1>1, <1>3 DEF Tables
<1>5. \A k \in Nodes : channels[k] \subseteq channels'[k]
    BY <1>4
<1>6. Grows(n, t) /\ t.routes \subseteq routes[n]
    BY ONLY <1>2, AddSiblingGrows
<1>7. KnowledgeKept
    BY <1>1, <1>3, <1>5, <1>6, GrowthKeeps
<1>8. \A k \in Nodes : routes'[k] \subseteq routes[k]
    BY <1>1, <1>3, <1>6, NewTable
<1>9. channels[n] \subseteq siblings'[n]
    <2>1. siblings'[n] = t.siblings /\ t.siblings = Table(n).siblings \cup {m}
        BY <1>1, <1>2, <1>3, NewTable DEF AddSibling
    <2> QED BY <1>1, <2>1, TableOf
<1>10. PICK out : /\ AddedBy(n, out) /\ Puts(n, out)
                  /\ \A b \in Nodes : \A p \in Range(out[b]) : b = m /\ m \in Gateways /\ Announces(n, m, p)
    BY <1>1, EstablishedAdds
<1>11. \A x, y : {x, y} = {y, x}
    OBVIOUS
<1>12. /\ \A k, b \in Nodes : control[k][b] \in Seq(Packet) /\ control'[k][b] \in Seq(Packet)
       /\ \A b \in Nodes : out[b] \in Seq(Packet)
    BY <1>1, <1>10 DEF Control, Queues, AddedBy, Puts
<1>13. ASSUME NEW b \in Nodes, out[b] # <<>> PROVE b = m
    <2>1. out[b][1] \in Range(out[b])
        <3>1. Len(out[b]) \in Nat /\ Len(out[b]) # 0
            BY <1>12, <1>13, EmptySeq, LenProperties
        <3>2. 1 \in 1 .. Len(out[b])
            BY <3>1
        <3> QED BY <1>12, <3>2, RangeEquality
    <2> QED BY <1>10, <2>1
<1>14. ASSUME NEW k \in Nodes, NEW b \in Nodes
       PROVE  \E more \in Seq(Packet) :
                  /\ Carried(control[k][b], control'[k][b], 0, more)
                  /\ more = IF k = n THEN out[b] ELSE <<>>
                  /\ more # <<>> => k = n /\ b = m /\ more = out[b]
    <2>1. PICK none \in Seq(Packet) : none = <<>>
        <3>1. <<>> \in Seq(Packet)
            OBVIOUS
        <3> QED BY <3>1
    <2>2. PICK more \in Seq(Packet) : more = IF k = n THEN out[b] ELSE <<>>
        BY <1>12, <2>1
    <2>3. Carried(control[k][b], control'[k][b], 0, more)
        BY <1>10, <2>2 DEF Puts
    <2> QED BY <1>13, <2>2, <2>3
<1>15. ASSUME NEW k \in Nodes, NEW b \in Nodes, control'[k][b] # <<>>
       PROVE  control[k][b] # <<>> \/ (k = n /\ b = m)
    <2>1. PICK more \in Seq(Packet) :
              Carried(control[k][b], control'[k][b], 0, more) /\ (more # <<>> => k = n /\ b = m)
        BY <1>14
    <2>2. control[k][b] \in Seq(Packet) /\ control'[k][b] \in Seq(Packet)
        BY <1>12
    <2>3. control[k][b] # <<>> \/ more # <<>>
        BY ONLY <1>15, <2>1, <2>2, CarriedFrom
    <2> QED BY ONLY <2>1, <2>3
<1>16. ASSUME NEW k \in Nodes, NEW b \in Nodes, {b, k} \in wire', {b, k} \notin wire
       PROVE  control[k][b] = <<>> /\ \A r \in routes[b] : Head(r[2]) # k
    <2>1. {b, k} = {n, m} /\ {n, m} \notin wire /\ n \notin channels[m]
        BY <1>3, <1>16
    <2>2. k \notin channels[b]
        BY <1>3, <2>1
    <2> QED BY <1>1, <1>16, <2>2 DEF QueuesOpen, RoutesStraight, RouteStraight
<1>17. PacketsStraight'
    <2> SUFFICES ASSUME NEW k \in Nodes, NEW b \in Nodes, NEW q \in Range(control'[k][b])
                 PROVE  PacketStraight(k, b, q)
        BY DEF PacketsStraight, PacketStraight, OnTheWay
    <2>1. q \in Range(control[k][b]) \/ (k = n /\ {n, b} \in Links /\ q \in Range(out[b]))
        BY <1>10 DEF AddedBy
    <2>2. CASE k = n /\ q \in Range(out[b])
        <3>1. b = m /\ Announces(n, m, q) /\ channels[n] \subseteq Nodes
            BY <1>1, <1>10, <2>2 DEF Tables
        <3> QED BY <1>1, <1>3, <2>2, <3>1, AnnouncementStraight
    <2> QED BY <1>1, <2>1, <2>2 DEF PacketsStraight
<1>18. RoutesStraight'
    BY <1>1, <1>5, <1>8 DEF RoutesStraight, RouteStraight
<1>19. QueuesOpen'
    <2> SUFFICES ASSUME NEW k \in Nodes, NEW b \in Nodes, control'[k][b] # <<>>
                 PROVE  k \in channels'[b] \/ {b, k} \in wire'
        BY DEF QueuesOpen
    <2>1. CASE control[k][b] # <<>>
        <3>1. k \in channels[b] \/ {b, k} \in wire
            BY <1>1, <2>1 DEF QueuesOpen
        <3>2. k \in channels[b] => k \in channels'[b]
            BY <1>5
        <3> QED BY <1>3, <3>1, <3>2
    <2>2. CASE k = n /\ b = m
        BY <1>3, <1>11, <2>2
    <2> QED BY <1>15, <2>1, <2>2
<1>20. Heard'
    <2> SUFFICES ASSUME NEW k \in Nodes, NEW b \in Nodes, {b, k} \in wire',
                        control'[k][b] # <<>> \/ \E r \in routes'[b] : Head(r[2]) = k
                 PROVE  b \in channels'[k]
        BY DEF Heard
    <2>1. CASE k = n /\ b = m
        BY <1>4, <2>1
    <2>2. CASE ~(k = n /\ b = m)
        <3>1. control[k][b] # <<>> \/ \E r \in routes[b] : Head(r[2]) = k
            BY <1>8, <1>15, <2>2
        <3>2. {b, k} \in wire
            BY <1>16, <3>1
        <3> QED BY <1>1, <1>5, <3>1, <3>2 DEF Heard
    <2> QED BY <2>1, <2>2
<1>21. Backing'
    <2> SUFFICES ASSUME NEW k \in Nodes, NEW b \in Nodes, {b, k} \in wire' PROVE AllBacked(k, b)'
        BY DEF Backing
    <2>1. AllBacked(k, b)
        <3>1. CASE {b, k} \in wire
            BY <1>1, <3>1 DEF Backing
        <3>2. CASE {b, k} \notin wire
            <4>1. control[k][b] = <<>> /\ \A r \in routes[b] : Head(r[2]) # k
                BY <1>16, <3>2
            <4>2. ~(\E i \in 1 .. Len(control[k][b]) : TRUE)
                BY <4>1
            <4> QED BY ONLY <4>1, <4>2 DEF AllBacked, Claim
        <3> QED BY <3>1, <3>2
    <2>2. PICK more \in Seq(Packet) :
                  /\ Carried(control[k][b], control'[k][b], 0, more)
                  /\ more # <<>> => k = n /\ b = m /\ more = out[b]
        BY <1>14
    <2>3. ASSUME NEW i \in 0 .. Len(control[k][b]), NEW dest, NEW rest,
                 Claim(k, b, i, dest, rest), Knows(k, dest, rest)
          PROVE  Knows(k, dest, rest)' \/ \E j \in 1 .. Len(more) : News(more[j], dest, rest)
        BY <1>7, <2>3 DEF KnowledgeKept
    <2>4. ASSUME NEW j \in 1 .. Len(more), NEW dest, NEW rest, Teaches(k, b, more[j], dest, rest)
          PROVE  Knows(k, dest, rest)'
        <3>1. more # <<>>
            <4>1. j \in 1 .. Len(more) /\ Len(<<>>) = 0
                BY <2>4
            <4> QED BY <4>1
        <3>2. k = n /\ b = m /\ more[j] \in Range(out[b])
            BY <1>12, <2>2, <2>4, <3>1, RangeEquality
        <3>3. Announces(n, m, more[j])
            BY <1>10, <3>2
        <3>4. PacketKnown(n, m, more[j])'
            BY ONLY <1>9, <3>3, n \in Nodes, m \in Nodes, AnnouncementKnown
        <3>5. PacketKnown(k, b, more[j])' /\ Teaches(k, b, more[j], dest, rest)
            BY <2>4, <3>2, <3>4
        <3> QED BY ONLY <3>5 DEF Teaches, PacketKnown
    <2>5. PICK s : s = 0
        OBVIOUS
    <2>6. ASSUME NEW r \in routes'[b], Head(r[2]) = k
          PROVE  \/ r \in routes[b] /\ (s = 1 => ~News(control[k][b][1], r[1], Tail(r[2])))
                 \/ s = 1 /\ Teaches(k, b, control[k][b][1], r[1], Tail(r[2]))
        BY <1>8, <2>5
    <2> QED BY <1>12, <2>1, <2>2, <2>3, <2>4, <2>5, <2>6, BackedStep
<1> QED BY <1>17, <1>18, <1>19, <1>20, <1>21 DEF Credible

\* Neither queue nor table is touched.
LEMMA StillBacked ==
    ASSUME NEW m, NEW n, AllBacked(m, n),
           UNCHANGED <<siblings, routes>>, control'[m][n] = control[m][n]
    PROVE  AllBacked(m, n)'
<1>1. \A i, dest, rest : Claim(m, n, i, dest, rest)' <=> Claim(m, n, i, dest, rest)
    BY DEF Claim, Teaches, OnTheWay
<1>2. \A i, dest, rest : Backed(m, n, i, dest, rest)' <=> Backed(m, n, i, dest, rest)
    BY DEF Backed, News, Knows, KnownBy, Table
<1> QED BY <1>1, <1>2 DEF AllBacked

\* A connection dies: what is left of it is what can still be read.
LEMMA BreakCredible ==
    ASSUME RoutingInvariant, Credible, NEW n \in Nodes, NEW m \in Nodes, Break(n, m)
    PROVE  Credible'
<1>1. Tables /\ PacketsStraight /\ RoutesStraight /\ QueuesOpen /\ Heard /\ Backing
    BY DEF RoutingInvariant, Credible
<1>2. /\ wire' = wire \ {{n, m}}
      /\ UNCHANGED <<channels, siblings, routes>>
    BY DEF Break, tableVars
<1>3. ASSUME NEW k \in Nodes, NEW b \in Nodes
      PROVE  control'[k][b] = IF {k, b} = {n, m} /\ k \notin channels[b] THEN <<>> ELSE control[k][b]
    <2>1. control' = [c \in Nodes |-> [d \in Nodes |->
                         IF {c, d} = {n, m} /\ c \notin channels[d] THEN <<>> ELSE control[c][d]]]
        BY DEF Break
    <2> QED BY ONLY <2>1, k \in Nodes, b \in Nodes
<1>4. \A x, y : {x, y} = {y, x}
    OBVIOUS
<1>5. PacketsStraight'
    <2> SUFFICES ASSUME NEW k \in Nodes, NEW b \in Nodes, NEW q \in Range(control'[k][b])
                 PROVE  PacketStraight(k, b, q)
        BY DEF PacketsStraight, PacketStraight, OnTheWay
    <2>1. Range(<<>>) = {}
        BY DEF Range
    <2>2. q \in Range(control[k][b])
        BY <1>3, <2>1
    <2> QED BY <1>1, <2>2 DEF PacketsStraight
<1>6. RoutesStraight'
    BY <1>1, <1>2 DEF RoutesStraight, RouteStraight
<1>7. QueuesOpen'
    <2> SUFFICES ASSUME NEW k \in Nodes, NEW b \in Nodes, control'[k][b] # <<>>, k \notin channels[b]
                 PROVE  {b, k} \in wire'
        BY <1>2 DEF QueuesOpen
    <2>1. {k, b} # {n, m} /\ control[k][b] # <<>>
        BY <1>3
    <2> QED BY <1>1, <1>2, <1>4, <2>1 DEF QueuesOpen
<1>8. Heard'
    BY <1>1, <1>2, <1>3 DEF Heard
<1>9. Backing'
    <2> SUFFICES ASSUME NEW k \in Nodes, NEW b \in Nodes, {b, k} \in wire' PROVE AllBacked(k, b)'
        BY DEF Backing
    <2>1. {b, k} \in wire /\ {k, b} # {n, m}
        BY <1>2, <1>4
    <2>2. control'[k][b] = control[k][b]
        BY <1>3, <2>1
    <2> QED BY <1>1, <1>2, <2>1, <2>2, StillBacked DEF Backing
<1> QED BY <1>5, <1>6, <1>7, <1>8, <1>9 DEF Credible

\* The queues when a node finds a channel destroyed: what the other end sent is
\* gone, and a gateway has told its other neighbours.
LEMMA DestroyedQueues ==
    ASSUME Tables, Control, NEW n \in Nodes, NEW m \in Nodes, n # m, OnChannelDestroyed(n, m),
           NEW k \in Nodes, NEW b \in Nodes
    PROVE  control'[k][b] =
               IF k = m /\ b = n THEN <<>>
               ELSE IF n \in Gateways /\ k = n /\ b \in channels[n] /\ {n, b} \in wire
                    THEN control[k][b] \o <<Unreachable(n, m)>> ELSE control[k][b]
<1>1. PICK queues : queues = [control EXCEPT ![m][n] = <<>>]
    OBVIOUS
<1>2. control' = IF n \in Gateways THEN Enqueue(queues, n, ToAllBut(n, m, Unreachable(n, m))) ELSE queues
    BY <1>1 DEF OnChannelDestroyed
<1>3. {n, m} \notin wire
    BY DEF OnChannelDestroyed
<1>4. PICK none, one : none = <<>> /\ one = <<Unreachable(n, m)>>
    OBVIOUS
<1>5. /\ DOMAIN queues = Nodes
      /\ queues[k][b] = IF k = m /\ b = n THEN none ELSE control[k][b]
    BY <1>1, <1>4 DEF Control, Queues
<1>6. b # m => ToAllBut(n, m, Unreachable(n, m))[b] = one
    BY <1>4 DEF ToAllBut
<1>7. CASE n \notin Gateways
    BY <1>2, <1>4, <1>5, <1>7
<1>8. CASE n \in Gateways
    <2>1. PICK out : out = ToAllBut(n, m, Unreachable(n, m))
        OBVIOUS
    <2>2. control' = [queues EXCEPT ![n] = [c \in Nodes |->
                         IF c \in channels[n] /\ {n, c} \in wire THEN queues[n][c] \o out[c] ELSE queues[n][c]]]
        BY <1>2, <1>8, <2>1 DEF Enqueue
    <2>3. control'[k][b] = IF k = n
                           THEN IF b \in channels[n] /\ {n, b} \in wire THEN queues[k][b] \o out[b] ELSE queues[k][b]
                           ELSE queues[k][b]
        BY ONLY <1>5, <2>2, k \in Nodes, b \in Nodes
    <2>4. CASE k = n /\ b \in channels[n] /\ {n, b} \in wire
        <3>1. b # m /\ ~(k = m /\ b = n)
            BY <1>3, <2>4
        <3> QED BY <1>4, <1>5, <1>6, <1>8, <2>1, <2>3, <2>4, <3>1
    <2>5. CASE ~(k = n /\ b \in channels[n] /\ {n, b} \in wire)
        BY <1>4, <1>5, <2>3, <2>5
    <2> QED BY <2>4, <2>5
<1> QED BY <1>7, <1>8

\* A channel is found destroyed: every neighbour that was told of what is lost
\* is told that it is.
LEMMA DestroyedCredible ==
    ASSUME NoRings, RoutingInvariant, Credible, NEW n \in Nodes, NEW m \in Nodes, OnChannelDestroyed(n, m)
    PROVE  Credible'
<1>1. /\ Tables /\ ChannelsAreLinks /\ Control
      /\ PacketsStraight /\ RoutesStraight /\ QueuesOpen /\ Heard /\ Backing
    BY DEF RoutingInvariant, Credible
<1>2. PICK t : t = RemoveRoutes([Table(n) EXCEPT !.siblings = @ \ {m}], m)
    OBVIOUS
<1>3. /\ channels' = [channels EXCEPT ![n] = channels[n] \ {m}]
      /\ UpdateTable(n, t)
      /\ wire' = wire /\ {n, m} \notin wire /\ m \in channels[n]
    BY <1>2 DEF OnChannelDestroyed
<1>4. {n, m} \in Links /\ n # m
    BY <1>1, <1>3, LinkEnds DEF ChannelsAreLinks
<1>5. /\ channels'[n] = channels[n] \ {m}
      /\ \A k \in Nodes : k # n => channels'[k] = channels[k]
    BY <1>1, <1>3 DEF Tables
<1>6. /\ t.siblings = siblings[n] \ {m}
      /\ t.routes = {r \in routes[n] : r[1] # m /\ m \notin Range(r[2])}
    BY <1>2 DEF RemoveRoutes, Table
<1>7. /\ siblings'[n] = t.siblings /\ routes'[n] = t.routes
      /\ \A k \in Nodes : k # n => siblings'[k] = siblings[k] /\ routes'[k] = routes[k]
      /\ \A dest, chain : Knows(n, dest, chain)' <=> KnownBy(t, dest, chain)
    BY <1>1, <1>3, NewTable
<1>8. \A k \in Nodes : routes'[k] \subseteq routes[k]
    BY <1>6, <1>7
<1>9. \A x, y : {x, y} = {y, x}
    OBVIOUS
<1>10. PICK news : news = Unreachable(n, m)
    OBVIOUS
<1>11. news \in Packet /\ news.type = "unreachable" /\ news.gw = n /\ news.id = m
    <2>1. news = [type |-> "unreachable", gw |-> n, id |-> m]
        BY <1>10 DEF Unreachable
    <2> QED BY <2>1 DEF Packet
<1>12. PICK none, one : /\ none = <<>> /\ one = <<news>> /\ none \in Seq(Packet) /\ one \in Seq(Packet)
                        /\ Range(none) = {} /\ Range(one) = {news} /\ Len(one) = 1 /\ one[1] = news
    <2>1. <<>> \in Seq(Packet) /\ <<news>> \in Seq(Packet) /\ Len(<<news>>) = 1 /\ <<news>>[1] = news
        BY <1>11
    <2>2. Range(<<>>) = {} /\ Range(<<news>>) = {news}
        BY DEF Range
    <2> QED BY <2>1, <2>2
<1>13. \A k, b \in Nodes : control[k][b] \in Seq(Packet)
    BY <1>1 DEF Control, Queues
<1>14. ASSUME NEW k \in Nodes, NEW b \in Nodes, ~(k = m /\ b = n)
       PROVE  \E more \in {none, one} :
                  /\ control'[k][b] = control[k][b] \o more
                  /\ Carried(control[k][b], control'[k][b], 0, more)
                  /\ more = one <=> n \in Gateways /\ k = n /\ b \in channels[n] /\ {n, b} \in wire
    <2>1. PICK more : more = IF n \in Gateways /\ k = n /\ b \in channels[n] /\ {n, b} \in wire
                             THEN one ELSE none
        OBVIOUS
    <2>2. control'[k][b] = IF n \in Gateways /\ k = n /\ b \in channels[n] /\ {n, b} \in wire
                           THEN control[k][b] \o one ELSE control[k][b]
        BY <1>1, <1>4, <1>10, <1>12, <1>14, DestroyedQueues
    <2>3. control[k][b] \o none = control[k][b]
        BY <1>12, <1>13, ConcatEmptySeq
    <2>4. control'[k][b] = control[k][b] \o more
        BY <2>1, <2>2, <2>3
    <2>5. Carried(control[k][b], control'[k][b], 0, more)
        BY <1>12, <1>13, <2>1, <2>4, CarriedBehind
    <2>6. none # one
        <3>1. Len(none) = 0
            BY <1>12
        <3> QED BY <1>12, <3>1
    <2> QED BY <2>1, <2>4, <2>5, <2>6
<1>15. control'[m][n] = none
    BY <1>1, <1>4, <1>12, DestroyedQueues
<1>16. ASSUME NEW k \in Nodes, NEW b \in Nodes, NEW q \in Range(control'[k][b])
       PROVE  \/ q \in Range(control[k][b])
              \/ q = news /\ n \in Gateways /\ k = n /\ b \in channels[n] /\ {n, b} \in wire
    <2>1. ~(k = m /\ b = n)
        BY <1>12, <1>15, <1>16
    <2>2. PICK more \in {none, one} :
              /\ control'[k][b] = control[k][b] \o more
              /\ more = one <=> n \in Gateways /\ k = n /\ b \in channels[n] /\ {n, b} \in wire
        BY <1>14, <2>1
    <2>3. Range(control'[k][b]) = Range(control[k][b]) \cup Range(more)
        <3>1. more \in Seq(Packet) /\ control[k][b] \in Seq(Packet)
            BY <1>12, <1>13, <2>2
        <3>2. Range(control[k][b] \o more) = Range(control[k][b]) \cup Range(more)
            BY ONLY <3>1, PacketsBehind
        <3> QED BY ONLY <2>2, <3>2
    <2>4. CASE more = none
        BY ONLY <1>12, <1>16, <2>3, <2>4
    <2>5. CASE more = one
        <3>1. q \in Range(control[k][b]) \/ q = news
            BY ONLY <1>12, <1>16, <2>3, <2>5
        <3> QED BY ONLY <2>2, <2>5, <3>1
    <2> QED BY ONLY <2>2, <2>4, <2>5
<1>17. ASSUME NEW k \in Nodes, NEW b \in Nodes, control'[k][b] # <<>>
       PROVE  /\ ~(k = m /\ b = n)
              /\ control[k][b] # <<>> \/ (k = n /\ b \in channels[n] /\ {n, b} \in wire)
    <2>1. ~(k = m /\ b = n)
        BY <1>12, <1>15, <1>17
    <2>2. PICK more \in {none, one} :
              /\ control'[k][b] = control[k][b] \o more
              /\ more = one <=> n \in Gateways /\ k = n /\ b \in channels[n] /\ {n, b} \in wire
        BY <1>14, <2>1
    <2>3. CASE more = none
        <3>1. control'[k][b] = control[k][b]
            BY <1>12, <1>13, <2>2, <2>3, ConcatEmptySeq
        <3> QED BY <1>17, <2>1, <3>1
    <2> QED BY <2>1, <2>2, <2>3
<1>18. PacketsStraight'
    <2> SUFFICES ASSUME NEW k \in Nodes, NEW b \in Nodes, NEW q \in Range(control'[k][b])
                 PROVE  PacketStraight(k, b, q)
        BY DEF PacketsStraight, PacketStraight, OnTheWay
    <2>1. CASE q \in Range(control[k][b])
        BY <1>1, <2>1 DEF PacketsStraight
    <2>2. CASE q = news /\ n \in Gateways /\ k = n /\ b \in channels[n] /\ {n, b} \in wire
        <3>1. {n, b} \in Links /\ b # m
            BY <1>1, <1>3, <2>2 DEF ChannelsAreLinks
        <3> QED BY <1>4, <1>11, <2>2, <3>1, NewsStraight
    <2> QED BY <1>16, <2>1, <2>2
<1>19. RoutesStraight'
    <2> SUFFICES ASSUME NEW k \in Nodes, NEW r \in routes'[k] PROVE RouteStraight(k, r)'
        BY DEF RoutesStraight
    <2>1. r \in routes[k] /\ RouteStraight(k, r)
        BY <1>1, <1>8 DEF RoutesStraight
    <2>2. Head(r[2]) \in channels'[k]
        <3>1. CASE k # n
            BY <1>5, <2>1, <3>1 DEF RouteStraight
        <3>2. CASE k = n
            <4>1. m \notin Range(r[2])
                BY <1>6, <1>7, <3>2
            <4>2. r[2] \in Seq(Gateways) /\ r[2] # <<>>
                BY <1>1, <2>1, TableOf DEF TableFits
            <4>3. Head(r[2]) # m
                BY <4>1, <4>2, HeadAndRest
            <4> QED BY <1>5, <2>1, <3>2, <4>3 DEF RouteStraight
        <3> QED BY <3>1, <3>2
    <2> QED BY <2>1, <2>2 DEF RouteStraight
<1>20. QueuesOpen'
    <2> SUFFICES ASSUME NEW k \in Nodes, NEW b \in Nodes, control'[k][b] # <<>>
                 PROVE  k \in channels'[b] \/ {b, k} \in wire
        BY <1>3 DEF QueuesOpen
    <2>1. CASE control[k][b] # <<>>
        <3>1. k \in channels[b] \/ {b, k} \in wire
            BY <1>1, <2>1 DEF QueuesOpen
        <3>2. k \in channels[b] => k \in channels'[b]
            BY <1>5, <1>17
        <3> QED BY <3>1, <3>2
    <2>2. CASE k = n /\ b \in channels[n] /\ {n, b} \in wire
        BY <1>9, <2>2
    <2> QED BY <1>17, <2>1, <2>2
<1>21. ASSUME NEW k \in Nodes, NEW b \in Nodes, {b, k} \in wire PROVE ~(k = m /\ b = n) /\ ~(k = n /\ b = m)
    BY <1>3, <1>9, <1>21
<1>22. Heard'
    <2> SUFFICES ASSUME NEW k \in Nodes, NEW b \in Nodes, {b, k} \in wire,
                        control'[k][b] # <<>> \/ \E r \in routes'[b] : Head(r[2]) = k
                 PROVE  b \in channels'[k]
        BY <1>3 DEF Heard
    <2>1. b \in channels[k]
        <3>1. CASE control[k][b] # <<>> \/ \E r \in routes[b] : Head(r[2]) = k
            BY <1>1, <3>1 DEF Heard
        <3>2. CASE k = n /\ b \in channels[n]
            BY <3>2
        <3> QED BY <1>8, <1>17, <3>1, <3>2
    <2> QED BY <1>5, <1>21, <2>1
<1>23. Backing'
    <2> SUFFICES ASSUME NEW k \in Nodes, NEW b \in Nodes, {b, k} \in wire PROVE AllBacked(k, b)'
        BY <1>3 DEF Backing
    <2>1. AllBacked(k, b)
        BY <1>1 DEF Backing
    <2>2. PICK more \in {none, one} :
              /\ control'[k][b] = control[k][b] \o more
              /\ Carried(control[k][b], control'[k][b], 0, more)
              /\ more = one <=> n \in Gateways /\ k = n /\ b \in channels[n] /\ {n, b} \in wire
        BY <1>14, <1>21
    <2>3. more \in Seq(Packet) /\ control'[k][b] \in Seq(Packet)
        <3>1. more \in Seq(Packet) /\ control[k][b] \in Seq(Packet)
            BY <1>12, <1>13, <2>2
        <3>2. control[k][b] \o more \in Seq(Packet)
            BY <3>1, PacketsBehind
        <3> QED BY ONLY <2>2, <3>1, <3>2
    <2>4. ASSUME NEW i \in 0 .. Len(control[k][b]), NEW dest, NEW rest,
                 Claim(k, b, i, dest, rest), Knows(k, dest, rest)
          PROVE  Knows(k, dest, rest)' \/ \E j \in 1 .. Len(more) : News(more[j], dest, rest)
        <3>1. CASE k # n
            <4>1. siblings'[k] = siblings[k] /\ routes'[k] = routes[k]
                BY <1>7, <3>1
            <4> QED BY <2>4, <4>1 DEF Knows, KnownBy, Table
        <3>2. CASE k = n /\ (dest = m \/ m \in Range(rest))
            <4>1. n \in Gateways /\ (control[n][b] # <<>> \/ \E r \in routes[b] : Head(r[2]) = n)
                BY <1>1, <2>4, <3>2, ClaimStraight
            <4>2. b \in channels[n]
                BY <1>1, <3>2, <4>1 DEF Heard
            <4>3. more = one
                BY <1>9, <2>2, <3>2, <4>1, <4>2
            <4>4. News(news, dest, rest)
                BY <1>11, <3>2 DEF News
            <4>5. 1 \in 1 .. Len(more) /\ more[1] = news
                BY <1>12, <4>3
            <4> QED BY <4>4, <4>5
        <3>3. CASE k = n /\ dest # m /\ m \notin Range(rest)
            <4>1. dest \in siblings[n] \/ (rest # <<>> /\ <<dest, rest>> \in routes[n])
                BY <2>4, <3>3 DEF Knows, KnownBy, Table
            <4>2. <<dest, rest>>[1] = dest /\ <<dest, rest>>[2] = rest
                OBVIOUS
            <4>3. KnownBy(t, dest, rest)
                BY ONLY <1>6, <3>3, <4>1, <4>2 DEF KnownBy
            <4> QED BY <1>7, <3>3, <4>3
        <3> QED BY <3>1, <3>2, <3>3
    <2>5. ASSUME NEW j \in 1 .. Len(more), NEW dest, NEW rest, Teaches(k, b, more[j], dest, rest)
          PROVE  Knows(k, dest, rest)'
        <3>1. more[j] = news
            <4>1. Len(none) = 0
                BY <1>12
            <4> QED BY <1>12, <2>2, <2>5, <4>1
        <3> QED BY <1>11, <2>5, <3>1 DEF Teaches
    <2>6. PICK s : s = 0
        OBVIOUS
    <2>7. ASSUME NEW r \in routes'[b], Head(r[2]) = k
          PROVE  \/ r \in routes[b] /\ (s = 1 => ~News(control[k][b][1], r[1], Tail(r[2])))
                 \/ s = 1 /\ Teaches(k, b, control[k][b][1], r[1], Tail(r[2]))
        BY <1>8, <2>6
    <2> QED BY <1>13, <2>1, <2>2, <2>3, <2>4, <2>5, <2>6, <2>7, BackedStep
<1> QED BY <1>18, <1>19, <1>20, <1>22, <1>23 DEF Credible

\* Nothing that counts has changed.
LEMMA StillCredible ==
    ASSUME Credible, UNCHANGED <<wire, channels, control, siblings, routes>>
    PROVE  Credible'
<1>1. PacketsStraight /\ RoutesStraight /\ QueuesOpen /\ Heard /\ Backing
    BY DEF Credible
<1>2. PacketsStraight'
    BY <1>1 DEF PacketsStraight, PacketStraight, OnTheWay
<1>3. RoutesStraight'
    BY <1>1 DEF RoutesStraight, RouteStraight
<1>4. QueuesOpen' /\ Heard'
    BY <1>1 DEF QueuesOpen, Heard
<1>5. ASSUME NEW m \in Nodes, NEW n \in Nodes, {n, m} \in wire' PROVE AllBacked(m, n)'
    BY <1>1, <1>5, StillBacked DEF Backing
<1> QED BY <1>2, <1>3, <1>4, <1>5 DEF Credible, Backing

LEMMA InitCredible == Init => Credible
<1> SUFFICES ASSUME Init PROVE Credible
    OBVIOUS
<1>1. /\ wire = {} /\ \A n \in Nodes : routes[n] = {}
      /\ \A m, n \in Nodes : control[m][n] = <<>>
    BY DEF Init
<1>2. PacketsStraight
    BY <1>1 DEF PacketsStraight, Range
<1>3. RoutesStraight /\ QueuesOpen /\ Heard /\ Backing
    BY <1>1 DEF RoutesStraight, QueuesOpen, Heard, Backing
<1> QED BY <1>2, <1>3 DEF Credible

LEMMA NextCredible ==
    ASSUME NoRings
    PROVE  RoutingInvariant /\ Credible /\ [Next]_vars => Credible'
<1> SUFFICES ASSUME RoutingInvariant, Credible, [Next]_vars PROVE Credible'
    OBVIOUS
<1>1. ASSUME NEW n \in Nodes, NEW m \in Nodes, OnChannelEstablished(n, m) PROVE Credible'
    BY <1>1, EstablishedCredible
<1>2. ASSUME NEW n \in Nodes, NEW m \in Nodes, Break(n, m) PROVE Credible'
    BY <1>2, BreakCredible
<1>3. ASSUME NEW n \in Nodes, NEW m \in Nodes, OnChannelDestroyed(n, m) PROVE Credible'
    BY <1>3, DestroyedCredible
<1>4. ASSUME NEW n \in Nodes, NEW m \in Nodes, Receive(m, n) PROVE Credible'
    BY <1>4, RequestCredible, ResponseCredible, UnreachableCredible DEF Receive
<1>5. ASSUME NEW n \in Nodes, NEW m \in Nodes, EnqueueData(n, m) PROVE Credible'
    BY <1>5, StillCredible DEF EnqueueData, netVars, tableVars
<1>6. ASSUME NEW d \in data, OnData(d) PROVE Credible'
    BY <1>6, StillCredible DEF OnData, netVars, tableVars
<1>7. CASE UNCHANGED vars
    BY <1>7, StillCredible DEF vars, netVars, tableVars
<1> QED BY <1>1, <1>2, <1>3, <1>4, <1>5, <1>6, <1>7 DEF Next

\* Whatever a node was told, over a connection that lives, is so or is about to
\* be taken back, in every state of a mesh without rings.
THEOREM CredibleHolds ==
    ASSUME NoRings
    PROVE  Spec => []Credible
<1>1. RoutingInvariant /\ Credible /\ [Next]_vars => Credible'
    BY NextCredible
<1> QED BY <1>1, InitCredible, RoutingHolds, PTL DEF Spec

-----------------------------------------------------------------------------
(***************************************************************************)
(* What a quiet mesh believes.                                             *)
(***************************************************************************)

\* The first so many gateways of the chain join n to dest by live connections.
JoinedBy(n, dest, chain, size) ==
    /\ {n, chain[1]} \in wire /\ {chain[size], dest} \in wire
    /\ \A i \in 1 .. size - 1 : {chain[i], chain[i + 1]} \in wire

\* When all is quiet, the next hop of a route is connected, and knows the rest.
LEMMA SettledHop ==
    ASSUME RoutingInvariant, Credible, Settled, NEW n \in Nodes, NEW r \in routes[n]
    PROVE  /\ r[2] \in Seq(Gateways) /\ r[2] # <<>>
           /\ {n, Head(r[2])} \in wire /\ Knows(Head(r[2]), r[1], Tail(r[2]))
<1>1. Tables /\ RoutesStraight /\ Backing
    BY DEF RoutingInvariant, Credible
<1>2. r[2] \in Seq(Gateways) /\ r[2] # <<>>
    BY <1>1, TableOf DEF TableFits
<1>3. PICK hop, rest : hop = Head(r[2]) /\ rest = Tail(r[2])
    OBVIOUS
<1>4. hop \in Nodes /\ {n, hop} \in wire
    BY <1>1, <1>3 DEF RoutesStraight, RouteStraight, Settled, Tables
<1>5. AllBacked(hop, n) /\ control[hop][n] = <<>>
    BY <1>1, <1>4 DEF Backing, Settled
<1>6. Len(control[hop][n]) = 0
    BY <1>5
<1>7. Claim(hop, n, 0, r[1], rest)
    BY <1>3 DEF Claim
<1>8. Backed(hop, n, 0, r[1], rest)
    BY <1>5, <1>6, <1>7 DEF AllBacked
<1>9. ~(\E j \in 0 + 1 .. Len(control[hop][n]) : TRUE)
    BY <1>6
<1>10. Knows(hop, r[1], rest)
    BY ONLY <1>8, <1>9 DEF Backed
<1> QED BY <1>2, <1>3, <1>4, <1>10

\* When all is quiet, the destination is connected to some gateway of a route,
\* and so are the gateways before it: of the shortest route for which this was
\* not so, the next hop would hold a shorter one.
LEMMA SettledRoutes ==
    ASSUME RoutingInvariant, Credible, Settled, NEW n \in Nodes, NEW r \in routes[n]
    PROVE  \E size \in 1 .. Len(r[2]) : JoinedBy(n, r[1], r[2], size)
<1> DEFINE IsJoined(k, q) == \E size \in 1 .. Len(q[2]) : JoinedBy(k, q[1], q[2], size)
           Broken == {q \in UNION {routes[k] : k \in Nodes} :
                         \E k \in Nodes : q \in routes[k] /\ ~IsJoined(k, q)}
           Sizes == {Len(q[2]) : q \in Broken}
<1>1. Tables
    BY DEF RoutingInvariant
<1>2. ASSUME NEW q \in Broken PROVE Len(q[2]) \in Nat
    <2>1. PICK k \in Nodes : q \in routes[k]
        BY <1>2
    <2>2. q[2] \in Seq(Gateways)
        BY <1>1, <2>1, TableOf DEF TableFits
    <2> QED BY <2>2, ChainType
<1> SUFFICES ASSUME ~IsJoined(n, r) PROVE FALSE
    OBVIOUS
<1>3. r \in Broken
    OBVIOUS
<1>4. Sizes \subseteq Nat /\ Sizes # {}
    BY <1>2, <1>3
<1>5. PICK least \in Sizes : \A x \in Sizes : least <= x
    <2> HIDE DEF Sizes
    <2> QED BY <1>4, MinOfLengths
<1>6. PICK q \in Broken : least = Len(q[2])
    BY <1>5
<1>7. PICK k \in Nodes : q \in routes[k] /\ ~IsJoined(k, q)
    BY <1>6
<1>8. PICK hop, rest : hop = Head(q[2]) /\ rest = Tail(q[2])
    OBVIOUS
<1>9. /\ q[2] \in Seq(Gateways) /\ q[2] # <<>>
      /\ {k, hop} \in wire /\ Knows(hop, q[1], rest)
    BY <1>7, <1>8, SettledHop
<1>10. /\ rest \in Seq(Gateways) /\ Len(rest) = Len(q[2]) - 1
       /\ hop = q[2][1] /\ hop \in Gateways
       /\ \A j \in 1 .. Len(rest) : rest[j] = q[2][j + 1]
    BY <1>8, <1>9, HeadAndRest
<1>11. hop \in Nodes /\ Len(q[2]) \in Nat /\ Len(q[2]) # 0
    BY <1>9, <1>10, ChainType, RoutingAssumption DEF RoutingAssumption
<1>12. CASE q[1] \in siblings[hop]
    <2>1. {hop, q[1]} \in wire
        BY <1>1, <1>11, <1>12 DEF Settled, Tables
    <2>2. 1 \in 1 .. Len(q[2]) /\ ~(\E i \in 1 .. 1 - 1 : TRUE)
        BY <1>11
    <2>3. JoinedBy(k, q[1], q[2], 1)
        BY ONLY <1>9, <1>10, <2>1, <2>2 DEF JoinedBy
    <2> QED BY <1>7, <2>2, <2>3
<1>13. CASE <<q[1], rest>> \in routes[hop]
    <2>1. PICK o : o = <<q[1], rest>> /\ o[1] = q[1] /\ o[2] = rest
        <3>1. <<q[1], rest>>[1] = q[1] /\ <<q[1], rest>>[2] = rest
            OBVIOUS
        <3> QED BY <3>1
    <2>2. o \in routes[hop]
        BY <1>13, <2>1
    <2>3. CASE IsJoined(hop, o)
        <3>1. PICK size \in 1 .. Len(rest) : JoinedBy(hop, q[1], rest, size)
            BY <2>1, <2>3
        <3>2. size + 1 \in 1 .. Len(q[2]) /\ 1 \in 1 .. Len(rest) /\ size \in Nat
            BY <1>10, <1>11, <3>1
        <3>3. rest[1] = q[2][1 + 1] /\ rest[size] = q[2][size + 1]
            BY <1>10, <3>2
        <3>4. ASSUME NEW i \in 1 .. (size + 1) - 1 PROVE {q[2][i], q[2][i + 1]} \in wire
            <4>1. CASE i = 1
                BY <1>10, <3>1, <3>3, <4>1 DEF JoinedBy
            <4>2. CASE i # 1
                <5>1. /\ i - 1 \in 1 .. size - 1 /\ i - 1 \in 1 .. Len(rest) /\ i \in 1 .. Len(rest)
                      /\ (i - 1) + 1 = i
                    BY <1>10, <1>11, <3>2, <4>2
                <5>2. {rest[i - 1], rest[i]} \in wire
                    BY <3>1, <5>1 DEF JoinedBy
                <5>3. rest[i - 1] = q[2][i] /\ rest[i] = q[2][i + 1]
                    BY <1>10, <5>1
                <5> QED BY <5>2, <5>3
            <4> QED BY <4>1, <4>2
        <3>5. JoinedBy(k, q[1], q[2], size + 1)
            BY <1>9, <1>10, <3>1, <3>3, <3>4 DEF JoinedBy
        <3> QED BY <1>7, <3>2, <3>5
    <2>4. CASE ~IsJoined(hop, o)
        <3>1. o \in Broken
            BY <1>11, <2>2, <2>4
        <3>2. Len(rest) \in Sizes
            BY <2>1, <3>1
        <3> QED BY <1>5, <1>6, <1>10, <1>11, <3>2
    <2> QED BY <2>3, <2>4
<1> QED BY <1>9, <1>12, <1>13 DEF Knows, KnownBy, Table

\* Distinct gateways are no more than there are.
LEMMA ShortChain ==
    ASSUME NEW chain \in Seq(Gateways), Once(chain)
    PROVE  chain \in Chains
<1>1. PICK size \in Nat : size = Len(chain)
    BY ChainType
<1>2. chain \in [1 .. size -> Gateways] /\ DOMAIN chain = 1 .. size
    BY <1>1, LenProperties
<1>3. IsFiniteSet(Gateways)
    BY FS_Subset, RoutingAssumption DEF RoutingAssumption
<1>4. chain \in Injection(1 .. size, Gateways)
    BY <1>1, <1>2 DEF Injection, IsInjective, Once
<1>5. Cardinality(1 .. size) <= Cardinality(Gateways)
    BY <1>3, <1>4, FS_Injection
<1>6. Cardinality(1 .. size) = size
    <2>1. 1 \in Int /\ size \in Int
        BY <1>1
    <2>2. Cardinality(1 .. size) = IF 1 > size THEN 0 ELSE size - 1 + 1
        BY ONLY <2>1, FS_Interval
    <2> QED BY <1>1, <2>2
<1>7. Cardinality(Gateways) \in Nat
    BY <1>3, FS_CardinalityType
<1>8. size \in 0 .. Cardinality(Gateways)
    BY <1>5, <1>6, <1>7
<1>9. \A i, j \in DOMAIN chain : chain[i] = chain[j] => i = j
    BY <1>1, <1>2 DEF Once
<1> QED BY <1>2, <1>8, <1>9 DEF Chains

\* A chain of which the first so many join n to dest.
LEMMA JoinedByChain ==
    ASSUME NEW n \in Nodes, NEW dest \in Nodes, NEW chain \in Seq(Gateways), Once(chain),
           NEW size \in 1 .. Len(chain), JoinedBy(n, dest, chain, size)
    PROVE  Joined(wire, n, dest)
<1>1. Len(chain) \in Nat /\ \A i \in 1 .. Len(chain) : chain[i] \in Gateways
    BY ChainType
<1>2. PICK c : c = SubSeq(chain, 1, size)
    OBVIOUS
<1>3. c \in Seq(Gateways) /\ Len(c) = size /\ \A i \in 1 .. size : c[i] = chain[i]
    <2>1. \A i \in 1 .. size : chain[i] \in Gateways
        BY <1>1
    <2>2. /\ c \in Seq(Gateways) /\ Len(c) = IF 1 <= size THEN size - 1 + 1 ELSE 0
          /\ \A i \in 1 .. size - 1 + 1 : c[i] = chain[1 + i - 1]
        BY ONLY <1>2, <2>1, size \in 1 .. Len(chain), SubSeqProperties
    <2> QED BY <1>1, <2>2
<1>4. Once(c)
    BY <1>1, <1>3 DEF Once
<1>5. ASSUME NEW i \in 0 .. Len(c) PROVE {Hop(n, c, dest, i), Hop(n, c, dest, i + 1)} \in wire
    <2>1. CASE i = 0
        <3>1. Hop(n, c, dest, i) = n /\ Hop(n, c, dest, i + 1) = chain[1]
            BY <1>1, <1>3, <2>1 DEF Hop
        <3> QED BY <3>1 DEF JoinedBy
    <2>2. CASE i \in 1 .. size - 1
        <3>1. i \in 1 .. size /\ i + 1 \in 1 .. size /\ i # 0 /\ i + 1 # 0
            BY <1>1, <2>2
        <3>2. Hop(n, c, dest, i) = chain[i] /\ Hop(n, c, dest, i + 1) = chain[i + 1]
            BY <1>3, <3>1 DEF Hop
        <3> QED BY <2>2, <3>2 DEF JoinedBy
    <2>3. CASE i = size
        <3>1. Hop(n, c, dest, i) = chain[size] /\ Hop(n, c, dest, i + 1) = dest
            BY <1>1, <1>3, <2>3 DEF Hop
        <3> QED BY <3>1 DEF JoinedBy
    <2>4. i = 0 \/ i \in 1 .. size - 1 \/ i = size
        BY <1>1, <1>3
    <2> QED BY <2>1, <2>2, <2>3, <2>4
<1>6. FollowsLinks(wire, n, c, dest)
    BY <1>3, <1>5, FollowsHops
<1> QED BY <1>3, <1>4, <1>6, ShortChain DEF Joined

\* A connected neighbour needs no gateway.
LEMMA JoinedDirectly ==
    ASSUME NEW n \in Nodes, NEW dest \in Nodes, {n, dest} \in wire
    PROVE  Joined(wire, n, dest)
<1>1. PICK none \in Seq(Gateways) : none = <<>> /\ Len(none) = 0
    <2>1. <<>> \in Seq(Gateways) /\ Len(<<>>) = 0
        OBVIOUS
    <2> QED BY <2>1
<1>2. Once(none)
    BY <1>1 DEF Once
<1>3. Hop(n, none, dest, 0) = n /\ Hop(n, none, dest, 1) = dest
    BY <1>1 DEF Hop
<1>4. \A i \in 0 .. Len(none) : i = 0 /\ i + 1 = 1
    BY <1>1
<1>5. \A i \in 0 .. Len(none) : {Hop(n, none, dest, i), Hop(n, none, dest, i + 1)} \in wire
    BY <1>3, <1>4
<1>6. FollowsLinks(wire, n, none, dest)
    BY <1>5, FollowsHops
<1> QED BY <1>2, <1>6, ShortChain DEF Joined

LEMMA CredibleIsTrue == RoutingInvariant /\ Credible => SettledIsTrue
<1> SUFFICES ASSUME RoutingInvariant, Credible, Settled, NEW n \in Nodes, NEW m \in Reachable(Table(n))
             PROVE  Joined(wire, n, m)
    BY DEF SettledIsTrue
<1>1. Tables /\ RoutesStraight
    BY DEF RoutingInvariant, Credible
<1>2. CASE m \in siblings[n]
    <2>1. m \in Nodes /\ {n, m} \in wire
        BY <1>1, <1>2 DEF Settled, Tables
    <2> QED BY <2>1, JoinedDirectly
<1>3. CASE \E r \in routes[n] : m = r[1]
    <2>1. PICK r \in routes[n] : m = r[1]
        BY <1>3
    <2>2. m \in Nodes /\ r[2] \in Seq(Gateways)
        BY <1>1, <2>1, TableOf DEF TableFits
    <2>3. Once(r[2])
        BY <1>1, <2>1 DEF RoutesStraight, RouteStraight
    <2>4. PICK size \in 1 .. Len(r[2]) : JoinedBy(n, m, r[2], size)
        BY <2>1, SettledRoutes
    <2> QED BY <2>2, <2>3, <2>4, JoinedByChain
<1> QED BY <1>2, <1>3 DEF Reachable, Table

\* However the connections of a mesh without rings failed: when all is quiet, no
\* node believes it can reach one it is cut off from.
THEOREM QuietIsTrue ==
    ASSUME NoRings
    PROVE  Spec => []SettledIsTrue
<1>1. Spec => []Credible
    BY CredibleHolds
<1> QED BY <1>1, RoutingHolds, CredibleIsTrue, PTL
=============================================================================
