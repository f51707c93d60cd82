--------------------------- MODULE GetRoles_proofs ---------------------------
(***************************************************************************)
(* That the assertion is that of the first form, for pages of any size;    *)
(* that every role `roles` prints can be got; and that get asks AWS for    *)
(* the role it was told with its provider, for assertions of any length    *)
(* over any names.                                                         *)
(*                                                                         *)
(* The walk over a page is proved right without an induction: the          *)
(* recursive function has a solution because there is no least part of the *)
(* page for which it has none (LoopRuns), and it gives the nodes in order  *)
(* because there is no greatest node from which it does not (WalkGives).   *)
(***************************************************************************)
EXTENDS GetRoles, GetCredentials_proofs, NumberLemmas

\* In either order, the pair has both.
LEMMA PairOfBoth ==
    ASSUME NEW value \in AttributeValues, Paired(value)
    PROVE  LET pair == getARN(value)
           IN /\ pair.role \in ARNs /\ pair.role.kind = "role"
              /\ ToSet(value) = {pair.role, pair.provider}
<1>1. PICK n \in 1..2 : value \in [1..n -> ARNs]
  BY DEF AttributeValues
<1>2. n = 2
  <2>1. CASE n = 1
    <3>1. ToSet(value) = {value[1]}
      BY <1>1, <2>1 DEF ToSet
    <3>2. {x.kind : x \in ToSet(value)} = {value[1].kind}
      BY <3>1
    <3>3. "role" = value[1].kind /\ "saml-provider" = value[1].kind
      BY <3>2 DEF Paired
    <3> QED BY <3>3
  <2> QED BY <2>1
<1>3. /\ Len(value) = 2 /\ value[1] \in ARNs /\ value[2] \in ARNs
      /\ ToSet(value) = {value[1], value[2]}
  BY <1>1, <1>2 DEF ToSet
<1>4. {value[1].kind, value[2].kind} = {"role", "saml-provider"}
  BY <1>3 DEF Paired
<1>5. CASE value[1].kind = "saml-provider"
  BY <1>3, <1>4, <1>5 DEF getARN
<1>6. CASE value[1].kind # "saml-provider"
  BY <1>3, <1>4, <1>6 DEF getARN
<1> QED BY <1>5, <1>6

\* Every name that `roles` prints is one that `get` takes, and yields a role of
\* that name with its provider (roles.go:44-114).
LEMMA NoneIsMistaken == Mistaken = {}
<1> SUFFICES ASSUME NEW values \in Assertions, \A i \in DOMAIN values : Paired(values[i])
             PROVE  ListedIsFound(values)
  BY DEF Mistaken
<1>1. PICK n \in Nat : values \in [1..n -> AttributeValues]
  BY AssertionAssumption DEF Assertions
<1>2. \A i \in 1..n :
         LET pair == getARN(values[i])
         IN pair.role.kind = "role" /\ ToSet(values[i]) = {pair.role, pair.provider}
  BY <1>1, PairOfBoth
<1>3. ~Panics(values)
  BY <1>1, <1>2 DEF Panics
<1>4. ASSUME NEW name \in Segments,
             \E i \in DOMAIN values : Fold[listRoles(values)[i]] = Fold[name]
      PROVE  IsOffered(name, findRoleInSAML(name, values), values)
  <2> DEFINE hits == Hits(name, values)
             last == Max(hits)
  <2>1. hits \in SUBSET (1..n) /\ hits # {}
    BY <1>1, <1>4 DEF Hits, listRoles
  <2>2. last \in hits
    BY <1>1, <2>1, MaxIsGreatest
  <2>3. findRoleInSAML(name, values) = getARN(values[last])
    BY <2>1 DEF findRoleInSAML
  <2>4. last \in 1..n /\ Fold[NameOf(getARN(values[last]))] = Fold[name]
    BY <2>1, <2>2 DEF Hits
  <2> HIDE DEF last
  <2> QED BY <1>1, <1>2, <2>3, <2>4 DEF IsOffered
<1>5. ASSUME NEW name \in Segments,
             ~\E i \in DOMAIN values : Fold[listRoles(values)[i]] = Fold[name]
      PROVE  findRoleInSAML(name, values) = NoPair
  BY <1>5 DEF findRoleInSAML, Hits, listRoles
<1> QED BY <1>3, <1>4, <1>5 DEF ListedIsFound

----------------------------------------------------------------------------
(* The page: where a node's children and siblings are                      *)

\* A page of N nodes.
IsPage(page, N) ==
    /\ N \in 0..MaxNodes
    /\ page.parent \in [1..N -> 0..N]
    /\ page.data \in [1..N -> Data]
    /\ \A n \in 1..N : page.parent[n] < n
    /\ \A m, n \in 1..N : page.parent[n] < m /\ m < n => page.parent[n] =< page.parent[m]
    /\ \A n \in 1..N : page.parent[n] # 0 => page.data[page.parent[n]] # "text"

LEMMA PageShape ==
    ASSUME NEW page \in Pages
    PROVE  \E N \in Nat : IsPage(page, N)
<1>1. PICK N \in 0..MaxNodes : page \in [parent : Trees(N), data : [1..N -> Data]]
  BY AssertionAssumption DEF Pages
<1>2. \A m, n \in 1..N : page.parent[n] = m => page.data[m] \in {"form", "div"}
  BY <1>1 DEF Pages
<1>3. N \in Nat /\ page.parent \in [1..N -> 0..N]
  BY <1>1, AssertionAssumption DEF Trees
<1>4. \A n \in 1..N : page.parent[n] # 0 => page.data[page.parent[n]] # "text"
  BY <1>2, <1>3
<1> QED BY <1>1, <1>3, <1>4 DEF IsPage, Trees

\* The first child follows its parent at once.
LEMMA FirstChildFollows ==
    ASSUME NEW page, NEW N \in Nat, IsPage(page, N), NEW n \in Nat
    PROVE  FirstChild(page, n) =
              IF n + 1 =< N /\ page.parent[n + 1] = n THEN n + 1 ELSE 0
<1> DEFINE children == {m \in 1..N : page.parent[m] = n}
<1>1. FirstChild(page, n) = Least(children)
  BY DEF FirstChild, IsPage
<1>2. children \in SUBSET Nat /\ \A m \in children : m > n
  BY DEF IsPage
<1>3. CASE n + 1 =< N /\ page.parent[n + 1] = n
  <2>1. n + 1 \in children /\ \A m \in children : n + 1 =< m
    BY <1>2, <1>3
  <2> HIDE DEF children
  <2> QED BY <1>1, <1>2, <1>3, <2>1, LeastIsMin DEF Least
<1>4. CASE ~(n + 1 =< N /\ page.parent[n + 1] = n)
  <2>1. children = {}
    <3> SUFFICES ASSUME NEW m \in children PROVE FALSE
      OBVIOUS
    <3>1. m \in 1..N /\ page.parent[m] = n /\ m > n
      BY <1>2
    <3>2. n + 1 \in 1..N /\ n + 1 < m
      BY <1>4, <3>1
    <3>3. n =< page.parent[n + 1] /\ page.parent[n + 1] < n + 1 /\ page.parent[n + 1] \in Nat
      BY <3>1, <3>2 DEF IsPage
    <3> QED BY <1>4, <3>2, <3>3
  <2> QED BY <1>1, <1>4, <2>1 DEF Least
<1> QED BY <1>3, <1>4

\* Between a node and its next sibling, all is below the node.
LEMMA SiblingFollows ==
    ASSUME NEW page, NEW N \in Nat, IsPage(page, N), NEW n \in 1..N
    PROVE  LET next == NextSibling(page, n)
           IN \/ next = 0 /\ \A m \in (n + 1)..N : page.parent[m] # page.parent[n]
              \/ /\ next \in (n + 1)..N /\ page.parent[next] = page.parent[n]
                 /\ \A m \in (n + 1)..(next - 1) : page.parent[m] >= n
<1> DEFINE next == NextSibling(page, n)
           later == {m \in 1..N : m > n /\ page.parent[m] = page.parent[n]}
<1>1. next = Least(later) /\ later \in SUBSET Nat
  <2>1. DOMAIN page.data = 1..N
    BY DEF IsPage
  <2> QED BY <2>1 DEF NextSibling
<1>2. CASE later = {}
  <2>1. \A m \in (n + 1)..N : page.parent[m] # page.parent[n]
    BY <1>2
  <2> QED BY <1>1, <1>2, <2>1 DEF Least
<1>3. CASE later # {}
  <2>1. next \in later /\ \A m \in later : next =< m
    <3> HIDE DEF later, next
    <3> QED BY <1>1, <1>3, MinIsLeast DEF Least
  <2>2. next \in (n + 1)..N /\ page.parent[next] = page.parent[n]
    BY <2>1
  <2> HIDE DEF next
  <2>3. ASSUME NEW m \in (n + 1)..(next - 1) PROVE page.parent[m] >= n
    <3>1. m \in 1..N /\ next \in 1..N /\ m \notin later /\ n < m /\ m < next
      BY <2>1, <2>2
    <3>2. page.parent[n] \in Nat /\ page.parent[m] \in Nat /\ page.parent[n] < n
      BY <3>1 DEF IsPage
    <3>3. page.parent[next] =< page.parent[m]
      BY <2>2, <3>1, <3>2 DEF IsPage
    <3>4. page.parent[m] < n => page.parent[m] =< page.parent[n]
      BY <3>1 DEF IsPage
    <3> QED BY <2>2, <3>1, <3>2, <3>3, <3>4
  <2> QED BY <2>2, <2>3 DEF next
<1> QED BY <1>2, <1>3

\* What a loop over a node and the siblings that follow it can meet.
Region(page, N, n) ==
    IF n = 0 THEN {} ELSE {m \in n..N : \A k \in n..m : page.parent[k] >= page.parent[n]}

\* The loop over the children meets what is below their parent.
LEMMA InnerRegion ==
    ASSUME NEW page, NEW N \in Nat, IsPage(page, N), NEW n \in 0..N
    PROVE  Region(page, N, FirstChild(page, n)) = {m \in 1..N : Below(page, n, m)}
<1>1. CASE n + 1 =< N /\ page.parent[n + 1] = n
  <2>1. FirstChild(page, n) = n + 1
    BY <1>1, FirstChildFollows
  <2> QED BY <1>1, <2>1 DEF Region, Below
<1>2. CASE ~(n + 1 =< N /\ page.parent[n + 1] = n)
  <2>1. FirstChild(page, n) = 0
    BY <1>2, FirstChildFollows
  <2>2. ASSUME NEW m \in 1..N, Below(page, n, m) PROVE FALSE
    <3>1. n + 1 =< N /\ page.parent[n + 1] >= n
      BY <2>2 DEF Below
    <3>2. page.parent[n + 1] < n + 1 /\ page.parent[n + 1] \in Nat
      BY <3>1 DEF IsPage
    <3> QED BY <1>2, <3>1, <3>2
  <2> QED BY <2>1, <2>2 DEF Region
<1> QED BY <1>1, <1>2

\* A loop meets its node, then what is below that, then the siblings' part.
LEMMA RegionSplits ==
    ASSUME NEW page, NEW N \in Nat, IsPage(page, N), NEW n \in 1..N
    PROVE  LET inner == Region(page, N, FirstChild(page, n))
               rest == Region(page, N, NextSibling(page, n))
           IN /\ Region(page, N, n) = {n} \cup inner \cup rest
              /\ inner \subseteq (n + 1)..N /\ rest \subseteq (n + 1)..N
              /\ \A l \in inner, m \in rest : l < m
<1> DEFINE next == NextSibling(page, n)
           inner == Region(page, N, FirstChild(page, n))
           rest == Region(page, N, next)
<1>1. inner = {m \in 1..N : Below(page, n, m)}
  BY InnerRegion
<1>2. \A m \in 1..N : page.parent[m] \in Nat /\ page.parent[m] < m
  BY DEF IsPage
<1>3. inner \subseteq (n + 1)..N
  BY <1>1 DEF Below
<1>4. next = 0 \/ (next \in (n + 1)..N /\ page.parent[next] = page.parent[n])
  BY SiblingFollows
<1>5. rest = IF next = 0 THEN {}
             ELSE {m \in next..N : \A k \in next..m : page.parent[k] >= page.parent[n]}
  BY <1>4 DEF Region
<1>6. rest \subseteq (n + 1)..N
  BY <1>4, <1>5
<1>7. ASSUME NEW l \in inner, NEW m \in rest PROVE l < m
  <2>1. next \in (n + 1)..N /\ page.parent[next] < n /\ next =< m
    BY <1>2, <1>4, <1>5
  <2>2. Below(page, n, l) /\ l \in 1..N
    BY <1>1
  <2>3. ~(next =< l)
    <3> HIDE DEF next
    <3> SUFFICES ASSUME next =< l PROVE FALSE
      OBVIOUS
    <3>1. next \in (n + 1)..l /\ next \in 1..N
      BY <2>1, <2>2
    <3>2. page.parent[next] >= n /\ page.parent[next] \in Nat
      BY <1>2, <2>2, <3>1 DEF Below
    <3> QED BY <2>1, <3>2
  <2> QED BY <1>6, <2>1, <2>2, <2>3
<1>8. ASSUME NEW m \in Region(page, N, n), m # n, m \notin inner PROVE m \in rest
  <2>1. m \in (n + 1)..N /\ \A k \in n..m : page.parent[k] >= page.parent[n]
    BY <1>8 DEF Region
  <2>2. PICK k \in (n + 1)..m : ~(page.parent[k] >= n)
    BY <1>1, <1>8, <2>1 DEF Below
  <2>3. k \in 1..N /\ page.parent[k] >= page.parent[n] /\ page.parent[k] < n
    BY <1>2, <2>1, <2>2
  <2>4. page.parent[k] =< page.parent[n]
    BY <2>2, <2>3 DEF IsPage
  <2>5. page.parent[k] = page.parent[n]
    BY <1>2, <2>3, <2>4
  <2>6. next # 0 /\ next =< k
    BY <1>2, <2>2, <2>3, <2>5, SiblingFollows
  <2> QED BY <1>4, <1>5, <2>1, <2>2, <2>6
<1>9. ASSUME NEW m \in inner PROVE m \in Region(page, N, n)
  <2>1. m \in (n + 1)..N /\ \A k \in (n + 1)..m : page.parent[k] >= n
    BY <1>1, <1>3 DEF Below
  <2>2. \A k \in n..m : page.parent[k] >= page.parent[n]
    BY <1>2, <2>1
  <2> QED BY <2>1, <2>2 DEF Region
<1>10. ASSUME NEW m \in rest PROVE m \in Region(page, N, n)
  <2>1. next # 0 /\ m \in next..N /\ \A k \in next..m : page.parent[k] >= page.parent[n]
    BY <1>5
  <2>2. \A k \in (n + 1)..(next - 1) : page.parent[k] >= n
    BY <2>1, SiblingFollows
  <2>3. next \in (n + 1)..N
    BY <1>4, <2>1
  <2> HIDE DEF next
  <2>4. \A k \in n..m : page.parent[k] >= page.parent[n]
    BY <1>2, <2>1, <2>2, <2>3
  <2> QED BY <2>1, <2>3, <2>4 DEF Region
<1>11. n \in Region(page, N, n)
  BY <1>2 DEF Region
<1> HIDE DEF inner, rest, next
<1>12. Region(page, N, n) = {n} \cup inner \cup rest
  BY <1>8, <1>9, <1>10, <1>11
<1> QED BY <1>3, <1>6, <1>7, <1>12 DEF inner, rest, next

----------------------------------------------------------------------------
(* The walk: what the walker is given                                      *)

\* From a node the walk goes on to later ones only, so that the recursion has a
\* solution: one for the last d nodes is a step from one for the last d - 1.
LEMMA LoopRuns ==
    ASSUME NEW page, NEW N \in Nat, IsPage(page, N), NEW stops
    PROVE  \E loop :
              /\ loop[0] = <<>>
              /\ \A n \in 1..N : loop[n] =
                    Round(page, stops, n, loop[FirstChild(page, n)], loop[NextSibling(page, n)])
              /\ \A node : walkInner(page, node, stops) = loop[FirstChild(page, node)]
<1> DEFINE Turn(f, n) ==
               IF n = 0 THEN <<>>
               ELSE Round(page, stops, n, f[FirstChild(page, n)], f[NextSibling(page, n)])
           From(k) == {0} \cup (k..MaxNodes)
           Solves(f, k) == f = [n \in From(k) |-> Turn(f, n)]
           loop == CHOOSE f : f = [n \in 0..MaxNodes |-> Turn(f, n)]
<1>1. MaxNodes \in Nat /\ N \in 0..MaxNodes
  BY AssertionAssumption DEF IsPage
<1>2. ASSUME NEW n \in 1..MaxNodes
      PROVE  FirstChild(page, n) \in From(n + 1) /\ NextSibling(page, n) \in From(n + 1)
  <2>1. FirstChild(page, n) \in From(n + 1)
    BY <1>1, FirstChildFollows
  <2>2. CASE n \in 1..N
    BY <1>1, <2>1, <2>2, SiblingFollows
  <2>3. CASE n \notin 1..N
    <3>1. DOMAIN page.data = 1..N /\ \A m \in 1..N : ~(m > n)
      BY <1>1, <2>3 DEF IsPage
    <3>2. NextSibling(page, n) = 0
      BY <3>1 DEF NextSibling, Least
    <3> QED BY <2>1, <3>2
  <2> QED BY <2>2, <2>3
<1>3. ASSUME NEW k \in 1..MaxNodes, NEW g, Solves(g, k + 1)
      PROVE  \E f : Solves(f, k)
  <2> DEFINE h == [n \in From(k) |-> Turn(g, n)]
  <2>1. \A m \in From(k + 1) : m \in From(k) /\ h[m] = g[m]
    <3> TAKE m \in From(k + 1)
    <3>1. m \in From(k)
      BY <1>1
    <3>2. g[m] = Turn(g, m)
      <4> HIDE DEF Turn, From
      <4> QED BY <1>3
    <3> HIDE DEF Turn, From
    <3> QED BY <3>1, <3>2
  <2>2. ASSUME NEW n \in From(k) PROVE Turn(g, n) = Turn(h, n)
    <3>1. CASE n = 0
      BY <3>1
    <3>2. CASE n # 0
      <4>1. n \in 1..MaxNodes /\ From(n + 1) \subseteq From(k + 1)
        BY <1>1, <3>2
      <4>2. FirstChild(page, n) \in From(k + 1) /\ NextSibling(page, n) \in From(k + 1)
        <5> HIDE DEF From
        <5> QED BY <1>2, <4>1
      <4>3. /\ g[FirstChild(page, n)] = h[FirstChild(page, n)]
            /\ g[NextSibling(page, n)] = h[NextSibling(page, n)]
        <5> HIDE DEF From, h
        <5> QED BY <2>1, <4>2
      <4> HIDE DEF From, h
      <4> QED BY <3>2, <4>3
    <3> QED BY <3>1, <3>2
  <2>3. Solves(h, k)
    <3> HIDE DEF Turn, From
    <3>1. h = [n \in From(k) |-> Turn(h, n)]
      BY <2>2
    <3> HIDE DEF h
    <3> QED BY <3>1
  <2> HIDE DEF h, Solves
  <2> QED BY <2>3
<1>4. \E g : Solves(g, MaxNodes + 1)
  <2> DEFINE g == [n \in From(MaxNodes + 1) |-> <<>>]
  <2>1. From(MaxNodes + 1) = {0}
    BY <1>1
  <2>2. g = [n \in From(MaxNodes + 1) |-> Turn(g, n)]
    BY <2>1
  <2> HIDE DEF g, Turn, From
  <2> QED BY <2>2
<1>5. \A d \in 0..MaxNodes : \E g : Solves(g, MaxNodes + 1 - d)
  <2> HIDE DEF Solves
  <2> DEFINE bad == {d \in 0..MaxNodes : ~\E g : Solves(g, MaxNodes + 1 - d)}
  <2> SUFFICES ASSUME bad # {} PROVE FALSE
    OBVIOUS
  <2>1. bad \in SUBSET Nat
    BY <1>1
  <2>2. PICK d \in bad : \A e \in bad : d =< e
    <3> HIDE DEF bad
    <3> QED BY <2>1, LeastNumber
  <2>3. d \in 0..MaxNodes /\ ~\E g : Solves(g, MaxNodes + 1 - d)
    BY <2>2
  <2>4. d # 0
    BY <1>1, <1>4, <2>3
  <2>5. d - 1 \in 0..MaxNodes /\ d - 1 \notin bad
    BY <1>1, <2>2, <2>3, <2>4
  <2>6. PICK g : Solves(g, MaxNodes + 1 - (d - 1))
    BY <2>5
  <2>7. /\ MaxNodes + 1 - d \in 1..MaxNodes
        /\ MaxNodes + 1 - (d - 1) = (MaxNodes + 1 - d) + 1
    BY <1>1, <2>3, <2>4
  <2> QED BY <1>3, <2>3, <2>6, <2>7
<1>6. \E f : f = [n \in 0..MaxNodes |-> Turn(f, n)]
  <2>1. From(1) = 0..MaxNodes
    BY <1>1
  <2>2. MaxNodes \in 0..MaxNodes /\ MaxNodes + 1 - MaxNodes = 1
    BY <1>1
  <2>3. \E g : Solves(g, 1)
    <3> HIDE DEF Solves
    <3> QED BY <1>5, <2>2
  <2> HIDE DEF Turn, From
  <2> QED BY <2>1, <2>3
<1>7. loop = [n \in 0..MaxNodes |-> Turn(loop, n)]
  <2> HIDE DEF Turn
  <2> QED BY <1>6
<1>8. \A node : walkInner(page, node, stops) = loop[FirstChild(page, node)]
  BY DEF walkInner
<1> HIDE DEF loop
<1>9. \A n \in 0..MaxNodes : loop[n] = Turn(loop, n)
  <2> HIDE DEF Turn
  <2> QED BY <1>7
<1>10. loop[0] = <<>>
  BY <1>1, <1>9
<1>11. \A n \in 1..N : loop[n] =
          Round(page, stops, n, loop[FirstChild(page, n)], loop[NextSibling(page, n)])
  BY <1>1, <1>9
<1> QED BY <1>8, <1>10, <1>11

\* In the order of the document, and nothing after a stop.
InOrder(s, stops) ==
    /\ s \in Seq(Nat)
    /\ \A i, j \in DOMAIN s : i < j => s[i] < s[j] /\ s[i] \notin stops

\* What the walker is given of a set of nodes: no text, and all else there is
\* before the first stop.
Gives(page, stops, nodes, s) ==
    /\ InOrder(s, stops)
    /\ ToSet(s) \subseteq {m \in nodes : page.data[m] # "text"}
    /\ \A m \in nodes :
          page.data[m] # "text" => m \in ToSet(s) \/ \E k \in ToSet(s) \cap stops : k < m

LEMMA SetOfConcat ==
    ASSUME NEW s \in Seq(Nat), NEW t \in Seq(Nat)
    PROVE  s \o t \in Seq(Nat) /\ ToSet(s \o t) = ToSet(s) \cup ToSet(t)
<1> DEFINE u == s \o t
<1>1. /\ u \in Seq(Nat) /\ Len(s) \in Nat /\ Len(t) \in Nat /\ Len(u) = Len(s) + Len(t)
      /\ \A i \in 1..Len(u) : u[i] = IF i =< Len(s) THEN s[i] ELSE t[i - Len(s)]
  OBVIOUS
<1>2. /\ DOMAIN u = 1..(Len(s) + Len(t)) /\ DOMAIN s = 1..Len(s) /\ DOMAIN t = 1..Len(t)
  BY <1>1
<1> HIDE DEF u
<1>3. ASSUME NEW i \in DOMAIN u PROVE u[i] \in ToSet(s) \cup ToSet(t)
  <2>1. CASE i =< Len(s)
    BY <1>1, <1>2, <2>1 DEF ToSet
  <2>2. CASE ~(i =< Len(s))
    <3>1. i - Len(s) \in DOMAIN t /\ u[i] = t[i - Len(s)]
      BY <1>1, <1>2, <2>2
    <3> QED BY <3>1 DEF ToSet
  <2> QED BY <2>1, <2>2
<1>4. ASSUME NEW i \in DOMAIN s PROVE s[i] \in ToSet(u)
  <2>1. i \in DOMAIN u /\ u[i] = s[i]
    BY <1>1, <1>2
  <2> QED BY <2>1 DEF ToSet
<1>5. ASSUME NEW i \in DOMAIN t PROVE t[i] \in ToSet(u)
  <2>1. PICK k \in 1..Len(u) : ~(k =< Len(s)) /\ k - Len(s) = i
    <3>1. i + Len(s) \in 1..Len(u) /\ ~(i + Len(s) =< Len(s)) /\ i + Len(s) - Len(s) = i
      BY <1>1, <1>2
    <3> QED BY <3>1
  <2>2. k \in DOMAIN u /\ u[k] = t[i]
    BY <1>1, <1>2, <2>1
  <2> QED BY <2>2 DEF ToSet
<1>6. ToSet(u) = ToSet(s) \cup ToSet(t)
  BY <1>3, <1>4, <1>5 DEF ToSet
<1> QED BY <1>1, <1>6 DEF u

\* Two parts are in order if each is, the first has no stop and all of it is
\* before the second.
LEMMA OrderOfConcat ==
    ASSUME NEW stops, NEW s, NEW t, InOrder(s, stops), InOrder(t, stops),
           ToSet(s) \cap stops = {}, \A l \in ToSet(s), m \in ToSet(t) : l < m
    PROVE  InOrder(s \o t, stops)
<1> DEFINE u == s \o t
<1>1. /\ u \in Seq(Nat) /\ Len(s) \in Nat /\ Len(t) \in Nat /\ Len(u) = Len(s) + Len(t)
      /\ \A i \in 1..Len(u) : u[i] = IF i =< Len(s) THEN s[i] ELSE t[i - Len(s)]
      /\ s \in Seq(Nat) /\ t \in Seq(Nat)
  BY DEF InOrder
<1>2. /\ DOMAIN u = 1..(Len(s) + Len(t)) /\ DOMAIN s = 1..Len(s) /\ DOMAIN t = 1..Len(t)
  BY <1>1
<1>3. ASSUME NEW i \in DOMAIN s PROVE s[i] \in ToSet(s) /\ s[i] \notin stops
  BY <1>3 DEF ToSet
<1>4. ASSUME NEW i \in DOMAIN t PROVE t[i] \in ToSet(t)
  BY <1>4 DEF ToSet
<1> HIDE DEF u
<1>5. ASSUME NEW i \in DOMAIN u, NEW j \in DOMAIN u, i < j
      PROVE  u[i] < u[j] /\ u[i] \notin stops
  <2>1. CASE j =< Len(s)
    <3>1. i \in DOMAIN s /\ j \in DOMAIN s /\ u[i] = s[i] /\ u[j] = s[j]
      BY <1>1, <1>2, <1>5, <2>1
    <3> QED BY <1>5, <3>1 DEF InOrder
  <2>2. CASE ~(j =< Len(s)) /\ i =< Len(s)
    <3>1. i \in DOMAIN s /\ j - Len(s) \in DOMAIN t /\ u[i] = s[i] /\ u[j] = t[j - Len(s)]
      BY <1>1, <1>2, <1>5, <2>2
    <3> QED BY <1>3, <1>4, <3>1
  <2>3. CASE ~(i =< Len(s))
    <3>1. ~(j =< Len(s)) /\ i \in 1..Len(u) /\ j \in 1..Len(u)
      BY <1>1, <1>2, <1>5, <2>3
    <3>2. /\ i - Len(s) \in 1..Len(t) /\ j - Len(s) \in 1..Len(t)
          /\ i - Len(s) < j - Len(s)
      BY <1>1, <1>5, <2>3, <3>1
    <3>3. u[i] = t[i - Len(s)] /\ u[j] = t[j - Len(s)]
      BY <1>1, <2>3, <3>1
    <3> QED BY <1>2, <3>2, <3>3 DEF InOrder
  <2> QED BY <1>2, <2>1, <2>2, <2>3
<1> QED BY <1>1, <1>5 DEF InOrder, u

\* One turn of a loop.
LEMMA RoundGives ==
    ASSUME NEW page, NEW N \in Nat, IsPage(page, N), NEW n \in 1..N, NEW stops,
           NEW inner, NEW rest,
           Gives(page, stops, Region(page, N, FirstChild(page, n)), inner),
           Gives(page, stops, Region(page, N, NextSibling(page, n)), rest)
    PROVE  Gives(page, stops, Region(page, N, n), Round(page, stops, n, inner, rest))
<1> DEFINE below == Region(page, N, FirstChild(page, n))
           after == Region(page, N, NextSibling(page, n))
           here == Region(page, N, n)
<1>1. /\ here = {n} \cup below \cup after
      /\ below \subseteq (n + 1)..N /\ after \subseteq (n + 1)..N
      /\ \A l \in below, m \in after : l < m
  BY RegionSplits
<1>2. page.data[n] = "text" => below = {}
  <2>1. page.data[n] = "text" => ~(n + 1 =< N /\ page.parent[n + 1] = n)
    BY DEF IsPage
  <2>2. page.data[n] = "text" => FirstChild(page, n) = 0
    BY <2>1, FirstChildFollows
  <2> QED BY <2>2 DEF Region
<1>3. Gives(page, stops, below, inner) /\ Gives(page, stops, after, rest)
  OBVIOUS
<1> HIDE DEF below, after, here
<1>4. InOrder(<<n>>, stops) /\ ToSet(<<n>>) = {n}
  BY DEF InOrder, ToSet
<1>5. CASE page.data[n] = "text"
  <2>1. Round(page, stops, n, inner, rest) = rest
    BY <1>5 DEF Round
  <2> QED BY <1>1, <1>2, <1>3, <1>5, <2>1 DEF Gives, here
<1>6. CASE page.data[n] # "text" /\ n \in stops
  <2>1. Round(page, stops, n, inner, rest) = <<n>>
    BY <1>6 DEF Round
  <2>2. \A m \in here : m = n \/ n < m
    BY <1>1
  <2> QED BY <1>1, <1>4, <1>6, <2>1, <2>2 DEF Gives, here
<1>7. ASSUME page.data[n] # "text", n \notin stops
      PROVE  /\ InOrder(<<n>> \o inner, stops)
             /\ ToSet(<<n>> \o inner) = {n} \cup ToSet(inner)
  <2>1. \A l \in ToSet(<<n>>), m \in ToSet(inner) : l < m
    <3>1. \A m \in ToSet(inner) : m \in (n + 1)..N
      BY <1>1, <1>3 DEF Gives
    <3> QED BY <1>4, <3>1
  <2>2. inner \in Seq(Nat) /\ <<n>> \in Seq(Nat)
    BY <1>3, <1>4 DEF Gives, InOrder
  <2> QED BY <1>3, <1>4, <1>7, <2>1, <2>2, OrderOfConcat, SetOfConcat DEF Gives
<1>8. CASE page.data[n] # "text" /\ n \notin stops /\ ToSet(inner) \cap stops # {}
  <2> DEFINE s == <<n>> \o inner
  <2>1. Round(page, stops, n, inner, rest) = s
    BY <1>8 DEF Round
  <2>2. InOrder(s, stops) /\ ToSet(s) = {n} \cup ToSet(inner)
    BY <1>7, <1>8
  <2> HIDE DEF s
  <2>3. PICK k \in ToSet(inner) \cap stops : \A m \in after : k < m
    BY <1>1, <1>3, <1>8 DEF Gives
  <2>4. Gives(page, stops, here, s)
    BY <1>1, <1>3, <1>8, <2>2, <2>3 DEF Gives
  <2> QED BY <2>1, <2>4 DEF here
<1>9. CASE page.data[n] # "text" /\ n \notin stops /\ ToSet(inner) \cap stops = {}
  <2> DEFINE t == <<n>> \o inner
             s == t \o rest
  <2>1. Round(page, stops, n, inner, rest) = s
    BY <1>9 DEF Round
  <2>2. InOrder(t, stops) /\ ToSet(t) = {n} \cup ToSet(inner)
    BY <1>7, <1>9
  <2> HIDE DEF t
  <2>3. \A l \in ToSet(t), m \in ToSet(rest) : l < m
    <3>1. ToSet(inner) \subseteq below /\ ToSet(rest) \subseteq after
      BY <1>3 DEF Gives
    <3>2. \A m \in ToSet(rest) : m \in (n + 1)..N
      BY <1>1, <3>1
    <3>3. \A l \in ToSet(inner), m \in ToSet(rest) : l < m
      BY <1>1, <3>1
    <3>4. \A m \in ToSet(rest) : n < m
      BY <3>2
    <3> QED BY <2>2, <3>3, <3>4
  <2>4. InOrder(s, stops)
    BY <1>3, <1>9, <2>2, <2>3, OrderOfConcat DEF Gives
  <2>5. ToSet(s) = {n} \cup ToSet(inner) \cup ToSet(rest)
    BY <1>3, <2>2, SetOfConcat DEF Gives, InOrder
  <2> HIDE DEF s
  <2>6. Gives(page, stops, here, s)
    BY <1>1, <1>3, <1>9, <2>4, <2>5 DEF Gives
  <2> QED BY <2>1, <2>6 DEF here
<1> QED BY <1>5, <1>6, <1>8, <1>9

\* The walk over what is below a node; the last node for which a loop would be
\* wrong has only loops that are right to rely on.
LEMMA WalkGives ==
    ASSUME NEW page, NEW N \in Nat, IsPage(page, N), NEW stops, NEW node \in 0..N
    PROVE  Gives(page, stops, {m \in 1..N : Below(page, node, m)}, walkInner(page, node, stops))
<1>1. PICK loop :
         /\ loop[0] = <<>>
         /\ \A n \in 1..N : loop[n] =
               Round(page, stops, n, loop[FirstChild(page, n)], loop[NextSibling(page, n)])
         /\ \A n : walkInner(page, n, stops) = loop[FirstChild(page, n)]
  BY LoopRuns
<1> DEFINE Right(n) == Gives(page, stops, Region(page, N, n), loop[n])
           wrong == {n \in 0..N : ~Right(n)}
<1>2. Right(0)
  <2>1. Region(page, N, 0) = {} /\ loop[0] \in Seq(Nat) /\ loop[0] = <<>>
    BY <1>1 DEF Region
  <2> QED BY <2>1 DEF Gives, InOrder, ToSet
<1>3. ASSUME NEW n \in 1..N, \A m \in (n + 1)..N : Right(m)
      PROVE  Right(n)
  <2>1. FirstChild(page, n) \in {0} \cup ((n + 1)..N)
    BY FirstChildFollows
  <2>2. NextSibling(page, n) \in {0} \cup ((n + 1)..N)
    BY SiblingFollows
  <2>3. Right(FirstChild(page, n)) /\ Right(NextSibling(page, n))
    <3> HIDE DEF Right
    <3> QED BY <1>2, <1>3, <2>1, <2>2
  <2> QED BY <1>1, <2>3, RoundGives
<1>4. wrong = {}
  <2> HIDE DEF Right
  <2> SUFFICES ASSUME wrong # {} PROVE FALSE
    OBVIOUS
  <2>1. PICK n \in wrong : \A m \in wrong : n >= m
    <3> HIDE DEF wrong
    <3>1. wrong \in SUBSET (0..N)
      BY DEF wrong
    <3> QED BY <3>1, GreatestNumber
  <2>2. n \in 0..N /\ ~Right(n) /\ \A m \in (n + 1)..N : Right(m)
    BY <2>1
  <2> QED BY <1>2, <1>3, <2>2
<1>5. FirstChild(page, node) \in 0..N
  BY FirstChildFollows
<1>6. Right(FirstChild(page, node))
  <2> HIDE DEF Right
  <2> QED BY <1>4, <1>5
<1> QED BY <1>1, <1>6, InnerRegion

----------------------------------------------------------------------------
(* The page is read as it is written                                       *)

\* What the walk stops at is the first form.
LEMMA FirstFormIsFound ==
    ASSUME NEW page, NEW N \in Nat, IsPage(page, N)
    PROVE  FindFirstForm(page) = Least(Forms(page))
<1> DEFINE forms == Forms(page)
           seen == walkInner(page, 0, forms)
           noted == {i \in DOMAIN seen : seen[i] \in forms}
           all == {m \in 1..N : Below(page, 0, m)}
<1>1. Gives(page, forms, all, seen)
  BY WalkGives
<1>2. FindFirstForm(page) = IF noted = {} THEN 0 ELSE seen[Max(noted)]
  BY DEF FindFirstForm
<1>3. forms \in SUBSET Nat /\ forms = {n \in 1..N : page.data[n] = "form"}
  BY DEF Forms, IsPage
<1>4. all = 1..N
  BY DEF Below, IsPage
<1>5. seen \in Seq(Nat) /\ \A i, j \in DOMAIN seen : i < j => seen[i] \notin forms
  <2> HIDE DEF seen, forms, all
  <2> QED BY <1>1 DEF Gives, InOrder
<1> HIDE DEF seen, forms, all
<1>6. CASE forms = {}
  BY <1>2, <1>6 DEF Least, forms
<1>7. CASE forms # {}
  <2> DEFINE first == Min(forms)
  <2>1. first \in forms /\ \A m \in forms : first =< m
    BY <1>3, <1>7, MinIsLeast
  <2> HIDE DEF first
  <2>2. first \in 1..N /\ page.data[first] # "text"
    BY <1>3, <2>1
  <2>3. \A k \in forms : ~(k < first)
    BY <1>3, <2>1, <2>2
  <2>4. first \in ToSet(seen)
    BY <1>1, <1>4, <2>2, <2>3 DEF Gives
  <2>5. PICK i \in DOMAIN seen : seen[i] = first
    BY <2>4 DEF ToSet
  <2>6. noted \in SUBSET Nat /\ i \in noted
    BY <1>5, <2>1, <2>5
  <2>7. \A j \in noted : i >= j
    BY <1>5, <2>1, <2>5
  <2>8. Max(noted) = i /\ noted # {}
    <3> HIDE DEF noted
    <3> QED BY <2>6, <2>7, GreatestIsMax
  <2> HIDE DEF noted
  <2> QED BY <1>2, <1>7, <2>5, <2>8 DEF Least, first, forms
<1> QED BY <1>6, <1>7

\* What a name stands for is the last input of that name below the form.
LEMMA LastInputCounts ==
    ASSUME NEW page, NEW N \in Nat, IsPage(page, N), NEW form \in 0..N, NEW name \in Inputs
    PROVE  LET theirs == {n \in 1..N : page.data[n] = name /\ Below(page, form, n)}
               values == collectFormValues(page, form)
           IN /\ name \in DOMAIN values <=> theirs # {}
              /\ theirs # {} => values[name] = Max(theirs)
<1> DEFINE theirs == {n \in 1..N : page.data[n] = name /\ Below(page, form, n)}
           inside == {n \in 1..N : Below(page, form, n)}
           values == collectFormValues(page, form)
           seen == walkInner(page, form, {})
           named == {i \in DOMAIN seen : page.data[seen[i]] = name}
<1>1. Gives(page, {}, inside, seen)
  BY WalkGives
<1>2. /\ name \in DOMAIN values <=> named # {}
      /\ named # {} => values[name] = seen[Max(named)]
  BY DEF collectFormValues
<1>3. name # "text"
  BY DEF Inputs
<1> HIDE DEF seen, values
<1>4. /\ seen \in Seq(Nat) /\ \A i, j \in DOMAIN seen : i < j => seen[i] < seen[j]
      /\ \A i \in DOMAIN seen : seen[i] \in inside
      /\ \A m \in inside : page.data[m] # "text" => \E i \in DOMAIN seen : seen[i] = m
  <2> HIDE DEF inside
  <2> QED BY <1>1 DEF Gives, InOrder, ToSet
<1>5. \A i \in named : seen[i] \in theirs
  BY <1>4
<1>6. \A m \in theirs : \E i \in named : seen[i] = m
  BY <1>3, <1>4
<1>7. ASSUME theirs # {} PROVE seen[Max(named)] = Max(theirs)
  <2>1. named # {}
    BY <1>6, <1>7
  <2>2. Len(seen) \in Nat /\ named \in SUBSET (0..Len(seen))
    BY <1>4
  <2> DEFINE last == Max(named)
  <2>3. last \in named /\ \A i \in named : last >= i
    <3> HIDE DEF named
    <3> QED BY <2>1, <2>2, MaxIsGreatest
  <2> HIDE DEF last
  <2>4. seen[last] \in theirs /\ theirs \in SUBSET Nat
    BY <1>5, <2>3
  <2>5. ASSUME NEW m \in theirs PROVE seen[last] >= m
    <3>1. PICK i \in named : seen[i] = m
      BY <1>6
    <3>2. i \in Nat /\ last \in Nat /\ last >= i
      BY <2>2, <2>3
    <3>3. i = last \/ i < last
      BY <3>2
    <3>4. i \in DOMAIN seen /\ last \in DOMAIN seen
      BY <2>3
    <3>5. m \in Nat /\ seen[last] \in Nat
      BY <2>4
    <3> HIDE DEF named, theirs
    <3> QED BY <1>4, <3>1, <3>3, <3>4, <3>5
  <2>6. Max(theirs) = seen[last]
    <3> HIDE DEF theirs
    <3> QED BY <2>4, <2>5, GreatestIsMax
  <2> QED BY <2>6 DEF last
<1>8. theirs # {} <=> named # {}
  BY <1>5, <1>6
<1> HIDE DEF named, theirs
<1> QED BY <1>2, <1>7, <1>8 DEF values, theirs

\* No page is read in another way, whatever the status (websso.go:71-86,
\* html.go:18-121).
LEMMA NoneIsMisread == Misread = {}
<1> SUFFICES ASSUME NEW page \in Pages, NEW status \in {200, 404, 500}
             PROVE  ReadsFirstForm(page, status)
  BY DEF Misread
<1>1. PICK N \in Nat : IsPage(page, N)
  BY PageShape
<1> DEFINE first == Least(Forms(page))
           theirs == {n \in 1..N : page.data[n] = "SAMLResponse" /\ Below(page, first, n)}
           values == collectFormValues(page, first)
<1>2. FindFirstForm(page) = first
  BY <1>1, FirstFormIsFound
<1>3. DOMAIN page.data = 1..N
  BY <1>1 DEF IsPage
<1>4. first \in 0..N
  <2>1. Forms(page) \in SUBSET Nat /\ Forms(page) \subseteq 1..N
    BY <1>3 DEF Forms
  <2> QED BY <2>1, MinIsLeast DEF Least
<1> HIDE DEF first
<1>5. /\ "SAMLResponse" \in DOMAIN values <=> theirs # {}
      /\ theirs # {} => values["SAMLResponse"] = Max(theirs)
  <2>1. "SAMLResponse" \in Inputs
    BY DEF Inputs
  <2> QED BY <1>1, <1>4, <2>1, LastInputCounts
<1>6. GetSAMLAssertion(status, page) =
         IF status = 500 \/ first = 0 THEN 0
         ELSE IF "SAMLResponse" \in DOMAIN values THEN values["SAMLResponse"] ELSE 0
  BY <1>2 DEF GetSAMLAssertion
<1> HIDE DEF values
<1>7. GetSAMLAssertion(status, page) =
         IF status = 500 \/ first = 0 \/ theirs = {} THEN 0 ELSE Max(theirs)
  <2> HIDE DEF theirs
  <2> QED BY <1>5, <1>6
<1> QED BY <1>3, <1>7 DEF ReadsFirstForm, first

\* Whatever page answers a command that asks Okta for an assertion, the assertion
\* is of the form that comes first in the page, and the last there is in it, for
\* pages of any size (html.go:100-121, websso.go:71-86).
THEOREM AssertionIsOfFirstForm == Spec => []AssertionOfFirstForm
<1>1. AssertionOfFirstForm
  BY NoneIsMisread DEF AssertionOfFirstForm
<1> QED BY <1>1, PTL

----------------------------------------------------------------------------
(* What get asks for                                                       *)

\* Each name that `roles` prints is one that get takes, and a name that it does
\* not print is unknown to get, for assertions of any length (roles.go:81-114).
THEOREM PrintedRolesCanBeGot == Spec => []PrintedCanBeGot
<1>1. PrintedCanBeGot
  BY NoneIsMistaken DEF PrintedCanBeGot
<1> QED BY <1>1, PTL

\* A role that was found is one of those offered.
LEMMA FoundIsOffered ==
    ASSUME NEW id \in Ids, NEW name \in RolesOf[id]
    PROVE  IsOffered(name, findRoleInSAML(name, Offered[id]), Offered[id])
<1> DEFINE values == Offered[id]
           found == findRoleInSAML(name, values)
<1>1. values \in Assertions /\ \A i \in DOMAIN values : Paired(values[i])
  BY OfferedAssumption
<1>2. name \in Segments /\ found # NoPair
  BY OfferedAssumption
<1>3. ListedIsFound(values)
  BY <1>1, NoneIsMistaken DEF Mistaken
<1> HIDE DEF found
<1> QED BY <1>2, <1>3 DEF ListedIsFound, found

\* What get asks of AWS is a role of the name it was given with the provider it
\* was offered with, whatever happens meanwhile (get.go:176-192, roles.go:44-95).
THEOREM AskedForWhatIsOffered == Spec => []AskedAsOffered
<1>1. PrintInv => AskedAsOffered
  <2> SUFFICES ASSUME PrintInv, pc = "assume" PROVE AskedAsOffered
    BY DEF AskedAsOffered
  <2>1. req \in Requests
    BY DEF PrintInv, TypeOK
  <2>2. req.id \in Ids /\ req.role \in RolesOf[req.id]
    BY <2>1 DEF PrintInv, NewInv, Requests
  <2> QED BY <2>2, FoundIsOffered DEF AskedAsOffered, Asked
<1> QED BY <1>1, PrintInvHolds, PTL
=============================================================================
