--------------------------- MODULE XmlTreeProofs ---------------------------
(***************************************************************************)
(* That the linked lists of XmlTree implement the ordered tree of          *)
(* OrderedTree, for every number of nodes and attributes.                  *)
(*                                                                         *)
(* The proof carries with the pointers what they stand for.  Held says     *)
(* that the lists l of one kind hold the sequences q: first, next and the  *)
(* cyclic prev pointers are those of q, nothing is in two lists or twice   *)
(* in one, and what is in none has no pointers.  Each list operation keeps *)
(* Held and is, on the sequences, an insertion or a deletion; what is in a *)
(* list then follows (ListIs) and no more is said of pointers.             *)
(*                                                                         *)
(* Who is under whom is Down, by closed sets: what every set has that has  *)
(* the node and the children of its members. Tree joins Held, for both     *)
(* kinds of lists, with what makes them a tree: whatever exists hangs in   *)
(* one list, that of its parent, and every closed set with the document    *)
(* has it, so that there are no cycles. TreeInv, which says this of the    *)
(* links and the sequences they hold, is inductive.                        *)
(*                                                                         *)
(* The copying of a tree is a walk.  Its invariant (Walking) has three     *)
(* ghosts: f, from each node that was copied to its copy, and the nodes    *)
(* the walk has come to (V) and left (L).  A turn of the walk adds one     *)
(* node to V or to L, so that 2 * MaxNodes turns are enough, and at the    *)
(* end f shows the copy to have the shape of the original, or memory to    *)
(* be used up.                                                             *)
(***************************************************************************)
EXTENDS XmlTree, SequenceTheorems, FiniteSetTheorems, TLAPS

-----------------------------------------------------------------------------
(* Induction and recursion, by sets (as in ValuesProofs, whose variables   *)
(* and constants are not wanted here).                                     *)

\* Induction over the natural numbers, with a set where the library has an operator: a
\* number that is not in S would leave S no place to go on from below it.
LEMMA SetInduction ==
  ASSUME NEW S, 0 \in S, \A n \in Nat : n \in S => n + 1 \in S
  PROVE  \A n \in Nat : n \in S
<1> SUFFICES ASSUME NEW n \in Nat, n \notin S PROVE FALSE
  OBVIOUS
<1> DEFINE A == {k \in 0 .. n : k \in S}
           B == A \ {0}
           f == [k \in A |-> k + 1]
<1>1. IsFiniteSet(A)
  <2>1. IsFiniteSet(0 .. n) BY FS_Interval
  <2> QED BY <2>1, FS_Subset
<1>2. 0 \in A OBVIOUS
<1>3. IsFiniteSet(B) /\ Cardinality(B) = Cardinality(A) - 1 /\ Cardinality(A) \in Nat
  BY <1>1, <1>2, FS_RemoveElement, FS_CardinalityType
<1>4. f \in [A -> B]
  <2>1. \A k \in A : k + 1 \in B OBVIOUS
  <2> QED BY <2>1
<1>5. \E x, y \in A : x # y /\ f[x] = f[y]
  <2>1. Cardinality(B) < Cardinality(A) BY <1>3
  <2> HIDE DEF A, B, f
  <2> QED BY <1>1, <1>3, <1>4, <2>1, FS_PigeonHole
<1> QED BY <1>5

\* A function may be defined by what each of its values makes of the one before.
Follows(g, n, V, v0, D) ==
  g \in [0 .. n -> V] /\ g[0] = v0 /\ \A i \in 1 .. n : g[i] = D[<<g[i - 1], i>>]

\* There is a function that follows such a rule.
LEMMA Recursion ==
  ASSUME NEW n \in Nat, NEW V, NEW v0 \in V, NEW D \in [V \X (1 .. n) -> V]
  PROVE  \E g : Follows(g, n, V, v0, D)
<1> DEFINE Good(g, m) == g \in [0 .. m -> V] /\ g[0] = v0 /\ \A i \in 1 .. m : g[i] = D[<<g[i - 1], i>>]
           S == {m \in Nat : m <= n => \E g : Good(g, m)}
<1>1. 0 \in S
  <2>1. Good([k \in 0 .. 0 |-> v0], 0) OBVIOUS
  <2> QED BY <2>1
<1>2. ASSUME NEW m \in Nat, m \in S PROVE m + 1 \in S
  <2> SUFFICES ASSUME m + 1 <= n PROVE \E g : Good(g, m + 1)
    OBVIOUS
  <2>1. PICK g : Good(g, m) BY <1>2
  <2> DEFINE last == D[<<g[m], m + 1>>]
             h == [k \in 0 .. m + 1 |-> IF k <= m THEN g[k] ELSE last]
  <2>2. last \in V
    <3>1. g[m] \in V /\ m + 1 \in 1 .. n BY <2>1
    <3> QED BY <3>1
  <2>3. /\ \A k \in 0 .. m : h[k] = g[k] /\ g[k] \in V
        /\ h[m + 1] = last
    BY <2>1
  <2>4. h \in [0 .. m + 1 -> V] BY <2>1, <2>2
  <2>5. ASSUME NEW i \in 1 .. m + 1 PROVE h[i] = D[<<h[i - 1], i>>]
    <3>1. CASE i = m + 1
      <4>1. h[i - 1] = g[m] BY <2>3, <3>1
      <4> QED BY <4>1, <2>3, <3>1
    <3>2. CASE i # m + 1
      <4>1. i \in 1 .. m /\ i - 1 \in 0 .. m BY <3>2
      <4>2. h[i] = g[i] /\ h[i - 1] = g[i - 1] BY <4>1, <2>3
      <4> QED BY <4>1, <4>2, <2>1
    <3> QED BY <3>1, <3>2
  <2>6. h[0] = v0 BY <2>1, <2>3
  <2> QED BY <2>4, <2>5, <2>6
<1>3. n \in S
  <2> HIDE DEF S
  <2> QED BY <1>1, <1>2, SetInduction
<1> QED BY <1>3 DEF Follows

\* A set of positions has a least one.
LEMMA LeastElement ==
  ASSUME NEW n \in Nat, NEW I, I \subseteq 1 .. n, I # {}
  PROVE  \E i \in I : \A j \in I : i <= j
<1> SUFFICES ASSUME \A i \in I : \E j \in I : ~(i <= j) PROVE FALSE
  OBVIOUS
<1> DEFINE S == {k \in Nat : \A i \in I : ~(i <= k)}
<1>1. 0 \in S OBVIOUS
<1>2. ASSUME NEW k \in Nat, k \in S PROVE k + 1 \in S
  <2> SUFFICES ASSUME NEW i \in I, i <= k + 1 PROVE FALSE OBVIOUS
  <2>1. PICK j \in I : ~(i <= j) OBVIOUS
  <2>2. ~(j <= k) BY <1>2
  <2>3. i \in Nat /\ j \in Nat OBVIOUS
  <2> QED BY <2>1, <2>2, <2>3
<1>3. n \in S
  <2> HIDE DEF S
  <2> QED BY <1>1, <1>2, SetInduction
<1>4. PICK i \in I : TRUE OBVIOUS
<1>5. i \in 1 .. n /\ i <= n OBVIOUS
<1>6. ~(i <= n) BY <1>3
<1> QED BY <1>5, <1>6

-----------------------------------------------------------------------------
(* Lists: the sequences q and the pointers that hold them.                  *)

Kinds == {"free", "document"} \union NewKinds
Lists(M) == [first : [Nodes -> M \union {Null}], prev : [M -> M \union {Null}], next : [M -> M \union {Null}]]

Has(s, x) == \E i \in 1 .. Len(s) : s[i] = x

Chain(l, o, s) ==
  /\ l.first[o] = IF Len(s) = 0 THEN Null ELSE s[1]
  /\ \A i \in 1 .. Len(s) : l.next[s[i]] = IF i = Len(s) THEN Null ELSE s[i + 1]
  /\ \A i \in 1 .. Len(s) : l.prev[s[i]] = IF i = 1 THEN s[Len(s)] ELSE s[i - 1]

Held(l, M, q) ==
  /\ l \in Lists(M) /\ q \in [Nodes -> Seq(M)]
  /\ \A o \in Nodes : Chain(l, o, q[o])
  /\ \A o, u \in Nodes : \A i \in 1 .. Len(q[o]), j \in 1 .. Len(q[u]) : q[o][i] = q[u][j] => o = u /\ i = j
  /\ \A x \in M : (\A o \in Nodes : ~Has(q[o], x)) => l.prev[x] = Null /\ l.next[x] = Null

\* What can be in lists.
Listed(M) == M \subseteq Nat \ {0} /\ IsFiniteSet(M) /\ Cardinality(M) <= MaxListed

\* Nodes and attributes are both what lists can be made of.
LEMMA WhatIsListed == MaxListed \in Nat /\ Listed(Nodes) /\ Listed(Attributes)
<1>1. MaxNodes \in Nat /\ MaxAttributes \in Nat BY TreeAssumption
<1>2. IsFiniteSet(1 .. MaxNodes) /\ Cardinality(1 .. MaxNodes) = MaxNodes BY <1>1, FS_Interval
<1>3. IsFiniteSet(1 .. MaxAttributes) /\ Cardinality(1 .. MaxAttributes) = MaxAttributes BY <1>1, FS_Interval
<1> QED BY <1>1, <1>2, <1>3 DEF MaxListed, Listed, Nodes, Attributes

\* A list without repetition has no more members than there are.
LEMMA ListsAreShort ==
  ASSUME NEW M, Listed(M), NEW s \in Seq(M), \A i, j \in 1 .. Len(s) : s[i] = s[j] => i = j
  PROVE  Len(s) <= Cardinality(M) /\ Len(s) <= MaxListed
<1> DEFINE n == Len(s)
           I == 1 .. n
<1>1. n \in Nat /\ IsFiniteSet(I) /\ Cardinality(I) = n
  <2>1. n \in Nat OBVIOUS
  <2> HIDE DEF n
  <2> QED BY <2>1, FS_Interval
<1>2. IsFiniteSet(M) /\ Cardinality(M) \in Nat /\ Cardinality(M) <= MaxListed /\ MaxListed \in Nat
  BY FS_CardinalityType, WhatIsListed DEF Listed
<1>3. s \in [I -> M] OBVIOUS
<1>4. ASSUME Cardinality(M) < n PROVE FALSE
  <2>1. \A i, j \in I : s[i] = s[j] => i = j OBVIOUS
  <2> HIDE DEF I, n
  <2>2. \E x, y \in I : x # y /\ s[x] = s[y] BY <1>1, <1>2, <1>3, <1>4, FS_PigeonHole
  <2> QED BY <2>1, <2>2
<1> QED BY <1>1, <1>2, <1>4

\* Who follows the pointers of a list reads the sequence that they hold.
LEMMA ListIs ==
  ASSUME NEW M, Listed(M), NEW l, NEW q, Held(l, M, q), NEW o \in Nodes
  PROVE  ListOf(l, o) = q[o]
<1> DEFINE X == DOMAIN l.next \union {Null}
           n == MaxListed
           F(g) == [p \in X \X (0 .. MaxListed) |->
                      IF p[1] = Null \/ p[2] = 0 THEN <<>> ELSE <<p[1]>> \o g[<<l.next[p[1]], p[2] - 1>>]]
           s == q[o]
<1>1. /\ DOMAIN l.next = M /\ X = M \union {Null} /\ n \in Nat /\ 0 \notin M
      /\ \A x \in M : l.next[x] \in X
  BY WhatIsListed DEF Held, Lists, Null, Listed
<1>2. s \in Seq(M) /\ Chain(l, o, s) BY DEF Held
<1>3. Len(s) <= n
  <2>1. \A i, j \in 1 .. Len(s) : s[i] = s[j] => i = j BY DEF Held
  <2> HIDE DEF s
  <2> QED BY <1>2, <2>1, ListsAreShort
<1> HIDE DEF X
<1>4. \E g : g = F(g)
  <2> DEFINE V == [X -> Seq(M)]
             v0 == [x \in X |-> <<>>]
             D == [p \in V \X (1 .. n) |-> [x \in X |-> IF x = Null THEN <<>> ELSE <<x>> \o p[1][l.next[x]]]]
  <2>1. v0 \in V OBVIOUS
  <2>2. D \in [V \X (1 .. n) -> V]
    <3> SUFFICES ASSUME NEW h \in V, NEW x \in X, x # Null PROVE <<x>> \o h[l.next[x]] \in Seq(M)
      OBVIOUS
    <3>1. x \in M /\ h[l.next[x]] \in Seq(M) BY <1>1 DEF X
    <3> QED BY <3>1
  <2>3. PICK h : Follows(h, n, V, v0, D)
    <3> HIDE DEF V, v0, D, n
    <3> QED BY <1>1, <2>1, <2>2, Recursion, Zenon
  <2>4. h \in [0 .. n -> V] /\ h[0] = v0 /\ \A i \in 1 .. n : h[i] = D[<<h[i - 1], i>>]
    BY <2>3 DEF Follows
  <2>5. ASSUME NEW i \in 1 .. n PROVE h[i] = [x \in X |-> IF x = Null THEN <<>> ELSE <<x>> \o h[i - 1][l.next[x]]]
    <3>1. i - 1 \in 0 .. n BY <1>1
    <3>2. h[i - 1] \in V BY <2>4, <3>1
    <3>3. <<h[i - 1], i>> \in V \X (1 .. n) BY <3>2
    <3> HIDE DEF V
    <3> QED BY <2>4, <3>3
  <2> DEFINE g == [p \in X \X (0 .. MaxListed) |-> h[p[2]][p[1]]]
  <2>6. ASSUME NEW p \in X \X (0 .. MaxListed)
        PROVE  g[p] = IF p[1] = Null \/ p[2] = 0 THEN <<>> ELSE <<p[1]>> \o g[<<l.next[p[1]], p[2] - 1>>]
    <3> DEFINE x == p[1]
               k == p[2]
    <3>1. x \in X /\ k \in 0 .. n OBVIOUS
    <3>2. g[p] = h[k][x] OBVIOUS
    <3>3. CASE k = 0
      <4>1. h[k][x] = v0[x] BY <2>4, <3>3
      <4>2. v0[x] = <<>> BY <3>1
      <4> HIDE DEF g, v0
      <4> QED BY <3>2, <3>3, <4>1, <4>2
    <3>4. CASE k # 0 /\ x = Null
      <4>1. k \in 1 .. n BY <3>1, <3>4, <1>1
      <4>2. h[k][x] = <<>> BY <4>1, <2>5, <3>1, <3>4
      <4> HIDE DEF g
      <4> QED BY <3>2, <3>4, <4>2
    <3>5. CASE k # 0 /\ x # Null
      <4>1. k \in 1 .. n /\ x \in M /\ l.next[x] \in X /\ k - 1 \in 0 .. n BY <3>1, <3>5, <1>1
      <4>2. h[k][x] = <<x>> \o h[k - 1][l.next[x]]
        <5>1. h[k] = [y \in X |-> IF y = Null THEN <<>> ELSE <<y>> \o h[k - 1][l.next[y]]] BY ONLY <4>1, <2>5, Zenon
        <5> QED BY ONLY <5>1, <3>1, <3>5
      <4>3. <<l.next[x], k - 1>> \in X \X (0 .. MaxListed) BY <4>1
      <4>4. g[<<l.next[x], k - 1>>] = h[k - 1][l.next[x]] BY <4>3
      <4> HIDE DEF g
      <4> QED BY <3>2, <3>5, <4>2, <4>4
    <3> QED BY <3>3, <3>4, <3>5
  <2>7. g = F(g)
    <3>1. g = [p \in X \X (0 .. MaxListed) |-> g[p]] OBVIOUS
    <3> HIDE DEF g
    <3> QED BY <3>1, <2>6
  <2> HIDE DEF F
  <2> QED BY <2>7
<1> DEFINE f == CHOOSE g : g = F(g)
<1>5. f = F(f)
  <2> HIDE DEF F
  <2> QED BY <1>4, Zenon
<1>6. ListOf(l, o) = IF l.first[o] = Null THEN <<>> ELSE f[<<l.first[o], MaxListed>>]
  BY Zenon DEF ListOf, X
<1> HIDE DEF f
<1>7. ASSUME NEW x \in X, NEW k \in 0 .. MaxListed
      PROVE  f[<<x, k>>] = IF x = Null \/ k = 0 THEN <<>> ELSE <<x>> \o f[<<l.next[x], k - 1>>]
  <2>1. <<x, k>> \in X \X (0 .. MaxListed) OBVIOUS
  <2> DEFINE p == <<x, k>>
  <2>2. F(f)[p] = IF p[1] = Null \/ p[2] = 0 THEN <<>> ELSE <<p[1]>> \o f[<<l.next[p[1]], p[2] - 1>>]
    <3> HIDE DEF p
    <3> QED BY <2>1 DEF p
  <2>3. p[1] = x /\ p[2] = k OBVIOUS
  <2> HIDE DEF F, p
  <2>4. f[p] = F(f)[p] BY <1>5
  <2>5. f[p] = IF x = Null \/ k = 0 THEN <<>> ELSE <<x>> \o f[<<l.next[x], k - 1>>]
    BY ONLY <2>2, <2>3, <2>4, Zenon
  <2> QED BY <2>5 DEF p
<1> DEFINE m == Len(s)
           Rest(e) == \A i \in 1 .. m : m - i = e => \A k \in e + 1 .. MaxListed : f[<<s[i], k>>] = SubSeq(s, i, m)
           S == {e \in Nat : Rest(e)}
<1>8. m \in Nat /\ \A i \in 1 .. m : s[i] \in M BY <1>2
<1>9. 0 \in S
  <2>1. ASSUME NEW i \in 1 .. m, m - i = 0, NEW k \in 1 .. MaxListed PROVE f[<<s[i], k>>] = SubSeq(s, i, m)
    <3>1. i = m BY <1>8, <2>1
    <3>2. s[i] \in M /\ s[i] \in X /\ s[i] # Null BY <1>1, <1>8 DEF Null
    <3>3. l.next[s[i]] = Null BY <3>1, <1>2 DEF Chain
    <3>4. k \in 0 .. MaxListed /\ k # 0 /\ k - 1 \in 0 .. MaxListed /\ Null \in X BY <1>1
    <3>5. f[<<Null, k - 1>>] = <<>> BY <3>4, <1>7
    <3>6. f[<<s[i], k>>] = <<s[i]>> \o <<>>
      <4>1. f[<<s[i], k>>] = <<s[i]>> \o f[<<Null, k - 1>>]
        <5> HIDE DEF s
        <5> QED BY <3>2, <3>3, <3>4, <1>7
      <4> QED BY <4>1, <3>5
    <3>7. SubSeq(s, m, m) = <<s[m]>>
      <4> DEFINE u == SubSeq(s, m, m)
      <4>1. m \in Int /\ \A j \in m .. m : s[j] \in M BY <3>1, <1>8
      <4>2. u \in Seq(M) /\ Len(u) = 1 /\ u[1] = s[m]
        <5>1. u \in Seq(M) /\ Len(u) = (IF m <= m THEN (m - m) + 1 ELSE 0) /\ \A j \in 1 .. (m - m) + 1 : u[j] = s[(m + j) - 1]
          <6> HIDE DEF s, m
          <6> QED BY <4>1, SubSeqProperties
        <5> HIDE DEF u, s, m
        <5> QED BY <5>1, <4>1
      <4>3. u = <<s[m]>>
        <5> HIDE DEF u, s, m
        <5> QED BY <4>2
      <4> QED BY <4>3
    <3>8. <<s[i]>> \o <<>> = <<s[i]>>
      <4> DEFINE y == s[i]
      <4>1. <<y>> \o <<>> = <<y>> OBVIOUS
      <4> QED BY <4>1
    <3> HIDE DEF s, m
    <3> QED BY <3>1, <3>6, <3>7, <3>8
  <2>2. \A i \in 1 .. m : m - i = 0 => \A k \in 0 + 1 .. MaxListed : f[<<s[i], k>>] = SubSeq(s, i, m)
    <3> HIDE DEF s, m
    <3> QED BY <2>1, <1>8
  <2>3. Rest(0) BY <2>2
  <2> HIDE DEF Rest
  <2> QED BY <2>3
<1>10. ASSUME NEW e \in Nat, e \in S PROVE e + 1 \in S
  <2>0. Rest(e) BY <1>10
  <2>1. ASSUME NEW i \in 1 .. m, m - i = e + 1, NEW k \in (e + 1) + 1 .. MaxListed
        PROVE  f[<<s[i], k>>] = SubSeq(s, i, m)
    <3>1. i + 1 \in 1 .. m /\ m - (i + 1) = e /\ i # m
      <4> HIDE DEF m
      <4> QED BY <1>8, <2>1
    <3>2. s[i] \in M /\ s[i] \in X /\ s[i] # Null BY <1>1, <1>8 DEF Null
    <3>3. l.next[s[i]] = s[i + 1] BY <3>1, <1>2 DEF Chain
    <3>4. k \in 0 .. MaxListed /\ k # 0 /\ k - 1 \in e + 1 .. MaxListed BY <1>1
    <3>5. f[<<s[i + 1], k - 1>>] = SubSeq(s, i + 1, m)
      <4> HIDE DEF m
      <4> QED BY <2>0, <3>1, <3>4
    <3>6. f[<<s[i], k>>] = <<s[i]>> \o SubSeq(s, i + 1, m)
      <4>1. f[<<s[i], k>>] = <<s[i]>> \o f[<<s[i + 1], k - 1>>]
        <5> HIDE DEF s
        <5> QED BY <3>2, <3>3, <3>4, <1>7
      <4> QED BY <4>1, <3>5
    <3>7. SubSeq(s, i, m) = <<s[i]>> \o SubSeq(s, i + 1, m)
      <4>1. i \in 1 .. Len(s) /\ m \in i .. Len(s) BY <1>8
      <4> HIDE DEF s
      <4> QED BY <4>1, <1>2, SubSeqRecursiveFirst
    <3> QED BY <3>6, <3>7
  <2>2. Rest(e + 1) BY <2>1
  <2> HIDE DEF Rest
  <2> QED BY <2>2
<1>11. \A e \in Nat : Rest(e)
  <2>1. \A e \in Nat : e \in S
    <3> HIDE DEF S
    <3> QED BY <1>9, <1>10, SetInduction
  <2> QED BY <2>1
<1>12. CASE m = 0
  <2>1. l.first[o] = Null BY <1>12, <1>2 DEF Chain
  <2>2. s = <<>> BY <1>12, <1>2
  <2> QED BY <2>1, <2>2, <1>6
<1>13. CASE m # 0
  <2>1. l.first[o] = s[1] BY <1>13, <1>2 DEF Chain
  <2>2. 1 \in 1 .. m /\ m - 1 \in Nat /\ MaxListed \in (m - 1) + 1 .. MaxListed BY <1>13, <1>8, <1>3, <1>1
  <2>3. f[<<s[1], MaxListed>>] = SubSeq(s, 1, m) BY <1>11, <2>2
  <2>4. SubSeq(s, 1, m) = s BY <1>2
  <2>5. s[1] # Null BY <2>2, <1>8, <1>1 DEF Null
  <2> QED BY <2>1, <2>3, <2>4, <2>5, <1>6
<1> QED BY <1>12, <1>13

Ins(s, p, x) == [i \in 1 .. Len(s) + 1 |-> IF i < p THEN s[i] ELSE IF i = p THEN x ELSE s[i - 1]]
Del(s, p) == [i \in 1 .. Len(s) - 1 |-> IF i < p THEN s[i] ELSE s[i + 1]]

\* r is the list l, which holds s for o, with x put at the place p, pointer by pointer.
Inserted(l, r, M, s, o, p, x) ==
  LET n == Len(s)
      follower == s[IF p = n + 1 THEN 1 ELSE p]
  IN
  /\ r \in Lists(M)
  /\ r.first = [l.first EXCEPT ![o] = IF p = 1 THEN x ELSE @]
  /\ \A y \in M : r.next[y] = IF y = x THEN IF p = n + 1 THEN Null ELSE s[p]
                              ELSE IF p > 1 /\ y = s[p - 1] THEN x ELSE l.next[y]
  /\ \A y \in M : r.prev[y] = IF y = x THEN IF n = 0 THEN x ELSE IF p = 1 THEN s[n] ELSE s[p - 1]
                              ELSE IF n > 0 /\ y = follower THEN x ELSE l.prev[y]

Unlisted(q, x) == \A u \in Nodes : ~Has(q[u], x)
Place(s, place) ==
  \/ place = <<"last">> \/ place = <<"first">>
  \/ \E k \in 1 .. Len(s) : place = <<"after", s[k]>> \/ place = <<"before", s[k]>>

\* What is inserted: the types and the members.
LEMMA InsType ==
  ASSUME NEW M, NEW s \in Seq(M), NEW p \in 1 .. Len(s) + 1, NEW x \in M
  PROVE  /\ Ins(s, p, x) \in Seq(M) /\ Len(Ins(s, p, x)) = Len(s) + 1
         /\ \A i \in 1 .. Len(s) + 1 : Ins(s, p, x)[i] = IF i < p THEN s[i] ELSE IF i = p THEN x ELSE s[i - 1]
<1> DEFINE z == Ins(s, p, x)
           n == Len(s)
<1>1. n \in Nat /\ \A i \in 1 .. n : s[i] \in M OBVIOUS
<1>2. z = [i \in 1 .. n + 1 |-> IF i < p THEN s[i] ELSE IF i = p THEN x ELSE s[i - 1]] BY DEF Ins
<1>3. \A i \in 1 .. n + 1 : z[i] = IF i < p THEN s[i] ELSE IF i = p THEN x ELSE s[i - 1] BY <1>2
<1> HIDE DEF z, n
<1>4. \A i \in 1 .. n + 1 : z[i] \in M BY <1>1, <1>3
<1>5. n + 1 \in Nat BY <1>1
<1>6. z \in [1 .. n + 1 -> M] BY <1>2, <1>4
<1>7. z \in Seq(M) /\ Len(z) = n + 1 BY <1>5, <1>6
<1> QED BY <1>3, <1>7 DEF n, z

\* What is deleted: the types and the members.
LEMMA DelType ==
  ASSUME NEW M, NEW s \in Seq(M), NEW p \in 1 .. Len(s)
  PROVE  /\ Del(s, p) \in Seq(M) /\ Len(Del(s, p)) = Len(s) - 1
         /\ \A i \in 1 .. Len(s) - 1 : Del(s, p)[i] = IF i < p THEN s[i] ELSE s[i + 1]
<1> DEFINE z == Del(s, p)
           n == Len(s)
<1>1. n \in Nat /\ \A i \in 1 .. n : s[i] \in M OBVIOUS
<1>2. z = [i \in 1 .. n - 1 |-> IF i < p THEN s[i] ELSE s[i + 1]] BY DEF Del
<1>3. \A i \in 1 .. n - 1 : z[i] = IF i < p THEN s[i] ELSE s[i + 1] BY <1>2
<1>4. p \in 1 .. n OBVIOUS
<1> HIDE DEF z, n
<1>5. \A i \in 1 .. n - 1 : z[i] \in M BY <1>1, <1>3
<1>6. n - 1 \in Nat BY <1>1, <1>4
<1>7. z \in [1 .. n - 1 -> M] BY <1>2, <1>5
<1>8. z \in Seq(M) /\ Len(z) = n - 1 BY <1>6, <1>7
<1> QED BY <1>3, <1>8 DEF n, z

\* Pointers that are changed as Inserted says hold the sequence with x at its place.
LEMMA InsertedHeld ==
  ASSUME NEW M, Listed(M), NEW l, NEW q, Held(l, M, q), NEW o \in Nodes, NEW x \in M, Unlisted(q, x),
         NEW p \in 1 .. Len(q[o]) + 1, NEW r, Inserted(l, r, M, q[o], o, p, x)
  PROVE  Held(r, M, [q EXCEPT ![o] = Ins(q[o], p, x)])
<1> DEFINE s == q[o]
           n == Len(s)
           z == Ins(s, p, x)
           g == [q EXCEPT ![o] = z]
           follower == s[IF p = n + 1 THEN 1 ELSE p]
<1>1. s \in Seq(M) /\ n \in Nat /\ p \in 1 .. n + 1 /\ 0 \notin M /\ q \in [Nodes -> Seq(M)] /\ l \in Lists(M)
  BY DEF Held, Listed
<1>2. z \in Seq(M) /\ Len(z) = n + 1
      /\ \A i \in 1 .. n + 1 : z[i] = IF i < p THEN s[i] ELSE IF i = p THEN x ELSE s[i - 1]
  BY <1>1, InsType
<1>3. \A i \in 1 .. n : s[i] \in M /\ s[i] # x BY <1>1 DEF Unlisted, Has
<1>4. \A i, j \in 1 .. n : s[i] = s[j] => i = j BY DEF Held
<1>5. Chain(l, o, s) BY DEF Held
<1>6. /\ r \in Lists(M)
      /\ r.first[o] = IF p = 1 THEN x ELSE l.first[o]
      /\ \A u \in Nodes : u # o => r.first[u] = l.first[u]
      /\ r.next[x] = IF p = n + 1 THEN Null ELSE s[p]
      /\ \A y \in M : y # x => r.next[y] = IF p > 1 /\ y = s[p - 1] THEN x ELSE l.next[y]
      /\ r.prev[x] = IF n = 0 THEN x ELSE IF p = 1 THEN s[n] ELSE s[p - 1]
      /\ \A y \in M : y # x => r.prev[y] = IF n > 0 /\ y = follower THEN x ELSE l.prev[y]
  BY <1>1 DEF Inserted, Lists
<1>7. g \in [Nodes -> Seq(M)] /\ g[o] = z /\ \A u \in Nodes : u # o => g[u] = q[u] BY <1>1, <1>2
<1>8. Chain(r, o, z)
  <2> HIDE DEF s, n, z
  <2>1. l.first[o] = (IF n = 0 THEN Null ELSE s[1])
        /\ \A i \in 1 .. n : l.next[s[i]] = IF i = n THEN Null ELSE s[i + 1]
    BY <1>5 DEF Chain, n
  <2>2. \A i \in 1 .. n : l.prev[s[i]] = IF i = 1 THEN s[n] ELSE s[i - 1]
    BY <1>5 DEF Chain, n
  <2>3. r.first[o] = z[1] BY <1>1, <1>2, <1>6, <2>1
  <2>4. ASSUME NEW i \in 1 .. n + 1 PROVE r.next[z[i]] = IF i = n + 1 THEN Null ELSE z[i + 1]
    <3>1. CASE i = p BY <3>1, <1>1, <1>2, <1>6
    <3>2. CASE i < p
      <4>1. i \in 1 .. n /\ z[i] = s[i] /\ z[i] # x /\ z[i] \in M BY <3>2, <1>1, <1>2, <1>3
      <4>2. p - 1 \in 1 .. n /\ p > 1 BY <3>2, <1>1
      <4>3. CASE i = p - 1 BY <4>1, <4>2, <4>3, <1>1, <1>2, <1>6
      <4>4. CASE i # p - 1
        <5>1. r.next[z[i]] = l.next[s[i]] BY <4>1, <4>2, <4>4, <1>6, <1>4
        <5>2. i # n /\ i + 1 < p BY <3>2, <4>4, <1>1
        <5> QED BY <5>1, <5>2, <4>1, <2>1, <1>1, <1>2
      <4> QED BY <4>3, <4>4
    <3>3. CASE i > p
      <4>1. i - 1 \in 1 .. n /\ z[i] = s[i - 1] /\ z[i] # x /\ z[i] \in M BY <3>3, <1>1, <1>2, <1>3
      <4>2. ~(p > 1 /\ z[i] = s[p - 1])
        <5> SUFFICES ASSUME p > 1, s[i - 1] = s[p - 1] PROVE FALSE BY <4>1
        <5>1. p - 1 \in 1 .. n BY <1>1
        <5> QED BY <5>1, <4>1, <1>4, <3>3, <1>1
      <4>3. r.next[z[i]] = l.next[s[i - 1]] BY <4>1, <4>2, <1>6
      <4>4. i # n + 1 => z[i + 1] = s[i] BY <3>3, <1>1, <1>2
      <4>5. l.next[s[i - 1]] = IF i - 1 = n THEN Null ELSE s[(i - 1) + 1] BY <4>1, <2>1
      <4>6. (i - 1) + 1 = i /\ (i - 1 = n <=> i = n + 1) BY <1>1
      <4>7. r.next[z[i]] = IF i = n + 1 THEN Null ELSE s[i] BY <4>3, <4>5, <4>6
      <4> QED BY <4>7, <4>4
    <3> QED BY <3>1, <3>2, <3>3, <1>1
  <2>5. ASSUME NEW i \in 1 .. n + 1 PROVE r.prev[z[i]] = IF i = 1 THEN z[n + 1] ELSE z[i - 1]
    <3>0. n + 1 \in 1 .. n + 1 BY <1>1
    <3>1. CASE i = p BY <3>0, <3>1, <1>1, <1>2, <1>6
    <3> DEFINE a == IF p = n + 1 THEN 1 ELSE p
    <3>2. CASE i < p
      <4>1. i \in 1 .. n /\ z[i] = s[i] /\ z[i] # x /\ z[i] \in M /\ n > 0 BY <3>2, <1>1, <1>2, <1>3
      <4>2. a \in 1 .. n BY <4>1, <1>1
      <4>3. s[i] = s[a] <=> i = a BY <4>1, <4>2, <1>4
      <4>4. r.prev[z[i]] = IF i = a THEN x ELSE l.prev[s[i]] BY <4>1, <4>3, <1>6
      <4>5. i = a <=> p = n + 1 /\ i = 1 BY <3>2, <4>1
      <4>6. CASE i = a
        <5>1. z[n + 1] = x BY <4>5, <4>6, <3>0, <1>2
        <5> QED BY <5>1, <4>4, <4>5, <4>6
      <4>7. CASE i # a /\ i = 1
        <5>1. p # n + 1 /\ n + 1 > p BY <4>5, <4>7, <1>1
        <5>2. z[n + 1] = s[n] BY <5>1, <3>0, <1>2, <1>1
        <5> QED BY <5>2, <4>4, <4>7, <4>1, <2>2
      <4>8. CASE i # a /\ i # 1
        <5>1. z[i - 1] = s[i - 1] BY <3>2, <4>8, <4>1, <1>1, <1>2
        <5> QED BY <5>1, <4>4, <4>8, <4>1, <2>2
      <4> QED BY <4>6, <4>7, <4>8
    <3>3. CASE i > p
      <4>1. i - 1 \in 1 .. n /\ z[i] = s[i - 1] /\ z[i] # x /\ z[i] \in M /\ n > 0 BY <3>3, <1>1, <1>2, <1>3
      <4>2. a = p /\ p \in 1 .. n BY <3>3, <1>1
      <4>3. s[i - 1] = s[p] <=> i - 1 = p BY <4>1, <4>2, <1>4
      <4>4. r.prev[z[i]] = IF i - 1 = p THEN x ELSE l.prev[s[i - 1]] BY <4>1, <4>2, <4>3, <1>6
      <4>5. CASE i - 1 = p
        <5>1. z[i - 1] = x BY <4>5, <4>1, <1>2, <1>1
        <5> QED BY <5>1, <4>4, <4>5, <3>3, <1>1
      <4>6. CASE i - 1 # p
        <5>1. z[i - 1] = s[i - 2] /\ i # 1 /\ i - 1 # 1
          <6>1. i - 1 \in 1 .. n + 1 /\ ~(i - 1 < p) /\ i - 1 # 1 /\ i # 1 BY <3>3, <4>6, <4>1, <1>1
          <6>2. z[i - 1] = s[(i - 1) - 1] BY <6>1, <4>6, <1>2
          <6>3. (i - 1) - 1 = i - 2 BY <1>1
          <6> QED BY <6>1, <6>2, <6>3
        <5>2. l.prev[s[i - 1]] = s[(i - 1) - 1] BY <4>1, <5>1, <2>2
        <5>3. (i - 1) - 1 = i - 2 BY <1>1
        <5> QED BY <5>1, <5>2, <5>3, <4>4, <4>6
      <4> QED BY <4>5, <4>6
    <3> QED BY <3>1, <3>2, <3>3, <1>1
  <2>6. Len(z) = n + 1 /\ n + 1 # 0 BY <1>1, <1>2
  <2> QED BY <2>3, <2>4, <2>5, <2>6 DEF Chain
<1>9. ASSUME NEW u \in Nodes PROVE Chain(r, u, g[u])
  <2>1. CASE u = o BY <2>1, <1>7, <1>8
  <2>2. CASE u # o
    <3> DEFINE w == q[u]
    <3>1. g[u] = w /\ w \in Seq(M) /\ Chain(l, u, w) /\ r.first[u] = l.first[u] BY <2>2, <1>7, <1>1, <1>6 DEF Held
    <3>2. ASSUME NEW i \in 1 .. Len(w) PROVE r.next[w[i]] = l.next[w[i]] /\ r.prev[w[i]] = l.prev[w[i]]
      <4>1. w[i] \in M /\ w[i] # x BY <3>1 DEF Unlisted, Has
      <4>2. \A j \in 1 .. n : w[i] # s[j] BY <2>2 DEF Held
      <4>3. p > 1 => p - 1 \in 1 .. n BY <1>1
      <4>4. n > 0 => (IF p = n + 1 THEN 1 ELSE p) \in 1 .. n BY <1>1
      <4> HIDE DEF w, s, n
      <4> QED BY <1>6, <4>1, <4>2, <4>3, <4>4
    <3>3. \A i \in 1 .. Len(w) : r.next[w[i]] = l.next[w[i]] /\ r.prev[w[i]] = l.prev[w[i]] BY <3>2
    <3> HIDE DEF w, g
    <3> QED BY <3>1, <3>3 DEF Chain
  <2> QED BY <2>1, <2>2
<1>10. ASSUME NEW u \in Nodes, NEW v \in Nodes, NEW i \in 1 .. Len(g[u]), NEW j \in 1 .. Len(g[v]), g[u][i] = g[v][j]
       PROVE  u = v /\ i = j
  <2>1. ASSUME NEW a \in Nodes, a # o, NEW b \in 1 .. Len(q[a]) PROVE q[a][b] # x /\ \A k \in 1 .. n : q[a][b] # s[k]
    BY <2>1 DEF Held, Unlisted, Has
  <2>2. ASSUME NEW a \in 1 .. n + 1, NEW b \in Nodes, b # o, NEW k \in 1 .. Len(q[b]) PROVE z[a] # q[b][k]
    <3>1. z[a] = x \/ \E c \in 1 .. n : z[a] = s[c]
      <4> HIDE DEF s, n, z
      <4> QED BY <1>1, <1>2
    <3> QED BY <2>1, <2>2, <3>1
  <2>3. ASSUME NEW a \in 1 .. n + 1, NEW b \in 1 .. n + 1, z[a] = z[b] PROVE a = b
    <3> HIDE DEF s, n, z
    <3>0. ASSUME NEW c \in 1 .. n + 1, c # p PROVE z[c] # x
      <4> DEFINE e == IF c < p THEN c ELSE c - 1
      <4>1. e \in 1 .. n /\ z[c] = s[e] BY <3>0, <1>1, <1>2
      <4> QED BY <4>1, <1>3
    <3>1. CASE a = p \/ b = p BY <3>0, <3>1, <2>3, <1>1, <1>2
    <3>2. CASE a # p /\ b # p
      <4> DEFINE c == IF a < p THEN a ELSE a - 1
                 e == IF b < p THEN b ELSE b - 1
      <4>1. c \in 1 .. n /\ e \in 1 .. n /\ z[a] = s[c] /\ z[b] = s[e] BY <3>2, <1>1, <1>2
      <4>2. c = e BY <4>1, <2>3, <1>4
      <4> QED BY <4>2, <3>2, <1>1
    <3> QED BY <3>1, <3>2
  <2>4. CASE u = o /\ v = o BY <2>3, <2>4, <1>7, <1>2, <1>10
  <2>5. CASE u = o /\ v # o BY <2>2, <2>5, <1>7, <1>2, <1>10
  <2>6. CASE u # o /\ v = o BY <2>2, <2>6, <1>7, <1>2, <1>10
  <2>7. CASE u # o /\ v # o
    <3>1. g[u] = q[u] /\ g[v] = q[v] BY <2>7, <1>7
    <3>2. \A a, b \in Nodes : \A c \in 1 .. Len(q[a]), e \in 1 .. Len(q[b]) : q[a][c] = q[b][e] => a = b /\ c = e
      BY DEF Held
    <3> HIDE DEF g
    <3> QED BY <1>10, <3>1, <3>2
  <2> QED BY <2>4, <2>5, <2>6, <2>7
<1>11. ASSUME NEW y \in M, \A u \in Nodes : ~Has(g[u], y) PROVE r.prev[y] = Null /\ r.next[y] = Null
  <2>1. y # x
    <3>1. p \in 1 .. Len(z) /\ z[p] = x BY <1>1, <1>2
    <3> QED BY <3>1, <1>11, <1>7 DEF Has
  <2>2. \A i \in 1 .. n : y # s[i]
    <3> SUFFICES ASSUME NEW i \in 1 .. n, y = s[i] PROVE FALSE OBVIOUS
    <3> DEFINE k == IF i < p THEN i ELSE i + 1
    <3>1. k \in 1 .. Len(z) /\ z[k] = s[i]
      <4> HIDE DEF s, n, z
      <4>1. CASE i < p BY <4>1, <1>1, <1>2
      <4>2. CASE ~(i < p)
        <5>1. k = i + 1 /\ k \in 1 .. n + 1 /\ ~(k < p) /\ k # p /\ k - 1 = i BY <4>2, <1>1
        <5> HIDE DEF k
        <5> QED BY <5>1, <1>2
      <4> QED BY <4>1, <4>2
    <3> QED BY <3>1, <1>11, <1>7 DEF Has
  <2>3. \A u \in Nodes : ~Has(q[u], y)
    <3>1. ~Has(s, y) BY <2>2 DEF Has
    <3> QED BY <3>1, <1>7, <1>11
  <2>4. l.prev[y] = Null /\ l.next[y] = Null BY <2>3 DEF Held
  <2>5. p > 1 => p - 1 \in 1 .. n BY <1>1
  <2>6. n > 0 => (IF p = n + 1 THEN 1 ELSE p) \in 1 .. n BY <1>1
  <2> HIDE DEF s, n
  <2> QED BY <1>6, <2>1, <2>2, <2>4, <2>5, <2>6
<1> HIDE DEF g, z
<1>12. Held(r, M, g) BY <1>6, <1>7, <1>9, <1>10, <1>11 DEF Held
<1> QED BY <1>12 DEF g, z

\* r is the list l, which holds s for o, with the member at the place p taken out.
Deleted(l, r, M, s, o, p) ==
  LET n == Len(s)
      follower == s[IF p = n THEN 1 ELSE p + 1]
  IN
  /\ r \in Lists(M)
  /\ r.first = [l.first EXCEPT ![o] = IF p # 1 THEN @ ELSE IF n = 1 THEN Null ELSE s[2]]
  /\ \A y \in M : r.next[y] = IF y = s[p] THEN Null
                              ELSE IF p > 1 /\ y = s[p - 1] THEN (IF p = n THEN Null ELSE s[p + 1]) ELSE l.next[y]
  /\ \A y \in M : r.prev[y] = IF y = s[p] THEN Null
                              ELSE IF y = follower THEN (IF p = 1 THEN s[n] ELSE s[p - 1]) ELSE l.prev[y]

\* Pointers that are changed as Deleted says hold the sequence without its member at p.
LEMMA DeletedHeld ==
  ASSUME NEW M, Listed(M), NEW l, NEW q, Held(l, M, q), NEW o \in Nodes,
         NEW p \in 1 .. Len(q[o]), NEW r, Deleted(l, r, M, q[o], o, p)
  PROVE  Held(r, M, [q EXCEPT ![o] = Del(q[o], p)])
<1> DEFINE s == q[o]
           n == Len(s)
           x == s[p]
           z == Del(s, p)
           g == [q EXCEPT ![o] = z]
           a == IF p = n THEN 1 ELSE p + 1
           follower == s[a]
<1>1. s \in Seq(M) /\ n \in Nat /\ p \in 1 .. n /\ 0 \notin M /\ q \in [Nodes -> Seq(M)] /\ l \in Lists(M)
  BY DEF Held, Listed
<1>2. z \in Seq(M) /\ Len(z) = n - 1
      /\ \A i \in 1 .. n - 1 : z[i] = IF i < p THEN s[i] ELSE s[i + 1]
  BY <1>1, DelType
<1>3. \A i \in 1 .. n : s[i] \in M BY <1>1
<1>4. \A i, j \in 1 .. n : s[i] = s[j] => i = j BY DEF Held
<1>5. Chain(l, o, s) BY DEF Held
<1>6. /\ r \in Lists(M)
      /\ r.first[o] = IF p # 1 THEN l.first[o] ELSE IF n = 1 THEN Null ELSE s[2]
      /\ \A u \in Nodes : u # o => r.first[u] = l.first[u]
      /\ r.next[x] = Null /\ r.prev[x] = Null
      /\ \A y \in M : y # x => r.next[y] = IF p > 1 /\ y = s[p - 1] THEN (IF p = n THEN Null ELSE s[p + 1]) ELSE l.next[y]
      /\ \A y \in M : y # x => r.prev[y] = IF y = follower THEN (IF p = 1 THEN s[n] ELSE s[p - 1]) ELSE l.prev[y]
  BY <1>1, <1>3 DEF Deleted, Lists
<1>7. g \in [Nodes -> Seq(M)] /\ g[o] = z /\ \A u \in Nodes : u # o => g[u] = q[u] BY <1>1, <1>2
<1>8. Chain(r, o, z)
  <2> HIDE DEF s, n, z
  <2>1. l.first[o] = s[1]
        /\ \A i \in 1 .. n : l.next[s[i]] = IF i = n THEN Null ELSE s[i + 1]
    <3>1. /\ l.first[o] = IF Len(s) = 0 THEN Null ELSE s[1]
          /\ \A i \in 1 .. Len(s) : l.next[s[i]] = IF i = Len(s) THEN Null ELSE s[i + 1]
      BY <1>5 DEF Chain
    <3>2. n # 0 BY <1>1
    <3> QED BY ONLY <3>1, <3>2 DEF n
  <2>2. \A i \in 1 .. n : l.prev[s[i]] = IF i = 1 THEN s[n] ELSE s[i - 1]
    BY <1>5 DEF Chain, n
  <2>3. r.first[o] = IF n - 1 = 0 THEN Null ELSE z[1]
    <3>1. r.first[o] = IF p # 1 THEN s[1] ELSE IF n = 1 THEN Null ELSE s[2] BY <1>6, <2>1
    <3>2. p # 1 => n # 1 BY <1>1
    <3>3. n # 1 => z[1] = IF 1 < p THEN s[1] ELSE s[2]
      <4>1. n # 1 => 1 \in 1 .. n - 1 BY <1>1
      <4>2. 1 \in 1 .. n - 1 => z[1] = IF 1 < p THEN s[1] ELSE s[1 + 1] BY ONLY <1>2, Zenon
      <4>3. 1 + 1 = 2 OBVIOUS
      <4> QED BY ONLY <4>1, <4>2, <4>3
    <3>4. (p # 1 <=> 1 < p) /\ (n - 1 = 0 <=> n = 1) BY <1>1
    <3> QED BY ONLY <3>1, <3>2, <3>3, <3>4
  <2>4. ASSUME NEW i \in 1 .. n - 1 PROVE r.next[z[i]] = IF i = n - 1 THEN Null ELSE z[i + 1]
    <3>1. CASE i < p
      <4>1. i \in 1 .. n /\ z[i] = s[i] /\ s[i] # x /\ s[i] \in M BY <3>1, <1>1, <1>2, <1>3, <1>4
      <4>2. p > 1 /\ p - 1 \in 1 .. n BY <3>1, <1>1
      <4>3. s[i] = s[p - 1] <=> i = p - 1 BY <4>1, <4>2, <1>4
      <4>4. CASE i = p - 1
        <5>1. r.next[z[i]] = IF p = n THEN Null ELSE s[p + 1] BY <4>1, <4>2, <4>3, <4>4, <1>6
        <5>2. i + 1 = p /\ (p = n <=> i = n - 1) BY <4>4, <1>1
        <5>3. i # n - 1 => z[i + 1] = s[p + 1] BY <5>2, <1>1, <1>2
        <5> QED BY <5>1, <5>2, <5>3
      <4>5. CASE i # p - 1
        <5>1. i + 1 < p /\ i # n - 1 /\ i # n /\ i + 1 \in 1 .. n - 1 BY <3>1, <4>5, <1>1
        <5>2. r.next[z[i]] = s[i + 1] BY <4>1, <4>3, <4>5, <5>1, <1>6, <2>1
        <5>3. z[i + 1] = s[i + 1] BY <5>1, <1>2
        <5> QED BY <5>1, <5>2, <5>3
      <4> QED BY <4>4, <4>5
    <3>2. CASE ~(i < p)
      <4>1. i + 1 \in 1 .. n /\ z[i] = s[i + 1] /\ i + 1 # p BY <3>2, <1>1, <1>2
      <4>2. s[i + 1] # x /\ s[i + 1] \in M BY <4>1, <1>1, <1>3, <1>4
      <4>3. ~(p > 1 /\ s[i + 1] = s[p - 1])
        <5> SUFFICES ASSUME p > 1, s[i + 1] = s[p - 1] PROVE FALSE OBVIOUS
        <5>1. p - 1 \in 1 .. n BY <1>1
        <5>2. i + 1 = p - 1 BY <5>1, <4>1, <1>4
        <5> QED BY <5>2, <3>2, <1>1
      <4>4. r.next[z[i]] = IF i + 1 = n THEN Null ELSE s[(i + 1) + 1] BY <4>1, <4>2, <4>3, <1>6, <2>1
      <4>5. i # n - 1 => i + 1 \in 1 .. n - 1 /\ ~(i + 1 < p) BY <3>2, <1>1
      <4>6. i # n - 1 => z[i + 1] = s[(i + 1) + 1] BY <4>5, <1>2
      <4>7. i + 1 = n <=> i = n - 1 BY <1>1
      <4> QED BY <4>4, <4>6, <4>7
    <3> QED BY <3>1, <3>2
  <2>5. ASSUME NEW i \in 1 .. n - 1 PROVE r.prev[z[i]] = IF i = 1 THEN z[n - 1] ELSE z[i - 1]
    <3>0. a \in 1 .. n /\ n - 1 \in 1 .. n - 1 BY <1>1
    <3>a. z[n - 1] = IF p = n THEN s[n - 1] ELSE s[n] BY <3>0, <1>1, <1>2
    <3>1. CASE i < p
      <4>1. i \in 1 .. n /\ z[i] = s[i] /\ s[i] # x /\ s[i] \in M BY <3>1, <1>1, <1>2, <1>3, <1>4
      <4>2. s[i] = s[a] <=> i = a BY <4>1, <3>0, <1>4
      <4>3. r.prev[z[i]] = IF i = a THEN (IF p = 1 THEN s[n] ELSE s[p - 1]) ELSE l.prev[s[i]]
        <5> HIDE DEF a, x
        <5> QED BY <4>1, <4>2, <1>6
      <4>4. i = a <=> p = n /\ i = 1 BY <3>1, <4>1, <1>1
      <4>5. CASE i = a BY <4>3, <4>4, <4>5, <3>a, <3>1, <1>1
      <4>6. CASE i # a
        <5>1. r.prev[z[i]] = IF i = 1 THEN s[n] ELSE s[i - 1] BY <4>1, <4>3, <4>6, <2>2
        <5>2. i = 1 => z[n - 1] = s[n] BY <4>4, <4>6, <3>a
        <5>3. i # 1 => z[i - 1] = s[i - 1] BY <3>1, <4>1, <1>1, <1>2
        <5> QED BY <5>1, <5>2, <5>3
      <4> QED BY <4>5, <4>6
    <3>2. CASE ~(i < p)
      <4>1. i + 1 \in 1 .. n /\ z[i] = s[i + 1] /\ i + 1 # p BY <3>2, <1>1, <1>2
      <4>2. s[i + 1] # x /\ s[i + 1] \in M BY <4>1, <1>1, <1>3, <1>4
      <4>3. s[i + 1] = s[a] <=> i + 1 = a BY <4>1, <3>0, <1>4
      <4>4. i + 1 = a <=> i = p BY <3>2, <4>1, <1>1
      <4>5. r.prev[z[i]] = IF i = p THEN (IF p = 1 THEN s[n] ELSE s[p - 1]) ELSE l.prev[s[i + 1]]
        <5> HIDE DEF a, x
        <5> QED BY <4>1, <4>2, <4>3, <4>4, <1>6
      <4>6. CASE i = p
        <5>1. p # n BY <4>6, <1>1
        <5>2. i # 1 => z[i - 1] = s[p - 1] BY <4>6, <1>1, <1>2
        <5> QED BY <4>5, <4>6, <5>1, <5>2, <3>a
      <4>7. CASE i # p
        <5>1. l.prev[s[i + 1]] = s[(i + 1) - 1] /\ (i + 1) - 1 = i BY <4>1, <2>2
        <5>2. i # 1 /\ i - 1 \in 1 .. n - 1 /\ ~(i - 1 < p) BY <3>2, <4>7, <1>1
        <5>3. z[i - 1] = s[(i - 1) + 1] /\ (i - 1) + 1 = i BY <5>2, <1>2
        <5> QED BY <4>5, <4>7, <5>1, <5>2, <5>3
      <4> QED BY <4>6, <4>7
    <3> QED BY <3>1, <3>2
  <2>6. Len(z) = n - 1 BY <1>2
  <2> QED BY <2>3, <2>4, <2>5, <2>6 DEF Chain
<1>9. ASSUME NEW u \in Nodes PROVE Chain(r, u, g[u])
  <2>1. CASE u = o BY <2>1, <1>7, <1>8
  <2>2. CASE u # o
    <3> DEFINE w == q[u]
    <3>1. g[u] = w /\ w \in Seq(M) /\ Chain(l, u, w) /\ r.first[u] = l.first[u] BY <2>2, <1>7, <1>1, <1>6 DEF Held
    <3>2. ASSUME NEW i \in 1 .. Len(w) PROVE r.next[w[i]] = l.next[w[i]] /\ r.prev[w[i]] = l.prev[w[i]]
      <4>1. w[i] \in M BY <3>1
      <4>2. \A j \in 1 .. n : w[i] # s[j] BY <2>2 DEF Held
      <4>3. p > 1 => p - 1 \in 1 .. n BY <1>1
      <4>4. a \in 1 .. n BY <1>1
      <4>5. w[i] # x /\ w[i] # follower BY <4>2, <4>4, <1>1
      <4> HIDE DEF w, s, n, follower, x
      <4> QED BY <1>6, <4>1, <4>2, <4>3, <4>5
    <3>3. \A i \in 1 .. Len(w) : r.next[w[i]] = l.next[w[i]] /\ r.prev[w[i]] = l.prev[w[i]] BY <3>2
    <3> HIDE DEF w, g
    <3> QED BY <3>1, <3>3 DEF Chain
  <2> QED BY <2>1, <2>2
<1>a. \A u \in Nodes : \A i \in 1 .. Len(g[u]) :
        \E k \in 1 .. Len(q[u]) : g[u][i] = q[u][k] /\ (u = o => k # p /\ k = IF i < p THEN i ELSE i + 1) /\ (u # o => k = i)
  <2> SUFFICES ASSUME NEW u \in Nodes, NEW i \in 1 .. Len(g[u])
               PROVE  \E k \in 1 .. Len(q[u]) : g[u][i] = q[u][k] /\ (u = o => k # p /\ k = IF i < p THEN i ELSE i + 1) /\ (u # o => k = i)
    OBVIOUS
  <2>1. CASE u = o
    <3> DEFINE k == IF i < p THEN i ELSE i + 1
    <3>1. i \in 1 .. n - 1 BY <2>1, <1>7, <1>2
    <3>2. k \in 1 .. n /\ k # p BY <3>1, <1>1
    <3>3. z[i] = s[k] BY <3>1, <1>2
    <3> HIDE DEF z
    <3> QED BY <2>1, <3>2, <3>3, <1>7
  <2>2. CASE u # o BY <2>2, <1>7
  <2> QED BY <2>1, <2>2
<1>10. ASSUME NEW u \in Nodes, NEW v \in Nodes, NEW i \in 1 .. Len(g[u]), NEW j \in 1 .. Len(g[v]), g[u][i] = g[v][j]
       PROVE  u = v /\ i = j
  <2>1. PICK k \in 1 .. Len(q[u]) : g[u][i] = q[u][k] /\ (u = o => k # p /\ k = IF i < p THEN i ELSE i + 1) /\ (u # o => k = i)
    BY <1>a
  <2>2. PICK m \in 1 .. Len(q[v]) : g[v][j] = q[v][m] /\ (v = o => m # p /\ m = IF j < p THEN j ELSE j + 1) /\ (v # o => m = j)
    BY <1>a
  <2>3. u = v /\ k = m BY <2>1, <2>2, <1>10 DEF Held
  <2>4. i \in Nat /\ j \in Nat /\ p \in Nat BY <1>1
  <2> HIDE DEF g
  <2> QED BY <2>1, <2>2, <2>3, <2>4
<1>11. ASSUME NEW y \in M, \A u \in Nodes : ~Has(g[u], y) PROVE r.prev[y] = Null /\ r.next[y] = Null
  <2>1. CASE y = x BY <2>1, <1>6
  <2>2. CASE y # x
    <3>1. \A i \in 1 .. n : y # s[i]
      <4> SUFFICES ASSUME NEW i \in 1 .. n, y = s[i] PROVE FALSE OBVIOUS
      <4> DEFINE k == IF i < p THEN i ELSE i - 1
      <4>1. i # p BY <2>2
      <4>2. k \in 1 .. Len(z) /\ z[k] = s[i]
        <5> HIDE DEF s, n, z
        <5>1. CASE i < p BY <5>1, <1>1, <1>2
        <5>2. CASE ~(i < p)
          <6>1. k = i - 1 /\ k \in 1 .. n - 1 /\ ~(k < p) /\ k + 1 = i BY <4>1, <5>2, <1>1
          <6> HIDE DEF k
          <6> QED BY <6>1, <1>2
        <5> QED BY <5>1, <5>2
      <4> QED BY <4>2, <1>11, <1>7 DEF Has
    <3>2. \A u \in Nodes : ~Has(q[u], y)
      <4>1. ~Has(s, y) BY <3>1 DEF Has
      <4> QED BY <4>1, <1>7, <1>11
    <3>3. l.prev[y] = Null /\ l.next[y] = Null BY <3>2 DEF Held
    <3>4. p > 1 => p - 1 \in 1 .. n BY <1>1
    <3>5. a \in 1 .. n BY <1>1
    <3>6. y # follower BY <3>5, <3>1
    <3> HIDE DEF s, n, follower, x
    <3> QED BY <1>6, <2>2, <3>1, <3>3, <3>4, <3>6
  <2> QED BY <2>1, <2>2
<1> HIDE DEF g, z
<1>12. Held(r, M, g) BY <1>6, <1>7, <1>9, <1>10, <1>11 DEF Held
<1> QED BY <1>12 DEF g, z

-----------------------------------------------------------------------------
(* What the operations do.                                                 *)

\* The pointers of the list of one owner, which holds s.
HeldBy(l, M, s, o) ==
  /\ s \in Seq(M) /\ Len(s) \in Nat /\ 0 \notin M /\ l \in Lists(M)
  /\ \A i \in 1 .. Len(s) : s[i] \in M /\ s[i] # Null
  /\ \A i, j \in 1 .. Len(s) : s[i] = s[j] => i = j
  /\ l.first[o] = IF Len(s) = 0 THEN Null ELSE s[1]
  /\ \A i \in 1 .. Len(s) : l.next[s[i]] = IF i = Len(s) THEN Null ELSE s[i + 1]
  /\ \A i \in 1 .. Len(s) : l.prev[s[i]] = IF i = 1 THEN s[Len(s)] ELSE s[i - 1]

\* What Held says of one list.
LEMMA HeldOf ==
  ASSUME NEW M, Listed(M), NEW l, NEW q, Held(l, M, q), NEW o \in Nodes
  PROVE  HeldBy(l, M, q[o], o)
<1> DEFINE s == q[o]
           n == Len(s)
<1>1. s \in Seq(M) /\ n \in Nat /\ 0 \notin M /\ l \in Lists(M) /\ q \in [Nodes -> Seq(M)] BY DEF Held, Listed
<1>2. \A i \in 1 .. n : s[i] \in M /\ s[i] # Null BY <1>1 DEF Null
<1>3. \A i, j \in 1 .. n : s[i] = s[j] => i = j BY DEF Held
<1>4. Chain(l, o, s) BY DEF Held
<1> HIDE DEF s
<1>5. HeldBy(l, M, s, o) BY <1>1, <1>2, <1>3, <1>4 DEF Chain, HeldBy
<1> QED BY <1>5 DEF s

\* What is in no list has no pointers.
LEMMA UnlistedFree ==
  ASSUME NEW M, NEW l, NEW q, Held(l, M, q), NEW x \in M, Unlisted(q, x)
  PROVE  /\ l.prev[x] = Null /\ l.next[x] = Null
         /\ \A o \in Nodes : \A i \in 1 .. Len(q[o]) : q[o][i] # x
BY DEF Held, Unlisted, Has

\* append_node: the new member comes after the last.
LEMMA LinkLastIs ==
  ASSUME NEW M, Listed(M), NEW l, NEW q, Held(l, M, q), NEW o \in Nodes, NEW x \in M, Unlisted(q, x)
  PROVE  Inserted(l, LinkLast(l, x, o), M, q[o], o, Len(q[o]) + 1, x)
<1> DEFINE s == q[o]
           n == Len(s)
           r == LinkLast(l, x, o)
<1>1. /\ s \in Seq(M) /\ n \in Nat /\ 0 \notin M /\ l \in Lists(M)
      /\ \A i \in 1 .. n : s[i] \in M /\ s[i] # Null
      /\ \A i, j \in 1 .. n : s[i] = s[j] => i = j
      /\ l.first[o] = IF n = 0 THEN Null ELSE s[1]
      /\ \A i \in 1 .. n : l.next[s[i]] = IF i = n THEN Null ELSE s[i + 1]
      /\ \A i \in 1 .. n : l.prev[s[i]] = IF i = 1 THEN s[n] ELSE s[i - 1]
  <2>1. HeldBy(l, M, s, o) BY HeldOf
  <2> HIDE DEF s
  <2> QED BY <2>1 DEF HeldBy
<1>2. l.prev[x] = Null /\ l.next[x] = Null /\ \A i \in 1 .. n : s[i] # x BY UnlistedFree
<1> HIDE DEF s, n
<1>3. CASE n = 0
  <2>1. r = [l EXCEPT !.first[o] = x, !.prev[x] = x] BY <1>1, <1>3, Zenon DEF LinkLast
  <2>2. r = [first |-> [l.first EXCEPT ![o] = x], prev |-> [l.prev EXCEPT ![x] = x], next |-> l.next]
    BY <2>1, <1>1 DEF Lists
  <2> HIDE DEF r
  <2>3. r \in Lists(M) BY <2>2, <1>1 DEF Lists
  <2>4. r.first = [l.first EXCEPT ![o] = x] BY <2>2
  <2>5. \A y \in M : r.next[y] = IF y = x THEN Null ELSE l.next[y] BY <2>2, <1>2
  <2>6. \A y \in M : r.prev[y] = IF y = x THEN x ELSE l.prev[y] BY <2>2, <1>1 DEF Lists
  <2>7. Inserted(l, r, M, s, o, n + 1, x) BY <2>3, <2>4, <2>5, <2>6, <1>3 DEF Inserted, n
  <2> QED BY <2>7 DEF r, s, n
<1>4. CASE n > 0
  <2>1. 1 \in 1 .. n /\ n \in 1 .. n BY <1>1, <1>4
  <2>2. l.first[o] = s[1] /\ l.prev[s[1]] = s[n] /\ s[1] # Null BY <2>1, <1>1, <1>4
  <2>3. r = [l EXCEPT !.next[s[n]] = x, !.prev[x] = s[n], !.prev[s[1]] = x] BY <2>2 DEF LinkLast
  <2>4. s[1] \in M /\ s[n] \in M /\ s[1] # x /\ s[n] # x BY <2>1, <1>1, <1>2
  <2>5. r = [first |-> l.first, prev |-> [[l.prev EXCEPT ![x] = s[n]] EXCEPT ![s[1]] = x], next |-> [l.next EXCEPT ![s[n]] = x]]
    BY <2>3, <2>4, <1>1 DEF Lists
  <2> HIDE DEF r
  <2>6. r \in Lists(M) BY <2>5, <2>4, <1>1 DEF Lists
  <2>7. r.first = [l.first EXCEPT ![o] = @] BY <2>5, <1>1 DEF Lists
  <2>8. \A y \in M : r.next[y] = IF y = x THEN Null ELSE IF y = s[n] THEN x ELSE l.next[y]
    BY <2>5, <2>4, <1>1, <1>2 DEF Lists
  <2>9. \A y \in M : r.prev[y] = IF y = x THEN s[n] ELSE IF y = s[1] THEN x ELSE l.prev[y]
    BY <2>5, <2>4, <1>1 DEF Lists
  <2>10. (n + 1) - 1 = n /\ n + 1 > 1 /\ n + 1 # 1 /\ n # 0 BY <1>1, <1>4
  <2>11. Inserted(l, r, M, s, o, n + 1, x) BY <2>6, <2>7, <2>8, <2>9, <2>10 DEF Inserted, n
  <2> QED BY <2>11 DEF r, s, n
<1> QED BY <1>1, <1>3, <1>4

\* prepend_node: the new member comes first.
LEMMA LinkFirstIs ==
  ASSUME NEW M, Listed(M), NEW l, NEW q, Held(l, M, q), NEW o \in Nodes, NEW x \in M, Unlisted(q, x)
  PROVE  Inserted(l, LinkFirst(l, x, o), M, q[o], o, 1, x)
<1> DEFINE s == q[o]
           n == Len(s)
           r == LinkFirst(l, x, o)
<1>1. /\ s \in Seq(M) /\ n \in Nat /\ 0 \notin M /\ l \in Lists(M)
      /\ \A i \in 1 .. n : s[i] \in M /\ s[i] # Null
      /\ \A i, j \in 1 .. n : s[i] = s[j] => i = j
      /\ l.first[o] = IF n = 0 THEN Null ELSE s[1]
      /\ \A i \in 1 .. n : l.next[s[i]] = IF i = n THEN Null ELSE s[i + 1]
      /\ \A i \in 1 .. n : l.prev[s[i]] = IF i = 1 THEN s[n] ELSE s[i - 1]
  <2>1. HeldBy(l, M, s, o) BY HeldOf
  <2> HIDE DEF s
  <2> QED BY <2>1 DEF HeldBy
<1>2. l.prev[x] = Null /\ l.next[x] = Null /\ \A i \in 1 .. n : s[i] # x BY UnlistedFree
<1> HIDE DEF s, n
<1>3. CASE n = 0
  <2>1. r = [[l EXCEPT !.prev[x] = x] EXCEPT !.next[x] = Null, !.first[o] = x] BY <1>1, <1>3, Zenon DEF LinkFirst
  <2>2. r = [first |-> [l.first EXCEPT ![o] = x], prev |-> [l.prev EXCEPT ![x] = x], next |-> [l.next EXCEPT ![x] = Null]]
    BY <2>1, <1>1 DEF Lists
  <2> HIDE DEF r
  <2>3. r \in Lists(M) BY <2>2, <1>1 DEF Lists
  <2>4. r.first = [l.first EXCEPT ![o] = x] BY <2>2
  <2>5. \A y \in M : r.next[y] = IF y = x THEN Null ELSE l.next[y] BY <2>2, <1>1 DEF Lists
  <2>6. \A y \in M : r.prev[y] = IF y = x THEN x ELSE l.prev[y] BY <2>2, <1>1 DEF Lists
  <2>7. Inserted(l, r, M, s, o, 1, x) BY <2>3, <2>4, <2>5, <2>6, <1>3 DEF Inserted, n
  <2> QED BY <2>7 DEF r, s, n
<1>4. CASE n > 0
  <2>1. 1 \in 1 .. n /\ n \in 1 .. n BY <1>1, <1>4
  <2>2. l.first[o] = s[1] /\ l.prev[s[1]] = s[n] /\ s[1] # Null BY <2>1, <1>1, <1>4
  <2>3. r = [[l EXCEPT !.prev[x] = s[n], !.prev[s[1]] = x] EXCEPT !.next[x] = s[1], !.first[o] = x] BY <2>2 DEF LinkFirst
  <2>4. s[1] \in M /\ s[n] \in M /\ s[1] # x /\ s[n] # x BY <2>1, <1>1, <1>2
  <2>5. r = [first |-> [l.first EXCEPT ![o] = x], prev |-> [[l.prev EXCEPT ![x] = s[n]] EXCEPT ![s[1]] = x],
             next |-> [l.next EXCEPT ![x] = s[1]]]
    BY <2>3, <2>4, <1>1 DEF Lists
  <2> HIDE DEF r
  <2>6. r \in Lists(M) BY <2>5, <2>4, <1>1 DEF Lists
  <2>7. r.first = [l.first EXCEPT ![o] = x] BY <2>5
  <2>8. \A y \in M : r.next[y] = IF y = x THEN s[1] ELSE l.next[y] BY <2>5, <2>4, <1>1 DEF Lists
  <2>9. \A y \in M : r.prev[y] = IF y = x THEN s[n] ELSE IF y = s[1] THEN x ELSE l.prev[y]
    BY <2>5, <2>4, <1>1 DEF Lists
  <2>10. n > 0 /\ n # 0 /\ 1 # n + 1 BY <1>1, <1>4
  <2>11. Inserted(l, r, M, s, o, 1, x) BY <2>6, <2>7, <2>8, <2>9, <2>10 DEF Inserted, n
  <2> QED BY <2>11 DEF r, s, n
<1> QED BY <1>1, <1>3, <1>4

\* insert_node_after: the new member follows place.
LEMMA LinkAfterIs ==
  ASSUME NEW M, Listed(M), NEW l, NEW q, Held(l, M, q), NEW o \in Nodes, NEW x \in M, Unlisted(q, x),
         NEW k \in 1 .. Len(q[o])
  PROVE  Inserted(l, LinkAfter(l, x, q[o][k], o), M, q[o], o, k + 1, x)
<1> DEFINE s == q[o]
           n == Len(s)
           r == LinkAfter(l, x, s[k], o)
<1>1. /\ s \in Seq(M) /\ n \in Nat /\ 0 \notin M /\ l \in Lists(M)
      /\ \A i \in 1 .. n : s[i] \in M /\ s[i] # Null
      /\ \A i, j \in 1 .. n : s[i] = s[j] => i = j
      /\ l.first[o] = IF n = 0 THEN Null ELSE s[1]
      /\ \A i \in 1 .. n : l.next[s[i]] = IF i = n THEN Null ELSE s[i + 1]
      /\ \A i \in 1 .. n : l.prev[s[i]] = IF i = 1 THEN s[n] ELSE s[i - 1]
  <2>1. HeldBy(l, M, s, o) BY HeldOf
  <2> HIDE DEF s
  <2> QED BY <2>1 DEF HeldBy
<1>2. l.prev[x] = Null /\ l.next[x] = Null /\ \A i \in 1 .. n : s[i] # x BY UnlistedFree
<1>3. k \in 1 .. n OBVIOUS
<1> DEFINE follower == s[IF k = n THEN 1 ELSE k + 1]
           after == IF k = n THEN Null ELSE s[k + 1]
<1> HIDE DEF s, n
<1>4. follower = (IF l.next[s[k]] # Null THEN l.next[s[k]] ELSE l.first[o]) /\ l.next[s[k]] = after
  <2>1. k # n => k + 1 \in 1 .. n BY <1>1, <1>3
  <2> QED BY <2>1, <1>1, <1>3
<1>5. follower \in M /\ s[k] \in M /\ follower # x /\ s[k] # x /\ after \in M \union {Null}
  <2>1. (IF k = n THEN 1 ELSE k + 1) \in 1 .. n BY <1>3, <1>1
  <2>2. k # n => k + 1 \in 1 .. n BY <1>1, <1>3
  <2> QED BY <2>1, <2>2, <1>1, <1>2, <1>3
<1> HIDE DEF follower, after
<1>6. r = [l EXCEPT !.prev[follower] = x, !.next[x] = after, !.prev[x] = s[k], !.next[s[k]] = x]
  BY <1>4, Zenon DEF LinkAfter
<1>7. r = [first |-> l.first, prev |-> [[l.prev EXCEPT ![follower] = x] EXCEPT ![x] = s[k]],
           next |-> [[l.next EXCEPT ![x] = after] EXCEPT ![s[k]] = x]]
  BY <1>6, <1>5, <1>1 DEF Lists
<1> HIDE DEF r
<1>8. r \in Lists(M) BY <1>7, <1>5, <1>1 DEF Lists
<1>9. r.first = [l.first EXCEPT ![o] = @] BY <1>7, <1>1 DEF Lists
<1>10. \A y \in M : r.next[y] = IF y = x THEN after ELSE IF y = s[k] THEN x ELSE l.next[y]
  BY <1>7, <1>5, <1>1 DEF Lists
<1>11. \A y \in M : r.prev[y] = IF y = x THEN s[k] ELSE IF y = follower THEN x ELSE l.prev[y]
  BY <1>7, <1>5, <1>1 DEF Lists
<1>12. (k + 1) - 1 = k /\ k + 1 > 1 /\ k + 1 # 1 /\ (k + 1 = n + 1 <=> k = n) /\ n # 0 /\ n > 0 BY <1>1, <1>3
<1>13. Inserted(l, r, M, s, o, k + 1, x) BY <1>8, <1>9, <1>10, <1>11, <1>12 DEF Inserted, n, follower, after
<1> QED BY <1>13 DEF r, s, n

\* insert_node_before: the new member takes the place, and the first of the list with it.
LEMMA LinkBeforeIs ==
  ASSUME NEW M, Listed(M), NEW l, NEW q, Held(l, M, q), NEW o \in Nodes, NEW x \in M, Unlisted(q, x),
         NEW k \in 1 .. Len(q[o])
  PROVE  Inserted(l, LinkBefore(l, x, q[o][k], o), M, q[o], o, k, x)
<1> DEFINE s == q[o]
           n == Len(s)
           r == LinkBefore(l, x, s[k], o)
<1>1. /\ s \in Seq(M) /\ n \in Nat /\ 0 \notin M /\ l \in Lists(M)
      /\ \A i \in 1 .. n : s[i] \in M /\ s[i] # Null
      /\ \A i, j \in 1 .. n : s[i] = s[j] => i = j
      /\ l.first[o] = IF n = 0 THEN Null ELSE s[1]
      /\ \A i \in 1 .. n : l.next[s[i]] = IF i = n THEN Null ELSE s[i + 1]
      /\ \A i \in 1 .. n : l.prev[s[i]] = IF i = 1 THEN s[n] ELSE s[i - 1]
  <2>1. HeldBy(l, M, s, o) BY HeldOf
  <2> HIDE DEF s
  <2> QED BY <2>1 DEF HeldBy
<1>2. l.prev[x] = Null /\ l.next[x] = Null /\ \A i \in 1 .. n : s[i] # x BY UnlistedFree
<1>3. k \in 1 .. n OBVIOUS
<1> DEFINE before == IF k = 1 THEN s[n] ELSE s[k - 1]
<1> HIDE DEF s, n
<1>4. l.prev[s[k]] = before /\ (l.next[before] # Null <=> k # 1)
  <2>1. k # 1 => k - 1 \in 1 .. n /\ k - 1 # n /\ (k - 1) + 1 = k BY <1>1, <1>3
  <2>2. n \in 1 .. n BY <1>1, <1>3
  <2>3. CASE k = 1 BY <2>2, <2>3, <1>1, <1>3 DEF before
  <2>4. CASE k # 1
    <3>1. before = s[k - 1] /\ l.prev[s[k]] = s[k - 1] BY <2>4, <1>1, <1>3 DEF before
    <3>2. l.next[s[k - 1]] = s[k] /\ s[k] # Null BY <2>1, <2>4, <1>1, <1>3
    <3> QED BY <2>4, <3>1, <3>2
  <2> QED BY <2>3, <2>4
<1>5. before \in M /\ s[k] \in M /\ before # x /\ s[k] # x
  <2>1. k # 1 => k - 1 \in 1 .. n BY <1>1, <1>3
  <2>2. n \in 1 .. n BY <1>1, <1>3
  <2> QED BY <2>1, <2>2, <1>1, <1>2, <1>3
<1> DEFINE linked == IF k # 1 THEN [l EXCEPT !.next[before] = x] ELSE [l EXCEPT !.first[o] = x]
<1>6. r = [linked EXCEPT !.prev[x] = before, !.next[x] = s[k], !.prev[s[k]] = x]
  BY <1>4, Zenon DEF LinkBefore
<1>7. r = [first |-> IF k # 1 THEN l.first ELSE [l.first EXCEPT ![o] = x],
           prev |-> [[l.prev EXCEPT ![x] = before] EXCEPT ![s[k]] = x],
           next |-> IF k # 1 THEN [[l.next EXCEPT ![before] = x] EXCEPT ![x] = s[k]] ELSE [l.next EXCEPT ![x] = s[k]]]
  <2> HIDE DEF before, r
  <2>1. CASE k = 1 BY <2>1, <1>6, <1>5, <1>1 DEF Lists
  <2>2. CASE k # 1 BY <2>2, <1>6, <1>5, <1>1 DEF Lists
  <2> QED BY <2>1, <2>2
<1> HIDE DEF r
<1>8. r.first = [l.first EXCEPT ![o] = IF k = 1 THEN x ELSE @] BY <1>7, <1>1 DEF Lists
<1>9. \A y \in M : r.next[y] = IF y = x THEN s[k] ELSE IF k > 1 /\ y = s[k - 1] THEN x ELSE l.next[y]
  <2>1. k # 1 <=> k > 1 BY <1>3
  <2>2. k # 1 => before = s[k - 1] OBVIOUS
  <2> HIDE DEF before
  <2>3. CASE k = 1 BY <2>3, <1>7, <1>5, <1>1 DEF Lists
  <2>4. CASE k # 1
    <3>1. r.next = [[l.next EXCEPT ![before] = x] EXCEPT ![x] = s[k]] BY <2>4, <1>7
    <3>2. \A y \in M : r.next[y] = IF y = x THEN s[k] ELSE IF y = before THEN x ELSE l.next[y]
      BY <3>1, <1>5, <1>1 DEF Lists
    <3> QED BY <2>1, <2>2, <2>4, <3>2
  <2> QED BY <2>3, <2>4
<1>10. \A y \in M : r.prev[y] = IF y = x THEN before ELSE IF y = s[k] THEN x ELSE l.prev[y]
  BY <1>7, <1>5, <1>1 DEF Lists
<1>11. r \in Lists(M)
  <2> HIDE DEF before
  <2> QED BY <1>7, <1>5, <1>1 DEF Lists
<1>12. k # n + 1 /\ n # 0 /\ n > 0 BY <1>1, <1>3
<1>13. Inserted(l, r, M, s, o, k, x)
  <2>1. \A y \in M : r.prev[y] = IF y = x THEN (IF k = 1 THEN s[n] ELSE s[k - 1]) ELSE IF y = s[k] THEN x ELSE l.prev[y]
    BY <1>10
  <2> QED BY <1>8, <1>9, <1>11, <1>12, <2>1 DEF Inserted, n
<1> QED BY <1>13 DEF r, s, n

\* Each way to link a new member inserts it at one place.
LEMMA LinkIs ==
  ASSUME NEW M, Listed(M), NEW l, NEW q, Held(l, M, q), NEW o \in Nodes, NEW x \in M, Unlisted(q, x),
         NEW place, Place(q[o], place)
  PROVE  \E p \in 1 .. Len(q[o]) + 1 : Inserted(l, Link(l, x, o, place), M, q[o], o, p, x)
<1> DEFINE n == Len(q[o])
<1>0. n \in Nat BY HeldOf DEF HeldBy
<1>1. CASE place = <<"last">>
  <2>1. Link(l, x, o, place) = LinkLast(l, x, o) BY <1>1 DEF Link
  <2>2. n + 1 \in 1 .. n + 1 BY <1>0
  <2> QED BY <2>1, <2>2, LinkLastIs
<1>2. CASE place = <<"first">>
  <2>1. Link(l, x, o, place) = LinkFirst(l, x, o) BY <1>2 DEF Link
  <2>2. 1 \in 1 .. n + 1 BY <1>0
  <2> QED BY <2>1, <2>2, LinkFirstIs
<1>3. ASSUME NEW k \in 1 .. n, place = <<"after", q[o][k]>>
      PROVE  \E p \in 1 .. n + 1 : Inserted(l, Link(l, x, o, place), M, q[o], o, p, x)
  <2>1. Link(l, x, o, place) = LinkAfter(l, x, q[o][k], o) BY <1>3 DEF Link
  <2>2. k + 1 \in 1 .. n + 1 BY <1>0
  <2> QED BY <2>1, <2>2, LinkAfterIs
<1>4. ASSUME NEW k \in 1 .. n, place = <<"before", q[o][k]>>
      PROVE  \E p \in 1 .. n + 1 : Inserted(l, Link(l, x, o, place), M, q[o], o, p, x)
  <2>1. Link(l, x, o, place) = LinkBefore(l, x, q[o][k], o) BY <1>4 DEF Link
  <2>2. k \in 1 .. n + 1 BY <1>0
  <2> QED BY <2>1, <2>2, LinkBeforeIs
<1> QED BY <1>1, <1>2, <1>3, <1>4 DEF Place

\* remove_node: the member goes and its neighbours are each other's.
LEMMA UnlinkIs ==
  ASSUME NEW M, Listed(M), NEW l, NEW q, Held(l, M, q), NEW o \in Nodes, NEW p \in 1 .. Len(q[o])
  PROVE  Deleted(l, Unlink(l, q[o][p], o), M, q[o], o, p)
<1> DEFINE s == q[o]
           n == Len(s)
           x == s[p]
           r == Unlink(l, x, o)
<1>1. /\ s \in Seq(M) /\ n \in Nat /\ 0 \notin M /\ l \in Lists(M)
      /\ \A i \in 1 .. n : s[i] \in M /\ s[i] # Null
      /\ \A i, j \in 1 .. n : s[i] = s[j] => i = j
      /\ l.first[o] = IF n = 0 THEN Null ELSE s[1]
      /\ \A i \in 1 .. n : l.next[s[i]] = IF i = n THEN Null ELSE s[i + 1]
      /\ \A i \in 1 .. n : l.prev[s[i]] = IF i = 1 THEN s[n] ELSE s[i - 1]
  <2>1. HeldBy(l, M, s, o) BY HeldOf
  <2> HIDE DEF s
  <2> QED BY <2>1 DEF HeldBy
<1>2. p \in 1 .. n /\ n > 0 /\ n \in 1 .. n /\ 1 \in 1 .. n BY <1>1
<1> DEFINE a == IF p = n THEN 1 ELSE p + 1
           follower == s[a]
           before == IF p = 1 THEN s[n] ELSE s[p - 1]
           after == IF p = n THEN Null ELSE s[p + 1]
           back == [l EXCEPT !.prev[follower] = before]
           forth == IF p # 1 THEN [back EXCEPT !.next[before] = after] ELSE [back EXCEPT !.first[o] = after]
<1> HIDE DEF s, n
<1>3. /\ follower = (IF l.next[x] # Null THEN l.next[x] ELSE l.first[o])
      /\ l.next[x] = after /\ l.prev[x] = before
      /\ follower \in M /\ before \in M /\ x \in M /\ after \in M \union {Null}
      /\ l.next[before] # Null <=> p # 1
  <2>1. a \in 1 .. n /\ (p # n => p + 1 \in 1 .. n) BY <1>1, <1>2
  <2>2. p # 1 => p - 1 \in 1 .. n /\ p - 1 # n /\ (p - 1) + 1 = p BY <1>1, <1>2
  <2>3. l.next[x] = after /\ l.prev[x] = before BY <1>1, <1>2
  <2>4. follower = (IF l.next[x] # Null THEN l.next[x] ELSE l.first[o]) BY <2>1, <2>3, <1>1, <1>2
  <2>5. follower \in M /\ before \in M /\ x \in M /\ after \in M \union {Null} BY <2>1, <2>2, <1>1, <1>2
  <2>6. l.next[before] # Null <=> p # 1 BY <2>2, <1>1, <1>2
  <2> QED BY <2>3, <2>4, <2>5, <2>6
<1> HIDE DEF follower, before, after
<1>a. l \in Lists(M) BY <1>1
<1>4. /\ back.prev[x] = before /\ back.next = l.next /\ back.first = l.first
      /\ back = [first |-> l.first, prev |-> [l.prev EXCEPT ![follower] = before], next |-> l.next]
  <2>1. back = [first |-> l.first, prev |-> [l.prev EXCEPT ![follower] = before], next |-> l.next]
    BY <1>a, <1>3 DEF Lists
  <2> HIDE DEF back
  <2> QED BY <2>1, <1>a, <1>3 DEF Lists
<1>5. r = [forth EXCEPT !.prev[x] = Null, !.next[x] = Null]
  <2> DEFINE follower0 == IF l.next[x] # Null THEN l.next[x] ELSE l.first[o]
             back0 == [l EXCEPT !.prev[follower0] = l.prev[x]]
             before0 == back0.prev[x]
             forth0 == IF back0.next[before0] # Null
                       THEN [back0 EXCEPT !.next[before0] = back0.next[x]]
                       ELSE [back0 EXCEPT !.first[o] = back0.next[x]]
  <2>1. r = [forth0 EXCEPT !.prev[x] = Null, !.next[x] = Null] BY Zenon DEF Unlink
  <2>2. back0 = back BY <1>3
  <2> HIDE DEF back0, back
  <2>3. before0 = before BY <2>2, <1>4
  <2>4. back.next[before] = l.next[before] /\ back.next[x] = after BY <1>3, <1>4
  <2>5. forth0 = forth
    <3> HIDE DEF before0
    <3>1. CASE p = 1 BY <3>1, <2>2, <2>3, <2>4, <1>3
    <3>2. CASE p # 1 BY <3>2, <2>2, <2>3, <2>4, <1>3
    <3> QED BY <3>1, <3>2
  <2> HIDE DEF r, forth0, forth
  <2> QED BY <2>1, <2>5
<1>6. forth = [first |-> IF p # 1 THEN l.first ELSE [l.first EXCEPT ![o] = after],
               prev |-> [l.prev EXCEPT ![follower] = before],
               next |-> IF p # 1 THEN [l.next EXCEPT ![before] = after] ELSE l.next]
  <2> HIDE DEF back
  <2>1. CASE p = 1 BY <2>1, <1>4
  <2>2. CASE p # 1 BY <2>2, <1>4
  <2> QED BY <2>1, <2>2
<1>7. r = [first |-> IF p # 1 THEN l.first ELSE [l.first EXCEPT ![o] = after],
           prev |-> [[l.prev EXCEPT ![follower] = before] EXCEPT ![x] = Null],
           next |-> IF p # 1 THEN [[l.next EXCEPT ![before] = after] EXCEPT ![x] = Null] ELSE [l.next EXCEPT ![x] = Null]]
  <2> HIDE DEF forth, r
  <2> QED BY <1>5, <1>6
<1> HIDE DEF r, forth, back
<1>8. r \in Lists(M) BY <1>7, <1>3, <1>1 DEF Lists
<1>9. r.first = [l.first EXCEPT ![o] = IF p # 1 THEN @ ELSE IF n = 1 THEN Null ELSE s[2]]
  <2>1. p = 1 => after = IF n = 1 THEN Null ELSE s[2] BY DEF after
  <2>2. CASE p # 1 BY <2>2, <1>7, <1>1 DEF Lists
  <2>3. CASE p = 1 BY <2>1, <2>3, <1>7, <1>1 DEF Lists
  <2> QED BY <2>2, <2>3
<1>10. \A y \in M : r.next[y] = IF y = x THEN Null ELSE IF p > 1 /\ y = s[p - 1] THEN after ELSE l.next[y]
  <2>1. p # 1 <=> p > 1 BY <1>2
  <2>2. p # 1 => before = s[p - 1] BY DEF before
  <2>3. CASE p = 1 BY <2>3, <1>7, <1>3, <1>1 DEF Lists
  <2>4. CASE p # 1
    <3>1. r.next = [[l.next EXCEPT ![before] = after] EXCEPT ![x] = Null] BY <2>4, <1>7
    <3>2. \A y \in M : r.next[y] = IF y = x THEN Null ELSE IF y = before THEN after ELSE l.next[y]
      BY <3>1, <1>3, <1>1 DEF Lists
    <3> QED BY <2>1, <2>2, <2>4, <3>2
  <2> QED BY <2>3, <2>4
<1>11. \A y \in M : r.prev[y] = IF y = x THEN Null ELSE IF y = follower THEN before ELSE l.prev[y]
  BY <1>7, <1>3, <1>1 DEF Lists
<1>12. Deleted(l, r, M, s, o, p) BY <1>8, <1>9, <1>10, <1>11 DEF Deleted, n, follower, before, after
<1> QED BY <1>12 DEF r, s, n

-----------------------------------------------------------------------------
(* The tree: K holds the children of each node and A its attributes.        *)

Closed(K, n, S) ==
  S \subseteq Nodes /\ n \in S /\ \A m \in S : \A i \in 1 .. Len(K[m]) : K[m][i] \in S
Down(K, n) == {m \in Nodes : \A S \in SUBSET Nodes : Closed(K, n, S) => m \in S}

Trees == [kind : [Nodes -> Kinds], parent : [Nodes -> Nodes \union {Null}], kids : Lists(Nodes),
          made : SUBSET Attributes, attrs : Lists(Attributes)]

Parents(t, K) ==
  /\ \A p \in Nodes : \A i \in 1 .. Len(K[p]) : t.parent[K[p][i]] = p /\ IsNode(t, K[p][i]) /\ K[p][i] # Root
  /\ \A n \in Nodes : IsNode(t, n) /\ n # Root => t.parent[n] \in Nodes /\ Has(K[t.parent[n]], n)

Tree(t, K, A) ==
  /\ t \in Trees
  /\ Held(t.kids, Nodes, K) /\ Held(t.attrs, Attributes, A)
  /\ \A n \in Nodes : t.kind[n] = "document" <=> n = Root
  /\ \A n \in Nodes : ~IsNode(t, n) => Len(K[n]) = 0 /\ Len(A[n]) = 0
  /\ Parents(t, K)
  /\ \A S \in SUBSET Nodes : Closed(K, Root, S) => \A n \in Nodes : IsNode(t, n) => n \in S
  /\ \A a \in Attributes : a \in t.made <=> \E n \in Nodes : Has(A[n], a)

\* The document is a node and the null pointer is none.
LEMMA RootIsNode == Root \in Nodes /\ Null \notin Nodes /\ Null \notin Attributes
<1>1. MaxNodes \in Nat \ {0} /\ MaxAttributes \in Nat BY TreeAssumption
<1> QED BY <1>1 DEF Root, Nodes, Null, Attributes

\* The members of a sequence as a set.
LEMMA MembersOf ==
  ASSUME NEW M, NEW s \in Seq(M)
  PROVE  /\ ToSet(s) = {s[i] : i \in 1 .. Len(s)} /\ ToSet(s) \subseteq M
         /\ \A x : x \in ToSet(s) <=> Has(s, x)
<1>1. DOMAIN s = 1 .. Len(s) /\ \A i \in 1 .. Len(s) : s[i] \in M OBVIOUS
<1> QED BY <1>1 DEF ToSet, Has

\* What is under a node is closed, and the least set that is.
LEMMA DownIsClosed ==
  ASSUME NEW K \in [Nodes -> Seq(Nodes)], NEW n \in Nodes
  PROVE  /\ Closed(K, n, Down(K, n))
         /\ \A S \in SUBSET Nodes : Closed(K, n, S) => Down(K, n) \subseteq S
<1> DEFINE D == Down(K, n)
<1>1. n \in D BY DEF Down, Closed
<1>2. ASSUME NEW m \in D, NEW i \in 1 .. Len(K[m]) PROVE K[m][i] \in D
  <2>1. m \in Nodes BY DEF Down
  <2>2. K[m] \in Seq(Nodes) BY <2>1
  <2>3. K[m][i] \in Nodes BY <2>2
  <2>4. ASSUME NEW S \in SUBSET Nodes, Closed(K, n, S) PROVE K[m][i] \in S
    <3>1. m \in S BY <2>4 DEF Down
    <3> QED BY <3>1, <2>4 DEF Closed
  <2> QED BY <2>3, <2>4 DEF Down
<1>3. D \subseteq Nodes BY DEF Down
<1>4. Closed(K, n, D) BY <1>1, <1>2, <1>3 DEF Closed
<1>5. \A S \in SUBSET Nodes : Closed(K, n, S) => D \subseteq S BY DEF Down
<1> QED BY <1>4, <1>5

\* The Subtree that the operations compute is what is under the node.
LEMMA SubtreeIs ==
  ASSUME NEW t, NEW K, Held(t.kids, Nodes, K), NEW n \in Nodes
  PROVE  Subtree(t, n) = Down(K, n)
<1>1. K \in [Nodes -> Seq(Nodes)] /\ Listed(Nodes) BY WhatIsListed DEF Held
<1>2. ASSUME NEW m \in Nodes PROVE \A x : x \in Members(t.kids, m) <=> Has(K[m], x)
  <2>1. ListOf(t.kids, m) = K[m] BY <1>1, ListIs
  <2>2. K[m] \in Seq(Nodes) BY <1>1
  <2> QED BY <2>1, <2>2, MembersOf DEF Members
<1> DEFINE below == [m \in Nodes |-> Members(t.kids, m)]
           closed == {S \in SUBSET Nodes : n \in S /\ \A m \in S : below[m] \subseteq S}
<1>3. Subtree(t, n) = {m \in Nodes : \A S \in closed : m \in S} BY DEF Subtree
<1>4. ASSUME NEW S \in SUBSET Nodes PROVE S \in closed <=> Closed(K, n, S)
  <2>1. ASSUME NEW m \in S PROVE below[m] \subseteq S <=> \A i \in 1 .. Len(K[m]) : K[m][i] \in S
    <3>1. m \in Nodes /\ below[m] = Members(t.kids, m) OBVIOUS
    <3> HIDE DEF below
    <3> QED BY <3>1, <1>2 DEF Has
  <2> HIDE DEF below
  <2> QED BY <2>1 DEF Closed
<1>5. closed \subseteq SUBSET Nodes OBVIOUS
<1> HIDE DEF closed
<1> QED BY <1>3, <1>4, <1>5 DEF Down

\* Where two orders agree on what is under a node, the same is under it.
LEMMA DownSame ==
  ASSUME NEW K \in [Nodes -> Seq(Nodes)], NEW L \in [Nodes -> Seq(Nodes)], NEW n \in Nodes,
         \A m \in Down(K, n) : L[m] = K[m]
  PROVE  Down(L, n) = Down(K, n)
<1>1. Closed(K, n, Down(K, n)) /\ Down(K, n) \in SUBSET Nodes BY DownIsClosed DEF Down
<1>2. Closed(L, n, Down(K, n)) BY <1>1 DEF Closed
<1>3. Down(L, n) \subseteq Down(K, n) BY <1>1, <1>2, DownIsClosed
<1>4. Closed(L, n, Down(L, n)) /\ Down(L, n) \in SUBSET Nodes BY DownIsClosed DEF Down
<1>5. Closed(K, n, Down(L, n)) BY <1>3, <1>4 DEF Closed
<1>6. Down(K, n) \subseteq Down(L, n) BY <1>4, <1>5, DownIsClosed
<1> QED BY <1>3, <1>6

\* What is under a node exists, and its parents are under the node, but for the node's own.
LEMMA DownExists ==
  ASSUME NEW t, NEW K, NEW A, Tree(t, K, A), NEW n \in Nodes, IsNode(t, n)
  PROVE  /\ \A m \in Down(K, n) : m \in Nodes /\ IsNode(t, m)
         /\ \A m \in Down(K, n) : m # n => m # Root /\ t.parent[m] \in Down(K, n)
<1> DEFINE D == Down(K, n)
<1>0. K \in [Nodes -> Seq(Nodes)] /\ Parents(t, K) BY DEF Tree, Held
<1>1. Closed(K, n, D) /\ D \in SUBSET Nodes /\ \A S \in SUBSET Nodes : Closed(K, n, S) => D \subseteq S
  BY <1>0, DownIsClosed DEF Down
<1> HIDE DEF D
<1>2. \A m \in D : m \in Nodes /\ IsNode(t, m)
  <2> DEFINE S == {m \in Nodes : IsNode(t, m)}
  <2>1. Closed(K, n, S)
    <3>1. \A m \in S : \A i \in 1 .. Len(K[m]) : K[m][i] \in S
      <4> SUFFICES ASSUME NEW m \in S, NEW i \in 1 .. Len(K[m]) PROVE K[m][i] \in S OBVIOUS
      <4>1. m \in Nodes /\ K[m] \in Seq(Nodes) BY <1>0
      <4>2. K[m][i] \in Nodes BY <4>1
      <4>3. IsNode(t, K[m][i]) BY <4>1, <1>0 DEF Parents
      <4> QED BY <4>2, <4>3
    <3> QED BY <3>1 DEF Closed
  <2>2. S \in SUBSET Nodes OBVIOUS
  <2>3. D \subseteq S
    <3> HIDE DEF S
    <3> QED BY <2>1, <2>2, <1>1
  <2> QED BY <2>3
<1>3. ASSUME NEW m \in D, m # n PROVE m # Root /\ t.parent[m] \in D
  <2>1. m # Root
    <3> SUFFICES ASSUME m = Root PROVE FALSE OBVIOUS
    <3> DEFINE S == D \ {Root}
    <3>1. Closed(K, n, S)
      <4>1. \A y \in S : \A i \in 1 .. Len(K[y]) : K[y][i] \in S
        <5> SUFFICES ASSUME NEW y \in S, NEW i \in 1 .. Len(K[y]) PROVE K[y][i] \in S OBVIOUS
        <5>1. y \in Nodes /\ y \in D BY <1>1
        <5> QED BY <5>1, <1>0, <1>1 DEF Parents, Closed
      <4> QED BY <4>1, <1>1, <1>3 DEF Closed
    <3>2. S \in SUBSET Nodes BY <1>1
    <3>3. D \subseteq S
      <4> HIDE DEF S
      <4> QED BY <3>1, <3>2, <1>1
    <3> QED BY <3>3
  <2>2. m \in Nodes /\ IsNode(t, m) BY <1>2
  <2> DEFINE p == t.parent[m]
             S == D \ {m}
  <2>3. SUFFICES ASSUME p \notin D PROVE FALSE BY <2>1
  <2>4. Closed(K, n, S)
    <3>1. \A y \in S : \A i \in 1 .. Len(K[y]) : K[y][i] \in S
      <4> SUFFICES ASSUME NEW y \in S, NEW i \in 1 .. Len(K[y]) PROVE K[y][i] \in S OBVIOUS
      <4>1. y \in Nodes /\ y \in D BY <1>1
      <4>2. K[y][i] \in D /\ t.parent[K[y][i]] = y BY <4>1, <1>0, <1>1 DEF Parents, Closed
      <4> QED BY <4>1, <4>2, <2>3
    <3> QED BY <3>1, <1>1, <1>3 DEF Closed
  <2>5. S \in SUBSET Nodes BY <1>1
  <2>6. D \subseteq S
    <3> HIDE DEF S
    <3> QED BY <2>4, <2>5, <1>1
  <2> QED BY <2>6
<1> QED BY <1>2, <1>3 DEF D

\* Nothing is under itself.
LEMMA NotUnderItself ==
  ASSUME NEW t, NEW K, NEW A, Tree(t, K, A), NEW n \in Nodes, IsNode(t, n), n # Root
  PROVE  t.parent[n] \in Nodes /\ t.parent[n] \notin Down(K, n) /\ Root \notin Down(K, n)
<1> DEFINE D == Down(K, n)
           p == t.parent[n]
<1>0. K \in [Nodes -> Seq(Nodes)] /\ Parents(t, K)
      /\ \A S \in SUBSET Nodes : Closed(K, Root, S) => \A m \in Nodes : IsNode(t, m) => m \in S
  BY DEF Tree, Held
<1>1. Closed(K, n, D) /\ D \in SUBSET Nodes BY <1>0, DownIsClosed DEF Down
<1>2. \A m \in D : m # n => m # Root /\ t.parent[m] \in D BY DownExists
<1>3. p \in Nodes BY <1>0 DEF Parents
<1>4. Root \notin D BY <1>2
<1>5. ASSUME p \in D PROVE FALSE
  <2> DEFINE S == Nodes \ D
  <2> HIDE DEF D
  <2>1. Closed(K, Root, S)
    <3>1. \A y \in S : \A i \in 1 .. Len(K[y]) : K[y][i] \in S
      <4> SUFFICES ASSUME NEW y \in S, NEW i \in 1 .. Len(K[y]), K[y][i] \in D PROVE FALSE
        <5>1. \A y \in S : K[y] \in Seq(Nodes) BY <1>0
        <5> QED BY <5>1
      <4>1. t.parent[K[y][i]] = y BY <1>0 DEF Parents
      <4> QED BY <4>1, <1>2, <1>5
    <3> QED BY <3>1, <1>4, RootIsNode DEF Closed
  <2>2. S \in SUBSET Nodes OBVIOUS
  <2>3. n \in S
    <3> HIDE DEF S
    <3> QED BY <2>1, <2>2, <1>0
  <2> QED BY <2>3, <1>1 DEF Closed
<1> QED BY <1>3, <1>4, <1>5

\* The members after an insertion.
LEMMA InsHas ==
  ASSUME NEW M, NEW s \in Seq(M), NEW p \in 1 .. Len(s) + 1, NEW x \in M
  PROVE  \A y : Has(Ins(s, p, x), y) <=> y = x \/ Has(s, y)
<1> DEFINE z == Ins(s, p, x)
           n == Len(s)
<1>1. n \in Nat /\ p \in 1 .. n + 1 /\ Len(z) = n + 1
      /\ \A i \in 1 .. n + 1 : z[i] = IF i < p THEN s[i] ELSE IF i = p THEN x ELSE s[i - 1]
  BY InsType
<1> SUFFICES ASSUME NEW y PROVE (\E i \in 1 .. Len(z) : z[i] = y) <=> y = x \/ \E i \in 1 .. n : s[i] = y
  BY DEF Has
<1> HIDE DEF z, n
<1>2. ASSUME NEW i \in 1 .. Len(z), z[i] = y PROVE y = x \/ \E j \in 1 .. n : s[j] = y
  <2>1. i < p => i \in 1 .. n BY <1>1
  <2>2. i > p => i - 1 \in 1 .. n BY <1>1
  <2> QED BY <2>1, <2>2, <1>1, <1>2
<1>3. ASSUME y = x PROVE \E i \in 1 .. Len(z) : z[i] = y
  <2>1. p \in 1 .. Len(z) /\ z[p] = x BY <1>1
  <2> QED BY <2>1, <1>3
<1>4. ASSUME NEW i \in 1 .. n, s[i] = y PROVE \E j \in 1 .. Len(z) : z[j] = y
  <2>1. CASE i < p
    <3>1. i \in 1 .. Len(z) /\ z[i] = s[i] BY <2>1, <1>1
    <3> QED BY <3>1, <1>4
  <2>2. CASE ~(i < p)
    <3> DEFINE j == i + 1
    <3>1. j \in 1 .. n + 1 /\ ~(j < p) /\ j # p /\ j - 1 = i BY <2>2, <1>1
    <3> HIDE DEF j
    <3>2. j \in 1 .. Len(z) /\ z[j] = s[i] BY <3>1, <1>1
    <3> QED BY <3>2, <1>4
  <2> QED BY <2>1, <2>2
<1> QED BY <1>2, <1>3, <1>4

\* The members after a deletion.
LEMMA DelHas ==
  ASSUME NEW M, NEW s \in Seq(M), NEW p \in 1 .. Len(s), \A i, j \in 1 .. Len(s) : s[i] = s[j] => i = j
  PROVE  \A y : Has(Del(s, p), y) <=> y # s[p] /\ Has(s, y)
<1> DEFINE z == Del(s, p)
           n == Len(s)
<1>1. n \in Nat /\ p \in 1 .. n /\ Len(z) = n - 1
      /\ \A i \in 1 .. n - 1 : z[i] = IF i < p THEN s[i] ELSE s[i + 1]
  BY DelType
<1>2. \A i, j \in 1 .. n : s[i] = s[j] => i = j OBVIOUS
<1> SUFFICES ASSUME NEW y PROVE (\E i \in 1 .. Len(z) : z[i] = y) <=> y # s[p] /\ \E i \in 1 .. n : s[i] = y
  BY DEF Has
<1> HIDE DEF z, n
<1>3. ASSUME NEW i \in 1 .. Len(z), z[i] = y PROVE y # s[p] /\ \E j \in 1 .. n : s[j] = y
  <2> DEFINE j == IF i < p THEN i ELSE i + 1
  <2>1. j \in 1 .. n /\ j # p /\ z[i] = s[j] BY <1>1
  <2> HIDE DEF j
  <2> QED BY <2>1, <1>1, <1>2, <1>3
<1>4. ASSUME y # s[p], NEW i \in 1 .. n, s[i] = y PROVE \E j \in 1 .. Len(z) : z[j] = y
  <2>0. i # p BY <1>4
  <2>1. CASE i < p
    <3>1. i \in 1 .. Len(z) /\ z[i] = s[i] BY <2>1, <1>1
    <3> QED BY <3>1, <1>4
  <2>2. CASE ~(i < p)
    <3> DEFINE j == i - 1
    <3>1. j \in 1 .. n - 1 /\ ~(j < p) /\ j + 1 = i BY <2>0, <2>2, <1>1
    <3> HIDE DEF j
    <3>2. j \in 1 .. Len(z) /\ z[j] = s[i] BY <3>1, <1>1
    <3> QED BY <3>2, <1>4
  <2> QED BY <2>1, <2>2
<1> QED BY <1>3, <1>4

\* What no node that exists has in a list, is in none.
LEMMA FreeUnlisted ==
  ASSUME NEW t, NEW K, NEW A, Tree(t, K, A)
  PROVE  /\ \A c \in Nodes : ~IsNode(t, c) \/ c = Root => Unlisted(K, c)
         /\ \A a \in Attributes : a \notin t.made => Unlisted(A, a)
BY DEF Tree, Unlisted, Has, Parents

\* A new node, linked anywhere under a node that exists, leaves a tree.
LEMMA NodeAdded ==
  ASSUME NEW t, NEW K, NEW A, Tree(t, K, A), NEW c \in Nodes, ~IsNode(t, c), NEW p \in Nodes, IsNode(t, p),
         NEW k \in NewKinds, NEW place \in 1 .. Len(K[p]) + 1, NEW l, Inserted(t.kids, l, Nodes, K[p], p, place, c),
         NEW r, r = [t EXCEPT !.kind[c] = k, !.parent[c] = p, !.kids = l]
  PROVE  Tree(r, [K EXCEPT ![p] = Ins(K[p], place, c)], A)
<1> DEFINE z == Ins(K[p], place, c)
           L == [K EXCEPT ![p] = z]
<1>1. /\ t \in Trees /\ Held(t.kids, Nodes, K) /\ Held(t.attrs, Attributes, A) /\ K \in [Nodes -> Seq(Nodes)]
      /\ A \in [Nodes -> Seq(Attributes)]
  BY DEF Tree, Held
<1>2. Unlisted(K, c) BY FreeUnlisted
<1>3. Held(l, Nodes, L) BY <1>1, <1>2, WhatIsListed, InsertedHeld
<1>4. k \in Kinds /\ k \notin {"free", "document"} /\ c # Root /\ c # p
  <2>1. c # Root BY DEF Tree, IsNode
  <2> QED BY <2>1 DEF Kinds, NewKinds
<1>5. /\ r \in Trees /\ r.kids = l /\ r.attrs = t.attrs /\ r.made = t.made
      /\ r.kind = [t.kind EXCEPT ![c] = k] /\ r.parent = [t.parent EXCEPT ![c] = p]
  <2>1. l \in Lists(Nodes) BY DEF Inserted
  <2>2. r = [kind |-> [t.kind EXCEPT ![c] = k], parent |-> [t.parent EXCEPT ![c] = p], kids |-> l, made |-> t.made, attrs |-> t.attrs]
    BY <1>1 DEF Trees
  <2>3. [t.kind EXCEPT ![c] = k] \in [Nodes -> Kinds] /\ [t.parent EXCEPT ![c] = p] \in [Nodes -> Nodes \union {Null}]
    BY <1>1, <1>4 DEF Trees
  <2>4. t.made \in SUBSET Attributes /\ t.attrs \in Lists(Attributes) BY <1>1 DEF Trees
  <2> QED BY <2>1, <2>2, <2>3, <2>4 DEF Trees
<1>6. /\ \A n \in Nodes : r.kind[n] = IF n = c THEN k ELSE t.kind[n]
      /\ \A n \in Nodes : r.parent[n] = IF n = c THEN p ELSE t.parent[n]
  BY <1>1, <1>5 DEF Trees
<1>7. \A n \in Nodes : IsNode(r, n) <=> n = c \/ IsNode(t, n) BY <1>4, <1>6 DEF IsNode
<1>8. L[p] = z /\ (\A n \in Nodes : n # p => L[n] = K[n]) /\ L \in [Nodes -> Seq(Nodes)]
  BY <1>1, <1>3 DEF Held
<1>9. \A y : Has(z, y) <=> y = c \/ Has(K[p], y) BY <1>1, InsHas
<1>a. \A n \in Nodes : \A y : Has(L[n], y) <=> (n = p /\ y = c) \/ Has(K[n], y) BY <1>8, <1>9
<1>b. \A n \in Nodes, y \in Nodes : Has(K[n], y) => t.parent[y] = n /\ IsNode(t, y) /\ y # Root /\ y # c
  BY <1>2 DEF Tree, Parents, Has, Unlisted
<1>c. \A n \in Nodes : \A i \in 1 .. Len(L[n]) : L[n][i] \in Nodes /\ Has(L[n], L[n][i])
  <2> HIDE DEF L
  <2> QED BY <1>8 DEF Has
<1>d. \A n \in Nodes : \A i \in 1 .. Len(K[n]) : K[n][i] \in Nodes /\ Has(K[n], K[n][i]) BY <1>1 DEF Has
<1> HIDE DEF L, z
<1>10. \A n \in Nodes : r.kind[n] = "document" <=> n = Root BY <1>4, <1>6 DEF Tree
<1>11. \A n \in Nodes : ~IsNode(r, n) => Len(L[n]) = 0 /\ Len(A[n]) = 0 BY <1>7, <1>8 DEF Tree
<1>12. Parents(r, L)
  <2>1. \A q \in Nodes : \A i \in 1 .. Len(L[q]) : r.parent[L[q][i]] = q /\ IsNode(r, L[q][i]) /\ L[q][i] # Root
    <3> SUFFICES ASSUME NEW q \in Nodes, NEW i \in 1 .. Len(L[q])
                 PROVE  r.parent[L[q][i]] = q /\ IsNode(r, L[q][i]) /\ L[q][i] # Root
      OBVIOUS
    <3> DEFINE y == L[q][i]
    <3>1. y \in Nodes /\ Has(L[q], y) BY <1>c
    <3> HIDE DEF y
    <3>2. CASE y = c
      <4>1. q = p BY <3>1, <3>2, <1>a, <1>b
      <4> QED BY <4>1, <3>2, <1>6, <1>7, <1>4 DEF y
    <3>3. CASE y # c
      <4>1. t.parent[y] = q /\ IsNode(t, y) /\ y # Root BY <3>1, <3>3, <1>a, <1>b
      <4>2. r.parent[y] = q /\ IsNode(r, y) BY <4>1, <3>1, <3>3, <1>6, <1>7
      <4> QED BY <4>1, <4>2 DEF y
    <3> QED BY <3>2, <3>3
  <2>2. ASSUME NEW n \in Nodes, IsNode(r, n), n # Root PROVE r.parent[n] \in Nodes /\ Has(L[r.parent[n]], n)
    <3>1. CASE n = c BY <3>1, <1>6, <1>a
    <3>2. CASE n # c
      <4>1. t.parent[n] \in Nodes /\ Has(K[t.parent[n]], n) BY <2>2, <3>2, <1>7 DEF Tree, Parents
      <4> QED BY <4>1, <3>2, <1>6, <1>a
    <3> QED BY <3>1, <3>2
  <2> QED BY <2>1, <2>2 DEF Parents
<1>13. ASSUME NEW S \in SUBSET Nodes, Closed(L, Root, S), NEW n \in Nodes, IsNode(r, n) PROVE n \in S
  <2>0. \A m \in S : \A y : Has(L[m], y) => y \in S BY <1>13 DEF Closed, Has
  <2>1. Closed(K, Root, S)
    <3>1. \A m \in S : \A i \in 1 .. Len(K[m]) : K[m][i] \in S BY <2>0, <1>a, <1>d
    <3> QED BY <3>1, <1>13 DEF Closed
  <2>2. \A m \in Nodes : IsNode(t, m) => m \in S BY <2>1 DEF Tree
  <2>3. c \in S BY <2>2, <2>0, <1>a
  <2> QED BY <2>2, <2>3, <1>7, <1>13
<1>14. \A a \in Attributes : a \in r.made <=> \E n \in Nodes : Has(A[n], a) BY <1>5 DEF Tree
<1>15. Held(r.kids, Nodes, L) /\ Held(r.attrs, Attributes, A) BY <1>1, <1>3, <1>5
<1>16. Tree(r, L, A) BY <1>5, <1>10, <1>11, <1>12, <1>13, <1>14, <1>15 DEF Tree
<1> QED BY <1>16 DEF L, z

\* So does a new attribute.
LEMMA AttributeAdded ==
  ASSUME NEW t, NEW K, NEW A, Tree(t, K, A), NEW a \in Attributes, a \notin t.made, NEW p \in Nodes, IsNode(t, p),
         NEW place \in 1 .. Len(A[p]) + 1, NEW l, Inserted(t.attrs, l, Attributes, A[p], p, place, a),
         NEW r, r = [t EXCEPT !.made = @ \union {a}, !.attrs = l]
  PROVE  Tree(r, K, [A EXCEPT ![p] = Ins(A[p], place, a)])
<1> DEFINE z == Ins(A[p], place, a)
           B == [A EXCEPT ![p] = z]
<1>1. t \in Trees /\ Held(t.kids, Nodes, K) /\ Held(t.attrs, Attributes, A) /\ A \in [Nodes -> Seq(Attributes)]
  BY DEF Tree, Held
<1>2. Unlisted(A, a) BY FreeUnlisted
<1>3. Held(l, Attributes, B) BY <1>1, <1>2, WhatIsListed, InsertedHeld
<1>4. r = [kind |-> t.kind, parent |-> t.parent, kids |-> t.kids, made |-> t.made \union {a}, attrs |-> l]
  BY <1>1 DEF Trees
<1>5. r \in Trees
  <2>1. l \in Lists(Attributes) BY DEF Inserted
  <2> QED BY <2>1, <1>1, <1>4 DEF Trees
<1>6. r.kind = t.kind /\ r.parent = t.parent /\ r.kids = t.kids /\ r.attrs = l /\ r.made = t.made \union {a}
  BY <1>4
<1>7. \A n : IsNode(r, n) <=> IsNode(t, n) BY <1>6 DEF IsNode
<1>8. B[p] = z /\ \A n \in Nodes : n # p => B[n] = A[n] BY <1>1
<1>9. \A y : Has(z, y) <=> y = a \/ Has(A[p], y) BY <1>1, InsHas
<1>a. \A n \in Nodes : \A y : Has(B[n], y) <=> (n = p /\ y = a) \/ Has(A[n], y) BY <1>8, <1>9
<1> HIDE DEF B, z
<1>10. \A y \in Attributes : y \in r.made <=> \E n \in Nodes : Has(B[n], y)
  <2>1. \A y \in Attributes : y \in t.made <=> \E n \in Nodes : Has(A[n], y) BY DEF Tree
  <2> QED BY <2>1, <1>a, <1>6
<1>11. \A n \in Nodes : ~IsNode(r, n) => Len(K[n]) = 0 /\ Len(B[n]) = 0 BY <1>7, <1>8 DEF Tree
<1>12. Parents(r, K) BY <1>6, <1>7 DEF Tree, Parents
<1>13. \A S \in SUBSET Nodes : Closed(K, Root, S) => \A n \in Nodes : IsNode(r, n) => n \in S BY <1>7 DEF Tree
<1>14. \A n \in Nodes : r.kind[n] = "document" <=> n = Root BY <1>6 DEF Tree
<1>15. Held(r.kids, Nodes, K) /\ Held(r.attrs, Attributes, B) BY <1>1, <1>3, <1>6
<1>16. Tree(r, K, B) BY <1>5, <1>10, <1>11, <1>12, <1>13, <1>14, <1>15 DEF Tree
<1> QED BY <1>16 DEF B, z

\* Members are of the type of the sequence.
LEMMA HasType ==
  ASSUME NEW M, NEW q \in [Nodes -> Seq(M)]
  PROVE  /\ \A n \in Nodes : \A y : Has(q[n], y) => y \in M
         /\ \A n \in Nodes : \A i \in 1 .. Len(q[n]) : q[n][i] \in M /\ Has(q[n], q[n][i])
<1>1. ASSUME NEW n \in Nodes, NEW i \in 1 .. Len(q[n]) PROVE q[n][i] \in M /\ Has(q[n], q[n][i])
  <2>1. q[n] \in Seq(M) OBVIOUS
  <2> QED BY <2>1 DEF Has
<1> QED BY <1>1 DEF Has

\* A sequence without members.
LEMMA EmptyHasNone ==
  ASSUME NEW M, NEW s \in Seq(M)
  PROVE  Len(s) = 0 <=> \A y : ~Has(s, y)
<1>1. Len(s) \in Nat OBVIOUS
<1>2. ASSUME Len(s) # 0 PROVE \E y : Has(s, y)
  <2>1. 1 \in 1 .. Len(s) BY <1>1, <1>2
  <2> QED BY <2>1 DEF Has
<1>3. ASSUME Len(s) = 0 PROVE \A y : ~Has(s, y)
  BY <1>3 DEF Has
<1> QED BY <1>2, <1>3

\* The pointers r are l but for the owners G and the members X, which have zeros.
Cleared(l, r, M, G, X) ==
  /\ r \in Lists(M)
  /\ \A o \in Nodes : r.first[o] = IF o \in G THEN Null ELSE l.first[o]
  /\ \A y \in M : r.prev[y] = IF y \in X THEN Null ELSE l.prev[y]
  /\ \A y \in M : r.next[y] = IF y \in X THEN Null ELSE l.next[y]
Emptied(q, g, M, G) == g \in [Nodes -> Seq(M)] /\ \A o \in Nodes : g[o] = IF o \in G THEN <<>> ELSE q[o]
Owned(q, M, G, X) == \A o \in Nodes : \A y \in M : Has(q[o], y) => (y \in X <=> o \in G)

\* The lists of the owners in G are given up, whose members are X.
LEMMA ClearedHeld ==
  ASSUME NEW M, Listed(M), NEW l, NEW q, Held(l, M, q), NEW G \in SUBSET Nodes, NEW X \in SUBSET M,
         NEW r, Cleared(l, r, M, G, X), NEW g, Emptied(q, g, M, G), Owned(q, M, G, X)
  PROVE  Held(r, M, g)
<1>0. /\ r \in Lists(M)
      /\ \A o \in Nodes : r.first[o] = IF o \in G THEN Null ELSE l.first[o]
      /\ \A y \in M : r.prev[y] = IF y \in X THEN Null ELSE l.prev[y]
      /\ \A y \in M : r.next[y] = IF y \in X THEN Null ELSE l.next[y]
      /\ \A o \in Nodes : \A y \in M : Has(q[o], y) => (y \in X <=> o \in G)
  BY DEF Cleared, Owned
<1>1. q \in [Nodes -> Seq(M)] BY DEF Held
<1>2. g \in [Nodes -> Seq(M)] /\ \A o \in Nodes : g[o] = IF o \in G THEN <<>> ELSE q[o] BY DEF Emptied
<1>3. Len(<<>>) = 0 OBVIOUS
<1>4. ASSUME NEW o \in Nodes PROVE Chain(r, o, g[o])
  <2>1. CASE o \in G BY <2>1, <1>0, <1>2, <1>3 DEF Chain
  <2>2. CASE o \notin G
    <3> DEFINE w == q[o]
    <3>1. g[o] = w /\ w \in Seq(M) /\ Chain(l, o, w) /\ r.first[o] = l.first[o]
      <4>1. Chain(l, o, w) BY DEF Held
      <4> QED BY <4>1, <2>2, <1>0, <1>2, <1>1
    <3>2. \A i \in 1 .. Len(w) : r.next[w[i]] = l.next[w[i]] /\ r.prev[w[i]] = l.prev[w[i]]
      <4> SUFFICES ASSUME NEW i \in 1 .. Len(w) PROVE r.next[w[i]] = l.next[w[i]] /\ r.prev[w[i]] = l.prev[w[i]]
        OBVIOUS
      <4>1. w[i] \in M /\ Has(w, w[i])
        <5> HIDE DEF w
        <5> QED BY <3>1 DEF Has
      <4>2. w[i] \notin X BY <4>1, <2>2, <1>0
      <4> QED BY <4>1, <4>2, <1>0
    <3>4. g[o] = w /\ Chain(l, o, w) /\ r.first[o] = l.first[o] BY <3>1
    <3> HIDE DEF w
    <3>3. Chain(r, o, w)
      <4>1. r.first[o] = IF Len(w) = 0 THEN Null ELSE w[1] BY <3>4 DEF Chain
      <4>2. \A i \in 1 .. Len(w) : r.next[w[i]] = IF i = Len(w) THEN Null ELSE w[i + 1] BY <3>4, <3>2 DEF Chain
      <4>3. \A i \in 1 .. Len(w) : r.prev[w[i]] = IF i = 1 THEN w[Len(w)] ELSE w[i - 1] BY <3>4, <3>2 DEF Chain
      <4> QED BY <4>1, <4>2, <4>3 DEF Chain
    <3> QED BY <3>3, <3>4
  <2> QED BY <2>1, <2>2
<1>5. ASSUME NEW u \in Nodes, NEW v \in Nodes, NEW i \in 1 .. Len(g[u]), NEW j \in 1 .. Len(g[v]), g[u][i] = g[v][j]
      PROVE  u = v /\ i = j
  <2>1. u \notin G /\ v \notin G BY <1>2, <1>3
  <2>2. g[u] = q[u] /\ g[v] = q[v] BY <2>1, <1>2
  <2> QED BY <2>2, <1>5 DEF Held
<1>6. ASSUME NEW y \in M, \A u \in Nodes : ~Has(g[u], y) PROVE r.prev[y] = Null /\ r.next[y] = Null
  <2>1. CASE y \in X BY <2>1, <1>0
  <2>2. CASE y \notin X
    <3>1. \A u \in Nodes : ~Has(q[u], y)
      <4> SUFFICES ASSUME NEW u \in Nodes, Has(q[u], y) PROVE FALSE OBVIOUS
      <4>1. u \notin G BY <2>2, <1>0
      <4> QED BY <4>1, <1>2, <1>6
    <3>2. l.prev[y] = Null /\ l.next[y] = Null BY <3>1 DEF Held
    <3> QED BY <3>2, <2>2, <1>0
  <2> QED BY <2>1, <2>2
<1> QED BY <1>0, <1>2, <1>4, <1>5, <1>6 DEF Held

\* A node that is put under another, which is not under it, leaves a tree.
LEMMA NodeMoved ==
  ASSUME NEW t, NEW K, NEW A, Tree(t, K, A), NEW c \in Nodes, IsNode(t, c), c # Root,
         NEW p \in Nodes, IsNode(t, p), p \notin Down(K, c),
         NEW l, NEW L, Held(l, Nodes, L),
         \A n \in Nodes : \A y \in Nodes : Has(L[n], y) <=> IF y = c THEN n = p ELSE Has(K[n], y),
         \A n \in Down(K, c) : L[n] = K[n],
         NEW r, r = [t EXCEPT !.parent[c] = p, !.kids = l]
  PROVE  Tree(r, L, A)
<1> DEFINE D == Down(K, c)
<1>1. /\ t \in Trees /\ Held(t.attrs, Attributes, A)
      /\ K \in [Nodes -> Seq(Nodes)] /\ L \in [Nodes -> Seq(Nodes)] /\ l \in Lists(Nodes)
  BY DEF Tree, Held
<1>2. r = [kind |-> t.kind, parent |-> [t.parent EXCEPT ![c] = p], kids |-> l, made |-> t.made, attrs |-> t.attrs]
  BY <1>1 DEF Trees
<1>3. r \in Trees
  <2>1. [t.parent EXCEPT ![c] = p] \in [Nodes -> Nodes \union {Null}] BY <1>1 DEF Trees
  <2> QED BY <2>1, <1>1, <1>2 DEF Trees
<1>4. /\ r.kind = t.kind /\ r.kids = l /\ r.made = t.made /\ r.attrs = t.attrs
      /\ \A n \in Nodes : r.parent[n] = IF n = c THEN p ELSE t.parent[n]
  BY <1>1, <1>2 DEF Trees
<1>5. \A n : IsNode(r, n) <=> IsNode(t, n) BY <1>4 DEF IsNode
<1>6. \A n \in Nodes : \A i \in 1 .. Len(L[n]) : L[n][i] \in Nodes /\ Has(L[n], L[n][i]) BY <1>1, HasType
<1>7. \A n \in Nodes : \A i \in 1 .. Len(K[n]) : K[n][i] \in Nodes /\ Has(K[n], K[n][i]) BY <1>1, HasType
<1>8. \A n \in Nodes, y \in Nodes : Has(K[n], y) => t.parent[y] = n /\ IsNode(t, y) /\ y # Root
  BY DEF Tree, Parents, Has
<1>9. \A n \in Nodes : r.kind[n] = "document" <=> n = Root BY <1>4 DEF Tree
<1>10. ASSUME NEW n \in Nodes, ~IsNode(r, n) PROVE Len(L[n]) = 0 /\ Len(A[n]) = 0
  <2>1. Len(K[n]) = 0 /\ Len(A[n]) = 0 /\ n # p BY <1>10, <1>5 DEF Tree
  <2>2. \A y : ~Has(K[n], y) BY <2>1, <1>1, EmptyHasNone
  <2>3. \A y : ~Has(L[n], y)
    <3> SUFFICES ASSUME NEW y, Has(L[n], y) PROVE FALSE OBVIOUS
    <3>1. y \in Nodes BY <1>1, HasType
    <3> QED BY <3>1, <2>1, <2>2
  <2> QED BY <2>1, <2>3, <1>1, EmptyHasNone
<1>11. Parents(r, L)
  <2>1. ASSUME NEW q \in Nodes, NEW i \in 1 .. Len(L[q])
        PROVE  r.parent[L[q][i]] = q /\ IsNode(r, L[q][i]) /\ L[q][i] # Root
    <3> DEFINE y == L[q][i]
    <3>1. y \in Nodes /\ Has(L[q], y) BY <1>6
    <3> HIDE DEF y
    <3>2. CASE y = c BY <3>1, <3>2, <1>4, <1>5 DEF y
    <3>3. CASE y # c BY <3>1, <3>3, <1>8, <1>4, <1>5 DEF y
    <3> QED BY <3>2, <3>3
  <2>2. ASSUME NEW n \in Nodes, IsNode(r, n), n # Root PROVE r.parent[n] \in Nodes /\ Has(L[r.parent[n]], n)
    <3>1. CASE n = c BY <3>1, <1>4
    <3>2. CASE n # c
      <4>1. t.parent[n] \in Nodes /\ Has(K[t.parent[n]], n) BY <2>2, <1>5 DEF Tree, Parents
      <4> QED BY <4>1, <3>2, <1>4
    <3> QED BY <3>1, <3>2
  <2> QED BY <2>1, <2>2 DEF Parents
<1>12. ASSUME NEW S \in SUBSET Nodes, Closed(L, Root, S), NEW n \in Nodes, IsNode(r, n) PROVE n \in S
  <2>1. \A m \in S : \A y : Has(L[m], y) => y \in S BY <1>12 DEF Closed, Has
  <2>2. Closed(K, c, D) /\ D \in SUBSET Nodes BY <1>1, DownIsClosed DEF Down
  <2>3. c \in D /\ \A m \in D : \A y : Has(K[m], y) => y \in D BY <2>2 DEF Closed, Has
  <2> DEFINE T == S \union D
  <2>4. Closed(K, Root, T)
    <3>1. ASSUME NEW m \in T, NEW i \in 1 .. Len(K[m]) PROVE K[m][i] \in T
      <4> DEFINE y == K[m][i]
      <4>1. m \in Nodes BY <2>2
      <4>2. y \in Nodes /\ Has(K[m], y) BY <4>1, <1>7
      <4> HIDE DEF y, D
      <4>3. CASE m \in D BY <4>2, <4>3, <2>3 DEF y
      <4>4. CASE m \notin D /\ y = c BY <4>4, <2>3 DEF y
      <4>5. CASE m \notin D /\ y # c
        <5>1. Has(L[m], y) BY <4>1, <4>2, <4>5
        <5>2. y \in S BY <4>5, <5>1, <2>1
        <5> QED BY <5>2 DEF y
      <4> QED BY <4>3, <4>4, <4>5
    <3>2. T \subseteq Nodes BY <2>2
    <3>3. Root \in T BY <1>12 DEF Closed
    <3> HIDE DEF T
    <3> QED BY <3>1, <3>2, <3>3 DEF Closed
  <2>5. T \in SUBSET Nodes BY <2>2
  <2>6. \A m \in Nodes : IsNode(t, m) => m \in T
    <3> HIDE DEF T
    <3> QED BY <2>4, <2>5 DEF Tree
  <2>7. p \in S
    <3> HIDE DEF D
    <3>1. p \in T BY <2>6
    <3>2. p \notin D BY DEF D
    <3> QED BY <3>1, <3>2
  <2>8. c \in S BY <2>7, <2>1
  <2>9. Closed(L, c, S) BY <2>8, <1>12 DEF Closed
  <2>10. Down(L, c) = D BY <1>1, DownSame
  <2>11. D \subseteq S
    <3>1. Down(L, c) \subseteq S BY <2>9, <1>1, DownIsClosed
    <3> QED BY <3>1, <2>10
  <2> HIDE DEF D
  <2> QED BY <2>6, <2>11, <1>5, <1>12
<1>13. \A a \in Attributes : a \in r.made <=> \E n \in Nodes : Has(A[n], a) BY <1>4 DEF Tree
<1>14. Held(r.kids, Nodes, L) /\ Held(r.attrs, Attributes, A) BY <1>1, <1>4
<1> QED BY <1>3, <1>9, <1>10, <1>11, <1>12, <1>13, <1>14 DEF Tree

\* Attributes that are taken out of their lists and freed leave a tree.
LEMMA AttributesDropped ==
  ASSUME NEW t, NEW K, NEW A, Tree(t, K, A), NEW X \in SUBSET Attributes, NEW r \in Trees, NEW B,
         r.kind = t.kind, r.parent = t.parent, r.kids = t.kids, r.made = t.made \ X, Held(r.attrs, Attributes, B),
         \A n \in Nodes : \A y \in Attributes : Has(B[n], y) <=> Has(A[n], y) /\ y \notin X
  PROVE  Tree(r, K, B)
<1>1. A \in [Nodes -> Seq(Attributes)] /\ B \in [Nodes -> Seq(Attributes)] BY DEF Tree, Held
<1>2. \A n : IsNode(r, n) <=> IsNode(t, n) BY DEF IsNode
<1>3. \A y \in Attributes : y \in r.made <=> \E n \in Nodes : Has(B[n], y)
  <2>1. \A y \in Attributes : y \in t.made <=> \E n \in Nodes : Has(A[n], y) BY DEF Tree
  <2> QED BY <2>1
<1>4. ASSUME NEW n \in Nodes, ~IsNode(r, n) PROVE Len(K[n]) = 0 /\ Len(B[n]) = 0
  <2>1. Len(K[n]) = 0 /\ Len(A[n]) = 0 BY <1>2, <1>4 DEF Tree
  <2>2. \A y : ~Has(A[n], y) BY <2>1, <1>1, EmptyHasNone
  <2>3. \A y : ~Has(B[n], y)
    <3> SUFFICES ASSUME NEW y, Has(B[n], y) PROVE FALSE OBVIOUS
    <3>1. y \in Attributes BY <1>1 DEF Has
    <3> QED BY <3>1, <2>2
  <2> QED BY <2>1, <2>3, <1>1, EmptyHasNone
<1>5. Parents(r, K) BY <1>2 DEF Tree, Parents
<1>6. \A S \in SUBSET Nodes : Closed(K, Root, S) => \A n \in Nodes : IsNode(r, n) => n \in S BY <1>2 DEF Tree
<1>7. \A n \in Nodes : r.kind[n] = "document" <=> n = Root BY DEF Tree
<1>8. Held(r.kids, Nodes, K) BY DEF Tree
<1> QED BY <1>3, <1>4, <1>5, <1>6, <1>7, <1>8 DEF Tree

\* G is what is under the nodes of R.
AllUnder(K, R, G) == \A n : n \in G <=> \E x \in R : n \in Down(K, x)

\* r is t without the nodes of G and their attributes.
Gone(t, r, A, G) ==
  /\ r \in Trees
  /\ r.kind = [n \in Nodes |-> IF n \in G THEN "free" ELSE t.kind[n]]
  /\ \A n \in Nodes : n \notin G => r.parent[n] = t.parent[n]
  /\ \A a \in Attributes : a \in r.made <=> a \in t.made /\ \A n \in G : ~Has(A[n], a)

ChildrenOf(K, p, R) == R \subseteq Nodes /\ \A x \in R : Has(K[p], x)

\* The members of the lists L: the nodes of R and what is in G have gone.
LeftOf(K, L, R, G) ==
  \A n \in Nodes : \A y \in Nodes : Has(L[n], y) <=> n \notin G /\ y \notin R /\ Has(K[n], y)

\* So do nodes that are freed with everything under them.
LEMMA NodesDropped ==
  ASSUME NEW t, NEW K, NEW A, Tree(t, K, A), NEW p \in Nodes, NEW R, ChildrenOf(K, p, R),
         NEW G, AllUnder(K, R, G),
         NEW r, Gone(t, r, A, G), NEW L, NEW B, Held(r.kids, Nodes, L), Held(r.attrs, Attributes, B),
         LeftOf(K, L, R, G), Emptied(A, B, Attributes, G)
  PROVE  Tree(r, L, B)
<1>0. /\ \A n : n \in G <=> \E x \in R : n \in Down(K, x)
      /\ r \in Trees /\ \A n \in Nodes : r.kind[n] = IF n \in G THEN "free" ELSE t.kind[n]
      /\ \A n \in Nodes : n \notin G => r.parent[n] = t.parent[n]
      /\ \A a \in Attributes : a \in r.made <=> a \in t.made /\ \A n \in G : ~Has(A[n], a)
      /\ \A n \in Nodes : \A y \in Nodes : Has(L[n], y) <=> n \notin G /\ y \notin R /\ Has(K[n], y)
      /\ \A n \in Nodes : B[n] = IF n \in G THEN <<>> ELSE A[n]
      /\ R \subseteq Nodes /\ \A x \in R : Has(K[p], x)
  BY DEF AllUnder, Gone, LeftOf, Emptied, ChildrenOf
<1> USE <1>0
<1>1. /\ K \in [Nodes -> Seq(Nodes)] /\ L \in [Nodes -> Seq(Nodes)] /\ A \in [Nodes -> Seq(Attributes)] /\ Parents(t, K)
      /\ B \in [Nodes -> Seq(Attributes)]
  BY DEF Tree, Held
<1>2. \A x \in R : x \in Nodes /\ IsNode(t, x) /\ x # Root /\ t.parent[x] = p
  <2> SUFFICES ASSUME NEW x \in R PROVE IsNode(t, x) /\ x # Root /\ t.parent[x] = p OBVIOUS
  <2>1. PICK i \in 1 .. Len(K[p]) : K[p][i] = x BY DEF Has
  <2> QED BY <2>1, <1>1 DEF Parents
<1>3. p \notin G /\ Root \notin G BY <1>2, NotUnderItself
<1>4. G \subseteq Nodes /\ \A n \in G : IsNode(t, n) BY <1>2, DownExists
<1>5. \A n \in G : n \notin R => t.parent[n] \in G
  <2> SUFFICES ASSUME NEW n \in G, n \notin R PROVE t.parent[n] \in G OBVIOUS
  <2>1. PICK x \in R : n \in Down(K, x) OBVIOUS
  <2>2. t.parent[n] \in Down(K, x) BY <2>1, <1>2, DownExists
  <2> QED BY <2>2
<1>6. \A n \in Nodes : \A y : Has(K[n], y) => y \in Nodes /\ t.parent[y] = n /\ IsNode(t, y) /\ y # Root
  <2> SUFFICES ASSUME NEW n \in Nodes, NEW i \in 1 .. Len(K[n]) 
               PROVE  K[n][i] \in Nodes /\ t.parent[K[n][i]] = n /\ IsNode(t, K[n][i]) /\ K[n][i] # Root
    BY DEF Has
  <2>1. K[n] \in Seq(Nodes) BY <1>1
  <2> QED BY <2>1, <1>1 DEF Parents
<1>7. \A n \in Nodes : n \notin G => \A y : Has(K[n], y) /\ y \in G => n = p /\ y \in R
  <2> SUFFICES ASSUME NEW n \in Nodes, n \notin G, NEW y, Has(K[n], y), y \in G PROVE n = p /\ y \in R
    OBVIOUS
  <2>1. t.parent[y] = n BY <1>6
  <2>2. y \in R BY <2>1, <1>5
  <2> QED BY <2>1, <2>2, <1>2
<1>8. \A n \in G : \A y : Has(K[n], y) => y \in G
  <2> SUFFICES ASSUME NEW n \in G, NEW y, Has(K[n], y) PROVE y \in G OBVIOUS
  <2>1. PICK x \in R : n \in Down(K, x) OBVIOUS
  <2>2. Closed(K, x, Down(K, x)) BY <1>1, DownIsClosed
  <2>3. y \in Down(K, x) BY <2>1, <2>2 DEF Closed, Has
  <2> QED BY <2>3
<1>9. \A n \in Nodes : IsNode(r, n) <=> IsNode(t, n) /\ n \notin G BY DEF IsNode
<1>10. \A n \in Nodes : r.kind[n] = "document" <=> n = Root
  <2>1. \A n \in Nodes : t.kind[n] = "document" <=> n = Root BY DEF Tree
  <2> QED BY <2>1, <1>3
<1>11. ASSUME NEW n \in Nodes, ~IsNode(r, n) PROVE Len(L[n]) = 0 /\ Len(B[n]) = 0
  <2>1. CASE n \in G
    <3>1. \A y : ~Has(L[n], y)
      <4> SUFFICES ASSUME NEW y, Has(L[n], y) PROVE FALSE OBVIOUS
      <4>1. y \in Nodes BY <1>1, HasType
      <4> QED BY <4>1, <2>1
    <3>2. B[n] = <<>> BY <2>1
    <3> QED BY <3>1, <3>2, <1>1, EmptyHasNone
  <2>2. CASE n \notin G
    <3>1. Len(K[n]) = 0 /\ Len(A[n]) = 0 /\ B[n] = A[n] BY <2>2, <1>9, <1>11 DEF Tree
    <3>2. \A y : ~Has(K[n], y) BY <3>1, <1>1, EmptyHasNone
    <3>3. \A y : ~Has(L[n], y)
      <4> SUFFICES ASSUME NEW y, Has(L[n], y) PROVE FALSE OBVIOUS
      <4>1. y \in Nodes BY <1>1, HasType
      <4> QED BY <4>1, <3>2
    <3> QED BY <3>1, <3>3, <1>1, EmptyHasNone
  <2> QED BY <2>1, <2>2
<1>12. Parents(r, L)
  <2>1. ASSUME NEW q \in Nodes, NEW i \in 1 .. Len(L[q])
        PROVE  r.parent[L[q][i]] = q /\ IsNode(r, L[q][i]) /\ L[q][i] # Root
    <3> DEFINE y == L[q][i]
    <3>1. y \in Nodes /\ Has(L[q], y)
      <4>1. L[q] \in Seq(Nodes) BY <1>1
      <4> QED BY <4>1 DEF Has
    <3> HIDE DEF y
    <3>2. q \notin G /\ y \notin R /\ Has(K[q], y) BY <3>1
    <3>3. y \notin G BY <3>2, <1>7
    <3>4. r.parent[y] = q /\ IsNode(r, y) /\ y # Root BY <3>1, <3>2, <3>3, <1>6, <1>9
    <3> QED BY <3>4 DEF y
  <2>2. ASSUME NEW n \in Nodes, IsNode(r, n), n # Root PROVE r.parent[n] \in Nodes /\ Has(L[r.parent[n]], n)
    <3>1. IsNode(t, n) /\ n \notin G BY <2>2, <1>9
    <3> DEFINE m == t.parent[n]
    <3>2. m \in Nodes /\ Has(K[m], n) BY <3>1, <2>2, <1>1 DEF Parents
    <3> HIDE DEF m
    <3>3. m \notin G BY <3>1, <3>2, <1>8
    <3>4. n \notin R
      <4>1. ASSUME n \in R PROVE n \in G
        <5>1. Closed(K, n, Down(K, n)) BY <1>1, DownIsClosed
        <5> QED BY <5>1, <4>1 DEF Closed
      <4> QED BY <4>1, <3>1
    <3>5. r.parent[n] = m BY <3>1 DEF m
    <3> QED BY <3>2, <3>3, <3>4, <3>5
  <2> QED BY <2>1, <2>2 DEF Parents
<1>13. ASSUME NEW S \in SUBSET Nodes, Closed(L, Root, S), NEW n \in Nodes, IsNode(r, n) PROVE n \in S
  <2>1. \A m \in S : \A y : Has(L[m], y) => y \in S BY <1>13 DEF Closed, Has
  <2> DEFINE T == S \union G
  <2>2. Closed(K, Root, T)
    <3>1. ASSUME NEW m \in T, NEW i \in 1 .. Len(K[m]) PROVE K[m][i] \in T
      <4> DEFINE y == K[m][i]
      <4>1. m \in Nodes /\ Has(K[m], y) BY <1>4 DEF Has
      <4>2. y \in Nodes BY <4>1, <1>6
      <4> HIDE DEF y
      <4>3. CASE m \in G BY <4>1, <4>3, <1>8 DEF y
      <4>4. CASE y \in R
        <5>1. y \in G
          <6>1. Closed(K, y, Down(K, y)) BY <4>2, <1>1, DownIsClosed
          <6> QED BY <6>1, <4>4 DEF Closed
        <5> QED BY <5>1 DEF y
      <4>5. CASE m \notin G /\ y \notin R
        <5>1. y \in S BY <4>1, <4>2, <4>5, <2>1
        <5> QED BY <5>1 DEF y
      <4> QED BY <4>3, <4>4, <4>5
    <3>2. T \subseteq Nodes /\ Root \in T BY <1>4, <1>13 DEF Closed
    <3> HIDE DEF T
    <3> QED BY <3>1, <3>2 DEF Closed
  <2>3. T \in SUBSET Nodes BY <1>4
  <2>4. \A m \in Nodes : IsNode(t, m) => m \in T
    <3> HIDE DEF T
    <3> QED BY <2>2, <2>3 DEF Tree
  <2> QED BY <2>4, <1>9, <1>13
<1>14. \A a \in Attributes : a \in r.made <=> \E n \in Nodes : Has(B[n], a)
  <2> SUFFICES ASSUME NEW a \in Attributes PROVE a \in r.made <=> \E n \in Nodes : Has(B[n], a) OBVIOUS
  <2>1. a \in t.made <=> \E n \in Nodes : Has(A[n], a) BY DEF Tree
  <2>2. \A n \in Nodes : Has(B[n], a) <=> n \notin G /\ Has(A[n], a)
    <3>1. ~Has(<<>>, a) BY DEF Has
    <3> QED BY <3>1
  <2>3. \A m, n \in Nodes : Has(A[n], a) /\ Has(A[m], a) => m = n BY DEF Tree, Held, Has
  <2> QED BY <2>1, <2>2, <2>3, <1>4
<1>15. Tree(r, L, B) BY <1>10, <1>11, <1>12, <1>13, <1>14 DEF Tree
<1> QED BY <1>15

-----------------------------------------------------------------------------
(* The order that lists keep.                                              *)

Distinct(s) == \A i, j \in 1 .. Len(s) : s[i] = s[j] => i = j

\* Every two members of r that are not apart are in s in the same order.
InOrderOf(r, s, apart) ==
  \A i, j \in 1 .. Len(r) :
    i < j /\ r[i] \notin apart /\ r[j] \notin apart => \E k, m \in 1 .. Len(s) : k < m /\ s[k] = r[i] /\ s[m] = r[j]

\* OrderedTree's SameBut, by its parts.
LEMMA SameButIs ==
  ASSUME NEW M, NEW r \in Seq(M), NEW s \in Seq(M), NEW apart,
         Distinct(r), InOrderOf(r, s, apart), \A y : y \notin apart => (Has(r, y) <=> Has(s, y))
  PROVE  Ordered!SameBut(r, s, apart)
<1>1. DOMAIN r = 1 .. Len(r) /\ DOMAIN s = 1 .. Len(s) OBVIOUS
<1>2. IsInjective(r) BY <1>1 DEF IsInjective, Distinct
<1>3. ToSet(r) \ apart = ToSet(s) \ apart BY MembersOf
<1>4. Ordered!IsInjective(r) /\ Ordered!ToSet(r) \ apart = Ordered!ToSet(s) \ apart
  BY <1>2, <1>3 DEF Ordered!IsInjective, IsInjective, Ordered!ToSet, ToSet
<1> QED BY <1>1, <1>4 DEF Ordered!SameBut, InOrderOf

\* A list that does not change is the same but for nothing.
LEMMA SelfSame ==
  ASSUME NEW M, NEW s \in Seq(M), Distinct(s), NEW apart
  PROVE  Ordered!SameBut(s, s, apart)
<1>1. InOrderOf(s, s, apart) BY DEF InOrderOf
<1> QED BY <1>1, SameButIs

\* An insertion keeps the order of the others.
LEMMA InsOrder ==
  ASSUME NEW M, NEW s \in Seq(M), NEW p \in 1 .. Len(s) + 1, NEW x \in M
  PROVE  InOrderOf(Ins(s, p, x), s, {x})
<1> DEFINE z == Ins(s, p, x)
           n == Len(s)
<1>1. n \in Nat /\ p \in 1 .. n + 1 /\ Len(z) = n + 1
      /\ \A i \in 1 .. n + 1 : z[i] = IF i < p THEN s[i] ELSE IF i = p THEN x ELSE s[i - 1]
  BY InsType
<1> HIDE DEF z
<1> SUFFICES ASSUME NEW i \in 1 .. n + 1, NEW j \in 1 .. n + 1, i < j, z[i] # x, z[j] # x
             PROVE  \E k, m \in 1 .. n : k < m /\ s[k] = z[i] /\ s[m] = z[j]
  BY <1>1 DEF InOrderOf, z
<1> HIDE DEF n
<1> DEFINE k == IF i < p THEN i ELSE i - 1
           m == IF j < p THEN j ELSE j - 1
<1>2. i # p /\ j # p BY <1>1
<1>3. z[i] = s[k] /\ z[j] = s[m] BY <1>1, <1>2
<1>4. k \in 1 .. n /\ m \in 1 .. n /\ k < m BY <1>1, <1>2
<1> HIDE DEF k, m
<1> QED BY <1>3, <1>4

\* A deletion does.
LEMMA DelOrder ==
  ASSUME NEW M, NEW s \in Seq(M), NEW p \in 1 .. Len(s), NEW apart
  PROVE  InOrderOf(Del(s, p), s, apart)
<1> DEFINE z == Del(s, p)
           n == Len(s)
<1>1. n \in Nat /\ p \in 1 .. n /\ Len(z) = n - 1
      /\ \A i \in 1 .. n - 1 : z[i] = IF i < p THEN s[i] ELSE s[i + 1]
  BY DelType
<1> HIDE DEF z, n
<1>2. ASSUME NEW i \in 1 .. n - 1, NEW j \in 1 .. n - 1, i < j
      PROVE  \E k, m \in 1 .. n : k < m /\ s[k] = z[i] /\ s[m] = z[j]
  <2> DEFINE k == IF i < p THEN i ELSE i + 1
             m == IF j < p THEN j ELSE j + 1
  <2>1. z[i] = s[k] /\ z[j] = s[m] BY <1>1
  <2>2. k \in 1 .. n /\ m \in 1 .. n /\ k < m BY <1>1, <1>2
  <2> HIDE DEF k, m
  <2> QED BY <2>1, <2>2
<1>3. \A i, j \in 1 .. Len(z) : i < j => \E k, m \in 1 .. Len(s) : k < m /\ s[k] = z[i] /\ s[m] = z[j]
  <2> DEFINE Within(a, b) == \A i, j \in 1 .. a : i < j => \E k, m \in 1 .. b : k < m /\ s[k] = z[i] /\ s[m] = z[j]
  <2>1. Within(n - 1, n) BY <1>2
  <2> HIDE DEF Within
  <2>2. Len(z) = n - 1 /\ Len(s) = n BY <1>1 DEF n
  <2>3. Within(Len(z), Len(s)) BY ONLY <2>1, <2>2
  <2> QED BY <2>3 DEF Within
<1> QED BY <1>3 DEF InOrderOf, z

\* What is in the order of the order is in the order.
LEMMA OrderOfOrder ==
  ASSUME NEW r, NEW s, NEW u, NEW apart, InOrderOf(r, s, apart), InOrderOf(s, u, apart)
  PROVE  InOrderOf(r, u, apart)
<1> SUFFICES ASSUME NEW i \in 1 .. Len(r), NEW j \in 1 .. Len(r), i < j, r[i] \notin apart, r[j] \notin apart
             PROVE  \E k, m \in 1 .. Len(u) : k < m /\ u[k] = r[i] /\ u[m] = r[j]
  BY DEF InOrderOf
<1>1. PICK k, m \in 1 .. Len(s) : k < m /\ s[k] = r[i] /\ s[m] = r[j] BY DEF InOrderOf
<1> DEFINE x == r[i]
           y == r[j]
<1>2. x \notin apart /\ y \notin apart /\ s[k] = x /\ s[m] = y BY <1>1
<1>3. s[k] \notin apart /\ s[m] \notin apart /\ k < m BY <1>1, <1>2
<1>4. \E a, b \in 1 .. Len(u) : a < b /\ u[a] = s[k] /\ u[b] = s[m]
  <2>1. \A c, d \in 1 .. Len(s) :
          c < d /\ s[c] \notin apart /\ s[d] \notin apart
          => \E a, b \in 1 .. Len(u) : a < b /\ u[a] = s[c] /\ u[b] = s[d]
    BY DEF InOrderOf
  <2> QED BY ONLY <2>1, <1>1, <1>3, Zenon
<1> HIDE DEF x, y
<1>5. \E a, b \in 1 .. Len(u) : a < b /\ u[a] = x /\ u[b] = y BY ONLY <1>2, <1>4, Zenon
<1> QED BY <1>5 DEF x, y

\* A list with a new member is the same but for it.
LEMMA InsertedSame ==
  ASSUME NEW M, NEW s \in Seq(M), NEW p \in 1 .. Len(s) + 1, NEW x \in M, Distinct(Ins(s, p, x))
  PROVE  Ordered!SameBut(Ins(s, p, x), s, {x}) /\ x \in ToSet(Ins(s, p, x))
<1> DEFINE z == Ins(s, p, x)
<1>1. z \in Seq(M) BY InsType
<1>2. \A y : Has(z, y) <=> y = x \/ Has(s, y) BY InsHas
<1>3. InOrderOf(z, s, {x}) BY InsOrder
<1>4. Distinct(z) OBVIOUS
<1> HIDE DEF z
<1>5. Ordered!SameBut(z, s, {x}) BY <1>1, <1>2, <1>3, <1>4, SameButIs
<1>6. x \in ToSet(z) BY <1>1, <1>2, MembersOf
<1> QED BY <1>5, <1>6 DEF z

\* A list without a member is the same but for it.
LEMMA DeletedSame ==
  ASSUME NEW M, NEW s \in Seq(M), NEW p \in 1 .. Len(s), Distinct(s), Distinct(Del(s, p))
  PROVE  /\ Ordered!SameBut(Del(s, p), s, {s[p]})
         /\ ToSet(Del(s, p)) = ToSet(s) \ {s[p]}
<1> DEFINE z == Del(s, p)
           x == s[p]
<1>1. z \in Seq(M) BY DelType
<1>2. \A y : Has(z, y) <=> y # x /\ Has(s, y) BY DelHas DEF Distinct
<1>3. InOrderOf(z, s, {x}) BY DelOrder
<1>4. Distinct(z) OBVIOUS
<1> HIDE DEF z, x
<1>5. Ordered!SameBut(z, s, {x}) BY <1>1, <1>2, <1>3, <1>4, SameButIs
<1>6. ToSet(z) = ToSet(s) \ {x} BY <1>1, <1>2, MembersOf
<1> QED BY <1>5, <1>6 DEF z, x

\* A member that is put at another place of the same list.
LEMMA PutElsewhereSame ==
  ASSUME NEW M, NEW s \in Seq(M), NEW i \in 1 .. Len(s), Distinct(s),
         NEW p \in 1 .. Len(Del(s, i)) + 1, Distinct(Ins(Del(s, i), p, s[i]))
  PROVE  Ordered!SameBut(Ins(Del(s, i), p, s[i]), s, {s[i]}) /\ s[i] \in ToSet(Ins(Del(s, i), p, s[i]))
<1> DEFINE z == Del(s, i)
           x == s[i]
           w == Ins(z, p, x)
<1>1. z \in Seq(M) /\ x \in M BY DelType
<1>2. \A y : Has(z, y) <=> y # x /\ Has(s, y) BY DelHas DEF Distinct
<1>3. InOrderOf(z, s, {x}) BY DelOrder
<1>4. p \in 1 .. Len(z) + 1 /\ Distinct(w) OBVIOUS
<1> HIDE DEF z, x
<1>5. w \in Seq(M) /\ (\A y : Has(w, y) <=> y = x \/ Has(z, y)) /\ InOrderOf(w, z, {x})
  BY <1>1, <1>4, InsType, InsHas, InsOrder
<1> HIDE DEF w
<1>6. InOrderOf(w, s, {x}) BY <1>3, <1>5, OrderOfOrder
<1>7. Ordered!SameBut(w, s, {x}) BY <1>2, <1>4, <1>5, <1>6, SameButIs
<1>8. x \in ToSet(w) BY <1>5, MembersOf
<1> QED BY <1>7, <1>8 DEF w, x, z

\* A list of which nothing is left is the same but for all of it.
LEMMA EmptiedSame ==
  ASSUME NEW M, NEW s \in Seq(M)
  PROVE  Ordered!SameBut(<<>>, s, ToSet(s)) /\ ToSet(<<>>) = {}
<1>1. <<>> \in Seq(M) /\ Len(<<>>) = 0 OBVIOUS
<1>2. Distinct(<<>>) /\ InOrderOf(<<>>, s, ToSet(s)) BY <1>1 DEF Distinct, InOrderOf
<1>3. \A y : ~Has(<<>>, y) BY <1>1 DEF Has
<1>4. \A y : y \in ToSet(s) <=> Has(s, y) BY MembersOf
<1>5. Ordered!SameBut(<<>>, s, ToSet(s))
  <2> DEFINE apart == ToSet(s)
  <2>1. \A y : y \notin apart => (Has(<<>>, y) <=> Has(s, y)) BY <1>3, <1>4
  <2> HIDE DEF apart
  <2>2. InOrderOf(<<>>, s, apart) BY <1>2 DEF apart
  <2>3. Ordered!SameBut(<<>>, s, apart) BY <1>1, <1>2, <2>1, <2>2, SameButIs
  <2> QED BY <2>3 DEF apart
<1>6. ToSet(<<>>) = {} BY <1>1, <1>3, MembersOf
<1> QED BY <1>5, <1>6

\* No list of a tree repeats a member.
LEMMA DistinctLists ==
  ASSUME NEW M, NEW l, NEW q, Held(l, M, q), NEW o \in Nodes
  PROVE  Distinct(q[o]) /\ q[o] \in Seq(M)
BY DEF Held, Distinct

-----------------------------------------------------------------------------
(* What the operations do to the tree.                                     *)

KidsIn(t) == [n \in Nodes |-> ListOf(t.kids, n)]
AttrsIn(t) == [n \in Nodes |-> ListOf(t.attrs, n)]
TreeInv == Tree(links, KidsIn(links), AttrsIn(links))

\* The lists of a tree are those that its pointers lead through.
LEMMA TreeHolds ==
  ASSUME NEW t, NEW K, NEW A, Tree(t, K, A)
  PROVE  K = KidsIn(t) /\ A = AttrsIn(t)
<1>1. /\ Held(t.kids, Nodes, K) /\ Held(t.attrs, Attributes, A) /\ K \in [Nodes -> Seq(Nodes)]
      /\ A \in [Nodes -> Seq(Attributes)]
  BY DEF Tree, Held
<1>2. \A n \in Nodes : ListOf(t.kids, n) = K[n] BY <1>1, WhatIsListed, ListIs
<1>3. \A n \in Nodes : ListOf(t.attrs, n) = A[n] BY <1>1, WhatIsListed, ListIs
<1>4. KidsIn(t) = [n \in Nodes |-> K[n]] BY <1>2 DEF KidsIn
<1>5. AttrsIn(t) = [n \in Nodes |-> A[n]] BY <1>3 DEF AttrsIn
<1> QED BY <1>1, <1>4, <1>5

\* The members that the operations see are those of the sequences.
LEMMA MembersAre ==
  ASSUME NEW M, Listed(M), NEW l, NEW q, Held(l, M, q), NEW o \in Nodes
  PROVE  Members(l, o) = ToSet(q[o]) /\ \A y : y \in Members(l, o) <=> Has(q[o], y)
<1>1. Members(l, o) = ToSet(q[o]) BY ListIs DEF Members
<1>2. q[o] \in Seq(M) BY DEF Held
<1> QED BY <1>1, <1>2, MembersOf

\* The places where the operations link are places of the sequence.
LEMMA PlaceIs ==
  ASSUME NEW M, Listed(M), NEW l, NEW q, Held(l, M, q), NEW o \in Nodes, NEW place \in Places(l, o)
  PROVE  Place(q[o], place)
<1>1. place \in {<<"last">>, <<"first">>} \union ({"after", "before"} \X Members(l, o)) BY DEF Places
<1>2. CASE place \in {<<"last">>, <<"first">>} BY <1>2 DEF Place
<1>3. CASE place \in {"after", "before"} \X Members(l, o)
  <2>1. PICK w \in {"after", "before"}, y \in Members(l, o) : place = <<w, y>> BY <1>3
  <2>2. PICK k \in 1 .. Len(q[o]) : q[o][k] = y BY <2>1, MembersAre DEF Has
  <2>3. place = <<"after", q[o][k]>> \/ place = <<"before", q[o][k]>> BY <2>1, <2>2
  <2> QED BY <2>3 DEF Place
<1> QED BY <1>1, <1>2, <1>3

\* The least of some nodes or attributes is one of them.
LEMMA LeastIs ==
  ASSUME NEW n \in Nat, NEW S \in SUBSET (1 .. n), S # {}
  PROVE  Least(S) \in S
<1>1. \E x \in S : \A y \in S : x <= y BY LeastElement
<1> QED BY <1>1 DEF Least

\* What is spare is free, and in no list.
LEMMA SpareIs ==
  ASSUME NEW t, t \in Trees
  PROVE  /\ SpareNodes(t) # {} => Least(SpareNodes(t)) \in Nodes /\ ~IsNode(t, Least(SpareNodes(t)))
         /\ SpareAttributes(t) # {} =>
              Least(SpareAttributes(t)) \in Attributes /\ Least(SpareAttributes(t)) \notin t.made
<1>1. MaxNodes \in Nat /\ MaxAttributes \in Nat BY TreeAssumption
<1>2. SpareNodes(t) \in SUBSET (1 .. MaxNodes) BY DEF SpareNodes, Nodes
<1>3. SpareAttributes(t) \in SUBSET (1 .. MaxAttributes) BY DEF SpareAttributes, Attributes
<1>4. SpareNodes(t) # {} => Least(SpareNodes(t)) \in SpareNodes(t) BY <1>1, <1>2, LeastIs
<1>5. SpareAttributes(t) # {} => Least(SpareAttributes(t)) \in SpareAttributes(t) BY <1>1, <1>3, LeastIs
<1> QED BY <1>4, <1>5 DEF SpareNodes, SpareAttributes

\* A new node is at the place where it should go, and nothing else changes.
Grown(t, r, K, k, p, c, place) ==
  /\ r.kind = [t.kind EXCEPT ![c] = k] /\ r.made = t.made /\ r.attrs = t.attrs
  /\ r.parent = [t.parent EXCEPT ![c] = p]
  /\ place \in 1 .. Len(K[p]) + 1

\* Allocating and linking a node adds it to the tree.
LEMMA WithNodeIs ==
  ASSUME NEW t, NEW K, NEW A, Tree(t, K, A), SpareNodes(t) # {}, NEW k \in NewKinds, NEW p \in Nodes, IsNode(t, p),
         NEW place, Place(K[p], place)
  PROVE  LET c == Least(SpareNodes(t))
             r == WithNode(t, k, p, place)
         IN  /\ c \in Nodes /\ ~IsNode(t, c)
             /\ \E i : Grown(t, r, K, k, p, c, i) /\ Tree(r, [K EXCEPT ![p] = Ins(K[p], i, c)], A)
                       /\ (place = <<"last">> => i = Len(K[p]) + 1)
<1> DEFINE c == Least(SpareNodes(t))
           r == WithNode(t, k, p, place)
           l == Link(t.kids, c, p, place)
<1>1. t \in Trees /\ Held(t.kids, Nodes, K) BY DEF Tree
<1>2. c \in Nodes /\ ~IsNode(t, c) BY <1>1, SpareIs
<1>3. Unlisted(K, c) BY <1>2, FreeUnlisted
<1>4. r = [t EXCEPT !.kind[c] = k, !.parent[c] = p, !.kids = l] BY Zenon DEF WithNode
<1> HIDE DEF r, c, l
<1>5. r.kind = [t.kind EXCEPT ![c] = k] /\ r.parent = [t.parent EXCEPT ![c] = p] /\ r.made = t.made /\ r.attrs = t.attrs
  BY <1>1, <1>4 DEF Trees
<1>6. \E i \in 1 .. Len(K[p]) + 1 : Inserted(t.kids, l, Nodes, K[p], p, i, c) /\ (place = <<"last">> => i = Len(K[p]) + 1)
  <2>1. CASE place = <<"last">>
    <3>1. l = LinkLast(t.kids, c, p) BY <2>1 DEF l, Link
    <3>2. Inserted(t.kids, l, Nodes, K[p], p, Len(K[p]) + 1, c) BY <3>1, <1>1, <1>2, <1>3, WhatIsListed, LinkLastIs
    <3>3. K[p] \in Seq(Nodes) BY <1>1 DEF Held
    <3>4. Len(K[p]) + 1 \in 1 .. Len(K[p]) + 1
      <4>1. Len(K[p]) \in Nat BY <3>3
      <4> QED BY <4>1
    <3> QED BY <3>2, <3>4
  <2>2. CASE place # <<"last">>
    <3>1. \E i \in 1 .. Len(K[p]) + 1 : Inserted(t.kids, l, Nodes, K[p], p, i, c)
      BY <1>1, <1>2, <1>3, WhatIsListed, LinkIs DEF l
    <3> QED BY <3>1, <2>2
  <2> QED BY <2>1, <2>2
<1>7. PICK i \in 1 .. Len(K[p]) + 1 : Inserted(t.kids, l, Nodes, K[p], p, i, c) /\ (place = <<"last">> => i = Len(K[p]) + 1)
  BY <1>6
<1>8. Tree(r, [K EXCEPT ![p] = Ins(K[p], i, c)], A) BY <1>2, <1>4, <1>7, NodeAdded
<1>9. Grown(t, r, K, k, p, c, i) BY <1>5, <1>7 DEF Grown
<1> QED BY <1>2, <1>7, <1>8, <1>9 DEF r, c

GrownAttribute(t, r, A, p, a, place) ==
  /\ r.kind = t.kind /\ r.parent = t.parent /\ r.kids = t.kids /\ r.made = t.made \union {a}
  /\ place \in 1 .. Len(A[p]) + 1

\* Allocating and linking an attribute adds it to the tree.
LEMMA WithAttributeIs ==
  ASSUME NEW t, NEW K, NEW A, Tree(t, K, A), SpareAttributes(t) # {}, NEW p \in Nodes, IsNode(t, p),
         NEW place, Place(A[p], place)
  PROVE  LET a == Least(SpareAttributes(t))
             r == WithAttribute(t, p, place)
         IN  /\ a \in Attributes /\ a \notin t.made
             /\ \E i : GrownAttribute(t, r, A, p, a, i) /\ Tree(r, K, [A EXCEPT ![p] = Ins(A[p], i, a)])
                       /\ (place = <<"last">> => i = Len(A[p]) + 1)
<1> DEFINE a == Least(SpareAttributes(t))
           r == WithAttribute(t, p, place)
           l == Link(t.attrs, a, p, place)
<1>1. t \in Trees /\ Held(t.attrs, Attributes, A) BY DEF Tree
<1>2. a \in Attributes /\ a \notin t.made BY <1>1, SpareIs
<1>3. Unlisted(A, a) BY <1>2, FreeUnlisted
<1>4. r = [t EXCEPT !.made = @ \union {a}, !.attrs = l] BY Zenon DEF WithAttribute
<1> HIDE DEF r, a, l
<1>5. r.kind = t.kind /\ r.parent = t.parent /\ r.kids = t.kids /\ r.made = t.made \union {a}
  BY <1>1, <1>4 DEF Trees
<1>6. \E i \in 1 .. Len(A[p]) + 1 : Inserted(t.attrs, l, Attributes, A[p], p, i, a) /\ (place = <<"last">> => i = Len(A[p]) + 1)
  <2>1. CASE place = <<"last">>
    <3>1. l = LinkLast(t.attrs, a, p) BY <2>1 DEF l, Link
    <3>2. Inserted(t.attrs, l, Attributes, A[p], p, Len(A[p]) + 1, a) BY <3>1, <1>1, <1>2, <1>3, WhatIsListed, LinkLastIs
    <3>3. A[p] \in Seq(Attributes) BY <1>1 DEF Held
    <3>4. Len(A[p]) + 1 \in 1 .. Len(A[p]) + 1
      <4>1. Len(A[p]) \in Nat BY <3>3
      <4> QED BY <4>1
    <3> QED BY <3>2, <3>4
  <2>2. CASE place # <<"last">>
    <3>1. \E i \in 1 .. Len(A[p]) + 1 : Inserted(t.attrs, l, Attributes, A[p], p, i, a)
      BY <1>1, <1>2, <1>3, WhatIsListed, LinkIs DEF l
    <3> QED BY <3>1, <2>2
  <2> QED BY <2>1, <2>2
<1>7. PICK i \in 1 .. Len(A[p]) + 1 : Inserted(t.attrs, l, Attributes, A[p], p, i, a) /\ (place = <<"last">> => i = Len(A[p]) + 1)
  BY <1>6
<1>8. Tree(r, K, [A EXCEPT ![p] = Ins(A[p], i, a)]) BY <1>2, <1>4, <1>7, AttributeAdded
<1>9. GrownAttribute(t, r, A, p, a, i) BY <1>5, <1>7 DEF GrownAttribute
<1> QED BY <1>2, <1>7, <1>8, <1>9 DEF r, a

\* OrderedTree's Under is what is under the node.
LEMMA UnderIs ==
  ASSUME NEW K \in [Nodes -> Seq(Nodes)], NEW n \in Nodes
  PROVE  Ordered!Under(K, n) = Down(K, n)
<1> DEFINE closed == {S \in SUBSET Nodes : n \in S /\ \A m \in S : Ordered!ToSet(K[m]) \subseteq S}
<1>1. Ordered!Under(K, n) = {m \in Nodes : \A S \in closed : m \in S} BY DEF Ordered!Under
<1>2. ASSUME NEW S \in SUBSET Nodes PROVE S \in closed <=> Closed(K, n, S)
  <2>1. ASSUME NEW m \in S PROVE Ordered!ToSet(K[m]) \subseteq S <=> \A i \in 1 .. Len(K[m]) : K[m][i] \in S
    <3>1. K[m] \in Seq(Nodes) OBVIOUS
    <3>2. DOMAIN K[m] = 1 .. Len(K[m]) BY <3>1
    <3> QED BY <3>2 DEF Ordered!ToSet
  <2> QED BY <2>1 DEF Closed
<1>3. closed \subseteq SUBSET Nodes OBVIOUS
<1> HIDE DEF closed
<1> QED BY <1>1, <1>2, <1>3 DEF Down

\* Members are the same on both sides of the refinement.
LEMMA SameMembers == ASSUME NEW s PROVE Ordered!ToSet(s) = ToSet(s)
BY DEF Ordered!ToSet, ToSet

\* The types of what makes a tree.
LEMMA TreeTyped ==
  ASSUME NEW t, NEW K, NEW A, Tree(t, K, A)
  PROVE  /\ t \in Trees /\ Held(t.kids, Nodes, K) /\ Held(t.attrs, Attributes, A)
         /\ K \in [Nodes -> Seq(Nodes)] /\ A \in [Nodes -> Seq(Attributes)]
         /\ \A n \in Nodes : Distinct(K[n]) /\ Distinct(A[n])
BY DEF Tree, Held, Distinct

\* append_child, prepend_child and the insertions of a child add a node.
LEMMA AddsNode ==
  ASSUME TreeInv, NEW n \in Nodes, IsNode(links, n), AddChild(n)
  PROVE  TreeInv' /\ Ordered!AddNode
<1> DEFINE K == KidsIn(links)
           A == AttrsIn(links)
<1>1. Tree(links, K, A) BY DEF TreeInv
<1>2. PICK k \in NewKinds, place \in Places(links.kids, n) : SpareNodes(links) # {} /\ links' = WithNode(links, k, n, place)
  BY DEF AddChild
<1> DEFINE c == Least(SpareNodes(links))
<1>3. Place(K[n], place) BY <1>1, WhatIsListed, TreeTyped, PlaceIs
<1> HIDE DEF K, A
<1>4. c \in Nodes /\ ~IsNode(links, c) BY <1>1, <1>2, <1>3, WithNodeIs
<1>5. PICK i : Grown(links, links', K, k, n, c, i) /\ Tree(links', [K EXCEPT ![n] = Ins(K[n], i, c)], A)
  BY <1>1, <1>2, <1>3, WithNodeIs
<1> HIDE DEF c
<1> DEFINE L == [K EXCEPT ![n] = Ins(K[n], i, c)]
<1>6. K \in [Nodes -> Seq(Nodes)] BY <1>1, TreeTyped
<1>7. L[n] = Ins(K[n], i, c) /\ \A m \in Nodes : m # n => L[m] = K[m] BY <1>6
<1>8. Tree(links', L, A) BY <1>5
<1> HIDE DEF L
<1>9. L = KidsIn(links') /\ A = AttrsIn(links') BY <1>8, TreeHolds
<1>10. TreeInv' BY <1>8, <1>9 DEF TreeInv
<1>11. Ordered!SameBut(L[n], K[n], {c}) /\ c \in Ordered!ToSet(L[n])
  <2>1. K[n] \in Seq(Nodes) /\ i \in 1 .. Len(K[n]) + 1 BY <1>5, <1>6 DEF Grown
  <2>2. Distinct(L[n]) BY <1>8, TreeTyped
  <2> QED BY <2>1, <2>2, <1>4, <1>7, InsertedSame, SameMembers
<1>12. Ordered!AddNode
  <2>1. links'.kind = [links.kind EXCEPT ![c] = k] BY <1>5 DEF Grown
  <2>2. k \in {"element", "pcdata", "declaration"} BY DEF NewKinds
  <2>3. [m \in Nodes |-> ListOf(links.kids, m)] = K /\ [m \in Nodes |-> ListOf(links'.kids, m)] = L
        /\ [m \in Nodes |-> ListOf(links.attrs, m)] = A /\ [m \in Nodes |-> ListOf(links'.attrs, m)] = A
    BY <1>9 DEF K, A, KidsIn, AttrsIn
  <2>4. links.kind[c] = "free" /\ links.kind[n] # "free" BY <1>4 DEF IsNode
  <2> QED BY <2>1, <2>2, <2>3, <2>4, <1>4, <1>7, <1>11 DEF Ordered!AddNode, Ordered!Exists
<1> QED BY <1>10, <1>12

\* Those of an attribute add an attribute.
LEMMA AddsAttribute ==
  ASSUME TreeInv, NEW n \in Nodes, IsNode(links, n), AddAttribute(n)
  PROVE  TreeInv' /\ Ordered!AddAttribute
<1> DEFINE K == KidsIn(links)
           A == AttrsIn(links)
<1>1. Tree(links, K, A) BY DEF TreeInv
<1>2. PICK place \in Places(links.attrs, n) : SpareAttributes(links) # {} /\ links' = WithAttribute(links, n, place)
  BY DEF AddAttribute
<1> DEFINE a == Least(SpareAttributes(links))
<1>3. Place(A[n], place) BY <1>1, WhatIsListed, TreeTyped, PlaceIs
<1> HIDE DEF K, A
<1>4. a \in Attributes /\ a \notin links.made BY <1>1, <1>2, <1>3, WithAttributeIs
<1>5. PICK i : GrownAttribute(links, links', A, n, a, i) /\ Tree(links', K, [A EXCEPT ![n] = Ins(A[n], i, a)])
  BY <1>1, <1>2, <1>3, WithAttributeIs
<1> HIDE DEF a
<1> DEFINE B == [A EXCEPT ![n] = Ins(A[n], i, a)]
<1>6. A \in [Nodes -> Seq(Attributes)] BY <1>1, TreeTyped
<1>7. B[n] = Ins(A[n], i, a) /\ \A m \in Nodes : m # n => B[m] = A[m] BY <1>6
<1>8. Tree(links', K, B) BY <1>5
<1> HIDE DEF B
<1>9. K = KidsIn(links') /\ B = AttrsIn(links') BY <1>8, TreeHolds
<1>10. TreeInv' BY <1>8, <1>9 DEF TreeInv
<1>11. Ordered!SameBut(B[n], A[n], {a}) /\ a \in Ordered!ToSet(B[n])
  <2>1. A[n] \in Seq(Attributes) /\ i \in 1 .. Len(A[n]) + 1 BY <1>5, <1>6 DEF GrownAttribute
  <2>2. Distinct(B[n]) BY <1>8, TreeTyped
  <2> QED BY <2>1, <2>2, <1>4, <1>7, InsertedSame, SameMembers
<1>12. a \notin UNION {Ordered!ToSet(A[m]) : m \in Nodes}
  <2> SUFFICES ASSUME NEW m \in Nodes, a \in Ordered!ToSet(A[m]) PROVE FALSE OBVIOUS
  <2>1. Has(A[m], a)
    <3>1. A[m] \in Seq(Attributes) BY <1>6
    <3> QED BY <3>1, SameMembers, MembersOf
  <2> QED BY <2>1, <1>1, <1>4 DEF Tree
<1>13. Ordered!AddAttribute
  <2>1. links'.kind = links.kind BY <1>5 DEF GrownAttribute
  <2>2. [m \in Nodes |-> ListOf(links.kids, m)] = K /\ [m \in Nodes |-> ListOf(links'.kids, m)] = K
        /\ [m \in Nodes |-> ListOf(links.attrs, m)] = A /\ [m \in Nodes |-> ListOf(links'.attrs, m)] = B
    BY <1>9 DEF K, A, KidsIn, AttrsIn
  <2>3. links.kind[n] # "free" BY DEF IsNode
  <2> QED BY <2>1, <2>2, <2>3, <1>4, <1>7, <1>11, <1>12 DEF Ordered!AddAttribute, Ordered!Exists
<1> QED BY <1>10, <1>13

\* The neighbour of the place is still in the list when the moved node is out of it.
LEMMA PlaceStays ==
  ASSUME NEW s, NEW r, NEW x, NEW place, Place(s, place), place[1] \in {"after", "before"} => place[2] # x,
         \A y : Has(s, y) /\ y # x => Has(r, y)
  PROVE  Place(r, place)
<1>1. CASE place = <<"last">> \/ place = <<"first">> BY <1>1 DEF Place
<1>2. ASSUME NEW k \in 1 .. Len(s), place = <<"after", s[k]>> \/ place = <<"before", s[k]>> PROVE Place(r, place)
  <2>1. place[1] \in {"after", "before"} /\ place[2] = s[k] BY <1>2
  <2>2. Has(r, s[k]) BY <2>1 DEF Has
  <2>3. PICK m \in 1 .. Len(r) : r[m] = s[k] BY <2>2 DEF Has
  <2>4. place = <<"after", r[m]>> \/ place = <<"before", r[m]>> BY <1>2, <2>3
  <2> QED BY <2>4 DEF Place
<1> QED BY <1>1, <1>2 DEF Place

\* append_move and the like move the node, and everything under it goes with it.
LEMMA MovesNode ==
  ASSUME TreeInv, NEW n \in Nodes, IsNode(links, n), MoveChild(n)
  PROVE  TreeInv' /\ Ordered!MoveNode
<1> DEFINE K == KidsIn(links)
           A == AttrsIn(links)
<1>1. Tree(links, K, A) BY DEF TreeInv
<1>2. PICK c \in Nodes, place \in Places(links.kids, n) :
        /\ IsNode(links, c) /\ allow_move(n, c)
        /\ place[1] \in {"after", "before"} => place[2] # c
        /\ links' = [links EXCEPT !.parent[c] = n, !.kids = Link(Unlink(links.kids, c, links.parent[c]), c, n, place)]
  BY DEF MoveChild
<1>3. Place(K[n], place) BY <1>1, WhatIsListed, TreeTyped, PlaceIs
<1> HIDE DEF K, A
<1>4. c # Root /\ n \notin Down(K, c)
  <2>1. links.kind[c] # "document" BY <1>2 DEF allow_move, allow_insert_child
  <2>2. Subtree(links, c) = Down(K, c) BY <1>1, TreeTyped, SubtreeIs
  <2> QED BY <2>1, <2>2, <1>1, <1>2 DEF Tree, allow_move
<1> DEFINE p == links.parent[c]
           D == Down(K, c)
<1>5. p \in Nodes /\ p \notin D /\ Has(K[p], c)
  BY <1>1, <1>2, <1>4, NotUnderItself DEF Tree, Parents
<1> HIDE DEF p, D
<1>6. PICK i \in 1 .. Len(K[p]) : K[p][i] = c BY <1>5 DEF Has
<1>7. K \in [Nodes -> Seq(Nodes)] /\ Held(links.kids, Nodes, K) /\ links \in Trees /\ \A m \in Nodes : Distinct(K[m])
  BY <1>1, TreeTyped
<1> DEFINE out == Unlink(links.kids, c, p)
           N == [K EXCEPT ![p] = Del(K[p], i)]
<1>8. Held(out, Nodes, N)
  <2>1. Deleted(links.kids, out, Nodes, K[p], p, i) BY <1>5, <1>6, <1>7, WhatIsListed, UnlinkIs
  <2> HIDE DEF out
  <2> QED BY <2>1, <1>5, <1>7, WhatIsListed, DeletedHeld
<1> HIDE DEF out
<1>9. N[p] = Del(K[p], i) /\ (\A m \in Nodes : m # p => N[m] = K[m]) /\ N \in [Nodes -> Seq(Nodes)]
  BY <1>7, <1>8 DEF Held
<1>10. \A m \in Nodes : \A y : Has(N[m], y) <=> y # c /\ Has(K[m], y)
  <2> SUFFICES ASSUME NEW m \in Nodes PROVE \A y : Has(N[m], y) <=> y # c /\ Has(K[m], y) OBVIOUS
  <2>1. CASE m = p
    <3>1. K[p] \in Seq(Nodes) /\ Distinct(K[p]) BY <1>5, <1>7
    <3>2. \A y : Has(Del(K[p], i), y) <=> y # K[p][i] /\ Has(K[p], y) BY <3>1, DelHas DEF Distinct
    <3> QED BY <2>1, <3>2, <1>6, <1>9
  <2>2. CASE m # p
    <3>1. ~Has(K[m], c) BY <2>2, <1>1, <1>5 DEF Tree, Parents, Has
    <3> QED BY <2>2, <3>1, <1>9
  <2> QED BY <2>1, <2>2
<1> HIDE DEF N
<1>11. Unlisted(N, c) /\ Place(N[n], place)
  <2>1. Unlisted(N, c) BY <1>10 DEF Unlisted
  <2>2. \A y : Has(K[n], y) /\ y # c => Has(N[n], y) BY <1>10
  <2> QED BY <2>1, <2>2, <1>2, <1>3, PlaceStays
<1> DEFINE l == Link(out, c, n, place)
<1>12. PICK j \in 1 .. Len(N[n]) + 1 : Inserted(out, l, Nodes, N[n], n, j, c)
  BY <1>8, <1>11, WhatIsListed, LinkIs
<1> DEFINE L == [N EXCEPT ![n] = Ins(N[n], j, c)]
<1>13. Held(l, Nodes, L)
  <2> HIDE DEF l
  <2> QED BY <1>8, <1>11, <1>12, WhatIsListed, InsertedHeld
<1>14. links' = [links EXCEPT !.parent[c] = n, !.kids = l] BY <1>2 DEF out, p
<1> HIDE DEF l
<1>15. L[n] = Ins(N[n], j, c) /\ (\A m \in Nodes : m # n => L[m] = N[m]) /\ L \in [Nodes -> Seq(Nodes)]
  BY <1>9, <1>13 DEF Held
<1> HIDE DEF L
<1>16. \A m \in Nodes : \A y \in Nodes : Has(L[m], y) <=> IF y = c THEN m = n ELSE Has(K[m], y)
  <2>1. N[n] \in Seq(Nodes) BY <1>9
  <2>2. \A y : Has(Ins(N[n], j, c), y) <=> y = c \/ Has(N[n], y)
    <3>1. j \in 1 .. Len(N[n]) + 1 BY <1>12
    <3> QED BY <2>1, <3>1, InsHas
  <2> QED BY <2>2, <1>10, <1>15
<1>17. \A m \in D : L[m] = K[m]
  <2>1. \A m \in D : m \in Nodes BY DEF D, Down
  <2>2. n \notin D BY <1>4 DEF D
  <2> QED BY <2>1, <2>2, <1>5, <1>9, <1>15
<1>18. Tree(links', L, A)
  <2>1. \A m \in Down(K, c) : L[m] = K[m] BY <1>17 DEF D
  <2>2. IsNode(links, c) /\ c # Root /\ n \notin Down(K, c) BY <1>2, <1>4
  <2> DEFINE r == links'
  <2>3. r = [links EXCEPT !.parent[c] = n, !.kids = l] BY <1>14
  <2> HIDE DEF r
  <2>4. Tree(r, L, A) BY <1>1, <2>1, <2>2, <2>3, <1>13, <1>16, NodeMoved
  <2> QED BY <2>4 DEF r
<1>19. L = KidsIn(links') /\ A = AttrsIn(links') BY <1>18, TreeHolds
<1>20. TreeInv' BY <1>18, <1>19 DEF TreeInv
<1>21. ASSUME NEW m \in Nodes PROVE Ordered!SameBut(L[m], K[m], {c}) /\ (c \in Ordered!ToSet(L[m]) <=> m = n)
  <2>0. K[m] \in Seq(Nodes) /\ L[m] \in Seq(Nodes) /\ N[m] \in Seq(Nodes) /\ Distinct(K[m]) BY <1>7, <1>9, <1>15
  <2>1. c \in Ordered!ToSet(L[m]) <=> m = n
    <3>1. c \in Ordered!ToSet(L[m]) <=> Has(L[m], c) BY <2>0, SameMembers, MembersOf
    <3> QED BY <3>1, <1>16
  <2>a. Distinct(L[m]) /\ Distinct(N[m]) BY <1>18, TreeTyped, <1>8, DistinctLists
  <2>2. CASE m = n /\ m = p
    <3>1. j \in 1 .. Len(Del(K[m], i)) + 1 /\ i \in 1 .. Len(K[m]) /\ L[m] = Ins(Del(K[m], i), j, K[m][i])
      BY <2>2, <1>6, <1>9, <1>12, <1>15
    <3>2. Ordered!SameBut(L[m], K[m], {K[m][i]}) BY <3>1, <2>0, <2>a, PutElsewhereSame
    <3>3. K[m][i] = c BY <2>2, <1>6
    <3> QED BY <3>2, <3>3, <2>1
  <2>3. CASE m = n /\ m # p
    <3>1. L[m] = Ins(K[m], j, c) /\ j \in 1 .. Len(K[m]) + 1 BY <2>3, <1>9, <1>12, <1>15
    <3> DEFINE u == K[m]
    <3>2. u \in Seq(Nodes) /\ j \in 1 .. Len(u) + 1 /\ c \in Nodes /\ Distinct(Ins(u, j, c)) BY <3>1, <2>0, <2>a
    <3> HIDE DEF u
    <3>3. Ordered!SameBut(Ins(u, j, c), u, {c}) BY ONLY <3>2, InsertedSame
    <3> QED BY <3>1, <3>3, <2>1 DEF u
  <2>4. CASE m # n /\ m = p
    <3>1. L[m] = Del(K[m], i) /\ i \in 1 .. Len(K[m]) /\ K[m][i] = c BY <2>4, <1>6, <1>9, <1>15
    <3> QED BY <3>1, <2>0, <2>1, <2>a, DeletedSame
  <2>5. CASE m # n /\ m # p
    <3>1. L[m] = K[m] BY <2>5, <1>9, <1>15
    <3>2. Ordered!SameBut(K[m], K[m], {c}) BY <2>0, SelfSame
    <3> QED BY <3>1, <3>2, <2>1
  <2> QED BY <2>2, <2>3, <2>4, <2>5
<1>22. Ordered!MoveNode
  <2>1. links'.kind = links.kind BY <1>7, <1>14 DEF Trees
  <2>2. [m \in Nodes |-> ListOf(links.kids, m)] = K /\ [m \in Nodes |-> ListOf(links'.kids, m)] = L
        /\ [m \in Nodes |-> ListOf(links.attrs, m)] = A /\ [m \in Nodes |-> ListOf(links'.attrs, m)] = A
    BY <1>19 DEF K, A, KidsIn, AttrsIn
  <2>3. links.kind[n] # "free" /\ links.kind[c] # "free" BY <1>2 DEF IsNode
  <2>4. n \notin Ordered!Under(K, c) BY <1>4, <1>7, UnderIs
  <2>5. c \in Nodes \ {Root} BY <1>4
  <2>6. \E u \in Nodes, e \in Nodes \ {Root} :
          /\ links.kind[u] # "free" /\ links.kind[e] # "free" /\ u \notin Ordered!Under(K, e)
          /\ \A m \in Nodes : Ordered!SameBut(L[m], K[m], {e}) /\ (e \in Ordered!ToSet(L[m]) <=> m = u)
    BY <2>3, <2>4, <2>5, <1>21, Zenon
  <2> DEFINE X == [m \in Nodes |-> ListOf(links.kids, m)]
             Y == [m \in Nodes |-> ListOf(links'.kids, m)]
  <2>7. X = K /\ Y = L BY <2>2
  <2>8. \E u \in Nodes, e \in Nodes \ {Root} :
          /\ links.kind[u] # "free" /\ links.kind[e] # "free" /\ u \notin Ordered!Under(X, e)
          /\ \A m \in Nodes : Ordered!SameBut(Y[m], X[m], {e}) /\ (e \in Ordered!ToSet(Y[m]) <=> m = u)
    <3> HIDE DEF X, Y
    <3> QED BY ONLY <2>6, <2>7
  <2>9. UNCHANGED <<links.kind, [m \in Nodes |-> ListOf(links.attrs, m)]>> BY <2>1, <2>2
  <2> QED BY ONLY <2>8, <2>9, Zenon DEF Ordered!MoveNode, Ordered!Exists
<1> QED BY <1>20, <1>22

Zeroed(M, f, X) == [x \in M |-> IF x \in X THEN Null ELSE f[x]]

\* Freed attributes are in no list, and have no pointers.
LEMMA WithoutIs ==
  ASSUME NEW t \in Trees, NEW X, NEW r, r = WithoutAttributes(t, X)
  PROVE  /\ r = [kind |-> t.kind, parent |-> t.parent, kids |-> t.kids, made |-> t.made \ X,
                 attrs |-> [first |-> t.attrs.first, prev |-> Zeroed(Attributes, t.attrs.prev, X),
                            next |-> Zeroed(Attributes, t.attrs.next, X)]]
         /\ r \in Trees
<1> DEFINE prev == Zeroed(Attributes, t.attrs.prev, X)
           ahead == Zeroed(Attributes, t.attrs.next, X)
<1>1. r = [t EXCEPT !.made = @ \ X, !.attrs.prev = prev, !.attrs.next = ahead]
  BY Zenon DEF WithoutAttributes, Zeroed
<1>2. prev \in [Attributes -> Attributes \union {Null}] /\ ahead \in [Attributes -> Attributes \union {Null}]
  BY DEF Zeroed, Trees, Lists
<1> HIDE DEF prev, ahead
<1>3. r = [kind |-> t.kind, parent |-> t.parent, kids |-> t.kids, made |-> t.made \ X,
           attrs |-> [first |-> t.attrs.first, prev |-> prev, next |-> ahead]]
  <2>1. t.attrs = [first |-> t.attrs.first, prev |-> t.attrs.prev, next |-> t.attrs.next] BY DEF Trees, Lists
  <2>2. t = [kind |-> t.kind, parent |-> t.parent, kids |-> t.kids, made |-> t.made, attrs |-> t.attrs] BY DEF Trees
  <2> QED BY ONLY <1>1, <2>1, <2>2
<1>4. r \in Trees BY <1>2, <1>3 DEF Trees, Lists
<1> QED BY <1>3, <1>4 DEF prev, ahead

\* remove_attribute drops the attribute.
LEMMA DropsAttribute ==
  ASSUME TreeInv, NEW n \in Nodes, IsNode(links, n), RemoveAttribute(n)
  PROVE  TreeInv' /\ Ordered!DropAttributes
<1> DEFINE K == KidsIn(links)
           A == AttrsIn(links)
<1>1. Tree(links, K, A) BY DEF TreeInv
<1> HIDE DEF K, A
<1>2. /\ A \in [Nodes -> Seq(Attributes)] /\ Held(links.attrs, Attributes, A) /\ links \in Trees
      /\ \A m \in Nodes : Distinct(A[m])
  BY <1>1, TreeTyped
<1>3. PICK a \in Members(links.attrs, n) :
        links' = WithoutAttributes([links EXCEPT !.attrs = Unlink(links.attrs, a, n)], {a})
  BY DEF RemoveAttribute
<1>4. Has(A[n], a) /\ a \in Attributes
  <2>1. Has(A[n], a) BY <1>2, WhatIsListed, MembersAre
  <2> QED BY <2>1, <1>2, HasType
<1>5. PICK i \in 1 .. Len(A[n]) : A[n][i] = a BY <1>4 DEF Has
<1> DEFINE out == Unlink(links.attrs, a, n)
           B == [A EXCEPT ![n] = Del(A[n], i)]
           t == [links EXCEPT !.attrs = out]
           r == links'
<1>6. Held(out, Attributes, B)
  <2>1. Deleted(links.attrs, out, Attributes, A[n], n, i) BY <1>2, <1>5, WhatIsListed, UnlinkIs
  <2> HIDE DEF out
  <2> QED BY <2>1, <1>2, WhatIsListed, DeletedHeld
<1>7. r = WithoutAttributes(t, {a}) BY <1>3
<1> HIDE DEF out, r
<1>8. B[n] = Del(A[n], i) /\ (\A m \in Nodes : m # n => B[m] = A[m]) /\ B \in [Nodes -> Seq(Attributes)]
  BY <1>2, <1>6 DEF Held
<1> HIDE DEF B
<1>9. \A m \in Nodes : \A y : Has(B[m], y) <=> y # a /\ Has(A[m], y)
  <2> SUFFICES ASSUME NEW m \in Nodes PROVE \A y : Has(B[m], y) <=> y # a /\ Has(A[m], y) OBVIOUS
  <2>1. CASE m = n
    <3>1. A[n] \in Seq(Attributes) /\ Distinct(A[n]) BY <1>2
    <3>2. \A y : Has(Del(A[n], i), y) <=> y # A[n][i] /\ Has(A[n], y) BY <3>1, DelHas DEF Distinct
    <3> QED BY <2>1, <3>2, <1>5, <1>8
  <2>2. CASE m # n
    <3>1. ~Has(A[m], a) BY <2>2, <1>2, <1>4 DEF Held, Has
    <3> QED BY <2>2, <3>1, <1>8
  <2> QED BY <2>1, <2>2
<1>10. t = [kind |-> links.kind, parent |-> links.parent, kids |-> links.kids, made |-> links.made, attrs |-> out] /\ t \in Trees
  <2>1. out \in Lists(Attributes) BY <1>6 DEF Held
  <2>2. t = [kind |-> links.kind, parent |-> links.parent, kids |-> links.kids, made |-> links.made, attrs |-> out]
    <3> DEFINE u == links
    <3>1. u = [kind |-> u.kind, parent |-> u.parent, kids |-> u.kids, made |-> u.made, attrs |-> u.attrs]
      BY <1>2 DEF Trees
    <3>2. t = [u EXCEPT !.attrs = out] OBVIOUS
    <3> HIDE DEF u, t
    <3>3. t = [kind |-> u.kind, parent |-> u.parent, kids |-> u.kids, made |-> u.made, attrs |-> out]
      BY <3>1, <3>2
    <3> QED BY <3>3 DEF u
  <2> HIDE DEF t
  <2>3. t \in Trees BY <2>1, <2>2, <1>2 DEF Trees
  <2> QED BY <2>2, <2>3
<1> DEFINE X == {a}
           G == {}
<1>x. X \in SUBSET Attributes /\ G \in SUBSET Nodes /\ X = {a} /\ (\A y : y \in X <=> y = a) /\ (\A y : y \notin G)
  BY <1>4
<1> HIDE DEF t, X, G
<1>y. r = WithoutAttributes(t, X) BY <1>7, <1>x
<1>11. /\ r = [kind |-> t.kind, parent |-> t.parent, kids |-> t.kids, made |-> t.made \ X,
               attrs |-> [first |-> t.attrs.first, prev |-> Zeroed(Attributes, t.attrs.prev, X),
                          next |-> Zeroed(Attributes, t.attrs.next, X)]]
       /\ r \in Trees
  <2>1. t \in Trees BY <1>10
  <2> QED BY ONLY <2>1, <1>y, WithoutIs
<1>12. /\ r.kind = links.kind /\ r.parent = links.parent /\ r.kids = links.kids /\ r.made = links.made \ X
       /\ r.attrs.first = out.first /\ r.attrs.prev = Zeroed(Attributes, out.prev, X)
       /\ r.attrs.next = Zeroed(Attributes, out.next, X) /\ r.attrs \in Lists(Attributes)
  BY <1>10, <1>11 DEF Trees
<1>13. Held(r.attrs, Attributes, B)
  <2> DEFINE l == r.attrs
  <2>1. Cleared(out, l, Attributes, G, X) BY <1>12, <1>x DEF Zeroed, Cleared
  <2>2. Owned(B, Attributes, G, X) BY <1>9, <1>x DEF Owned
  <2>3. Emptied(B, B, Attributes, G) BY <1>8, <1>x DEF Emptied
  <2> HIDE DEF l
  <2>4. Held(l, Attributes, B) BY <2>1, <2>2, <2>3, <1>x, <1>6, WhatIsListed, ClearedHeld
  <2> QED BY <2>4 DEF l
<1>14. Tree(r, K, B)
  <2>1. \A m \in Nodes : \A y \in Attributes : Has(B[m], y) <=> Has(A[m], y) /\ y \notin X BY <1>9, <1>x
  <2> QED BY <2>1, <1>x, <1>1, <1>11, <1>12, <1>13, AttributesDropped
<1>15. K = KidsIn(r) /\ B = AttrsIn(r) BY <1>14, TreeHolds
<1>16. TreeInv' BY <1>14, <1>15 DEF TreeInv, r
<1>17. Ordered!SameBut(B[n], A[n], {a}) /\ ToSet(B[n]) = ToSet(A[n]) \ {a} /\ a \in ToSet(A[n])
  <2>1. A[n] \in Seq(Attributes) /\ Distinct(A[n]) BY <1>2
  <2>2. Distinct(B[n]) BY <1>14, TreeTyped
  <2>5. Ordered!SameBut(Del(A[n], i), A[n], {A[n][i]}) /\ ToSet(Del(A[n], i)) = ToSet(A[n]) \ {A[n][i]}
    <3>1. Distinct(Del(A[n], i)) BY <2>2, <1>8
    <3> DEFINE s == A[n]
    <3>2. s \in Seq(Attributes) /\ Distinct(s) /\ i \in 1 .. Len(s) /\ Distinct(Del(s, i)) BY <2>1, <3>1
    <3> HIDE DEF s
    <3>3. Ordered!SameBut(Del(s, i), s, {s[i]}) /\ ToSet(Del(s, i)) = ToSet(s) \ {s[i]} BY <3>2, DeletedSame
    <3> QED BY <3>3 DEF s
  <2>3. Ordered!SameBut(B[n], A[n], {a}) /\ ToSet(B[n]) = ToSet(A[n]) \ {a} BY <2>5, <1>5, <1>8
  <2>4. a \in ToSet(A[n]) BY <2>1, <1>4, MembersOf
  <2> QED BY <2>3, <2>4
<1>18. Ordered!DropAttributes
  <2>1. [m \in Nodes |-> ListOf(links.kids, m)] = K /\ [m \in Nodes |-> ListOf(links'.kids, m)] = K
        /\ [m \in Nodes |-> ListOf(links.attrs, m)] = A /\ [m \in Nodes |-> ListOf(links'.attrs, m)] = B
    BY <1>15 DEF K, A, KidsIn, AttrsIn, r
  <2>2. links'.kind = links.kind BY <1>12 DEF r
  <2>3. Ordered!Without(B[n], A[n], {a}) /\ {a} \in SUBSET Ordered!ToSet(A[n])
    BY <1>17, SameMembers DEF Ordered!Without
  <2> QED BY <2>1, <2>2, <2>3, <1>8 DEF Ordered!DropAttributes
<1> QED BY <1>16, <1>18

\* remove_attributes drops all of the node.
LEMMA DropsAllAttributes ==
  ASSUME TreeInv, NEW n \in Nodes, IsNode(links, n), RemoveAttributes(n)
  PROVE  TreeInv' /\ Ordered!DropAttributes
<1> DEFINE K == KidsIn(links)
           A == AttrsIn(links)
<1>1. Tree(links, K, A) BY DEF TreeInv
<1> HIDE DEF K, A
<1>2. /\ A \in [Nodes -> Seq(Attributes)] /\ Held(links.attrs, Attributes, A) /\ links \in Trees
      /\ \A m \in Nodes : Distinct(A[m])
  BY <1>1, TreeTyped
<1> DEFINE X == Members(links.attrs, n)
           t == WithoutAttributes(links, X)
           r == links'
           B == [o \in Nodes |-> IF o \in {n} THEN <<>> ELSE A[o]]
<1>3. r = [t EXCEPT !.attrs.first[n] = Null] BY DEF RemoveAttributes
<1>4. X = ToSet(A[n]) /\ \A y : y \in X <=> Has(A[n], y) BY <1>2, WhatIsListed, MembersAre
<1>5. X \in SUBSET Attributes BY <1>2, <1>4, HasType
<1> HIDE DEF r, X
<1>6. /\ t = [kind |-> links.kind, parent |-> links.parent, kids |-> links.kids, made |-> links.made \ X,
              attrs |-> [first |-> links.attrs.first, prev |-> Zeroed(Attributes, links.attrs.prev, X),
                         next |-> Zeroed(Attributes, links.attrs.next, X)]]
      /\ t \in Trees
  BY <1>2, WithoutIs
<1> HIDE DEF t
<1>7. r = [kind |-> links.kind, parent |-> links.parent, kids |-> links.kids, made |-> links.made \ X,
           attrs |-> [first |-> [links.attrs.first EXCEPT ![n] = Null],
                      prev |-> Zeroed(Attributes, links.attrs.prev, X),
                      next |-> Zeroed(Attributes, links.attrs.next, X)]]
  BY <1>3, <1>6
<1>8. /\ r.kind = links.kind /\ r.parent = links.parent /\ r.kids = links.kids /\ r.made = links.made \ X
      /\ r.attrs.first = [links.attrs.first EXCEPT ![n] = Null]
      /\ r.attrs.prev = Zeroed(Attributes, links.attrs.prev, X)
      /\ r.attrs.next = Zeroed(Attributes, links.attrs.next, X)
  BY <1>7
<1>9. r \in Trees /\ r.attrs \in Lists(Attributes)
  <2>1. links.attrs \in Lists(Attributes) /\ t.attrs \in Lists(Attributes) BY <1>2, <1>6 DEF Trees
  <2>2. [links.attrs.first EXCEPT ![n] = Null] \in [Nodes -> Attributes \union {Null}] BY <2>1 DEF Lists
  <2>3. /\ Zeroed(Attributes, links.attrs.prev, X) \in [Attributes -> Attributes \union {Null}]
        /\ Zeroed(Attributes, links.attrs.next, X) \in [Attributes -> Attributes \union {Null}]
    BY <2>1 DEF Lists, Zeroed
  <2>4. r.attrs \in Lists(Attributes) BY <2>2, <2>3, <1>7 DEF Lists
  <2> QED BY <2>4, <1>2, <1>7 DEF Trees
<1> DEFINE G == {n}
<1>x. G \in SUBSET Nodes /\ \A y : y \in G <=> y = n OBVIOUS
<1>z. B \in [Nodes -> Seq(Attributes)] /\ \A o \in Nodes : B[o] = IF o \in G THEN <<>> ELSE A[o]
  <2>1. <<>> \in Seq(Attributes) OBVIOUS
  <2> QED BY <2>1, <1>2
<1> HIDE DEF G
<1>10. Held(r.attrs, Attributes, B)
  <2> DEFINE l == r.attrs
  <2>1. Cleared(links.attrs, l, Attributes, G, X) BY <1>2, <1>8, <1>9, <1>x DEF Zeroed, Trees, Lists, Cleared
  <2>2. Owned(A, Attributes, G, X) BY <1>2, <1>4, <1>x DEF Held, Has, Owned
  <2>3. Emptied(A, B, Attributes, G) BY <1>z DEF Emptied
  <2> HIDE DEF l, B
  <2>4. Held(l, Attributes, B) BY <2>1, <2>2, <2>3, <1>2, <1>5, <1>x, WhatIsListed, ClearedHeld
  <2> QED BY <2>4 DEF l
<1>11. B[n] = <<>> /\ \A m \in Nodes : m # n => B[m] = A[m] OBVIOUS
<1> HIDE DEF B
<1>12. \A m \in Nodes : \A y \in Attributes : Has(B[m], y) <=> Has(A[m], y) /\ y \notin X
  <2> SUFFICES ASSUME NEW m \in Nodes, NEW y \in Attributes PROVE Has(B[m], y) <=> Has(A[m], y) /\ y \notin X
    OBVIOUS
  <2>1. ~Has(<<>>, y) BY DEF Has
  <2>2. CASE m = n BY <2>1, <2>2, <1>4, <1>11
  <2>3. CASE m # n
    <3>1. ~(Has(A[m], y) /\ Has(A[n], y)) BY <2>3, <1>2 DEF Held, Has
    <3> QED BY <2>3, <3>1, <1>4, <1>11
  <2> QED BY <2>2, <2>3
<1>13. Tree(r, K, B) BY <1>1, <1>5, <1>8, <1>9, <1>10, <1>12, AttributesDropped
<1>14. K = KidsIn(r) /\ B = AttrsIn(r) BY <1>13, TreeHolds
<1>15. TreeInv' BY <1>13, <1>14 DEF TreeInv, r
<1>16. Ordered!DropAttributes
  <2>1. [m \in Nodes |-> ListOf(links.kids, m)] = K /\ [m \in Nodes |-> ListOf(links'.kids, m)] = K
        /\ [m \in Nodes |-> ListOf(links.attrs, m)] = A /\ [m \in Nodes |-> ListOf(links'.attrs, m)] = B
    BY <1>14 DEF K, A, KidsIn, AttrsIn, r
  <2>2. links'.kind = links.kind BY <1>8 DEF r
  <2>3. Ordered!SameBut(<<>>, A[n], ToSet(A[n])) /\ ToSet(<<>>) = {}
    <3>1. A[n] \in Seq(Attributes) BY <1>2
    <3> QED BY <3>1, EmptiedSame
  <2>4. Ordered!Without(B[n], A[n], Ordered!ToSet(A[n]))
    BY <2>3, <1>11, SameMembers DEF Ordered!Without
  <2> QED BY <2>1, <2>2, <2>4, <1>11 DEF Ordered!DropAttributes
<1> QED BY <1>15, <1>16

\* destroy_node clears what is under the nodes, pointer by pointer.
LEMMA DestroyedIs ==
  ASSUME NEW t \in Trees, NEW K, Held(t.kids, Nodes, K), NEW A, Held(t.attrs, Attributes, A),
         NEW R \in SUBSET Nodes, NEW G, AllUnder(K, R, G), NEW r, r = Destroyed(t, R),
         NEW B, Emptied(A, B, Attributes, G)
  PROVE  /\ Gone(t, r, A, G) /\ Cleared(t.kids, r.kids, Nodes, G, G) /\ Held(r.attrs, Attributes, B)
         /\ r = [kind |-> r.kind, parent |-> r.parent, kids |-> r.kids, made |-> r.made, attrs |-> r.attrs]
         /\ G \in SUBSET Nodes
<1> DEFINE gone == UNION {Subtree(t, x) : x \in R}
<1>1. gone = G /\ G \in SUBSET Nodes
  <2>1. \A x \in R : Subtree(t, x) = Down(K, x) BY SubtreeIs
  <2>2. \A n : n \in gone <=> n \in G BY <2>1 DEF AllUnder
  <2>3. gone = G BY <2>2
  <2>4. G \subseteq Nodes BY DEF AllUnder, Down
  <2> QED BY <2>3, <2>4
<1> DEFINE X == UNION {Members(t.attrs, n) : n \in gone}
           rest == WithoutAttributes(t, X)
           Kept(f) == [n \in Nodes |-> IF n \in gone THEN Null ELSE f[n]]
<1>2. r = [rest EXCEPT !.kind = [n \in Nodes |-> IF n \in gone THEN "free" ELSE @[n]],
                       !.parent = Kept(@),
                       !.kids = [first |-> Kept(@.first), prev |-> Kept(@.prev), next |-> Kept(@.next)],
                       !.attrs.first = Kept(@)]
  BY Zenon DEF Destroyed
<1> HIDE DEF gone
<1>3. A \in [Nodes -> Seq(Attributes)]
      /\ \A n, m \in Nodes : \A y : Has(A[n], y) /\ Has(A[m], y) => n = m
  <2>1. A \in [Nodes -> Seq(Attributes)]
        /\ \A o, u \in Nodes : \A i \in 1 .. Len(A[o]), j \in 1 .. Len(A[u]) : A[o][i] = A[u][j] => o = u /\ i = j
    BY DEF Held
  <2> QED BY <2>1 DEF Has
<1>4. X \in SUBSET Attributes /\ \A y : y \in X <=> \E n \in G : Has(A[n], y)
  <2>1. \A n \in gone : \A y : y \in Members(t.attrs, n) <=> Has(A[n], y) BY <1>1, WhatIsListed, MembersAre
  <2>2. \A y : y \in X <=> \E n \in G : Has(A[n], y) BY <1>1, <2>1
  <2>3. \A n \in Nodes : \A y : Has(A[n], y) => y \in Attributes BY <1>3, HasType
  <2> QED BY <1>1, <2>2, <2>3
<1> HIDE DEF X
<1>5. /\ rest = [kind |-> t.kind, parent |-> t.parent, kids |-> t.kids, made |-> t.made \ X,
                 attrs |-> [first |-> t.attrs.first, prev |-> Zeroed(Attributes, t.attrs.prev, X),
                            next |-> Zeroed(Attributes, t.attrs.next, X)]]
      /\ rest \in Trees
  BY WithoutIs
<1> HIDE DEF rest
<1> DEFINE kind == [n \in Nodes |-> IF n \in G THEN "free" ELSE t.kind[n]]
           parent == Kept(t.parent)
           kids == [first |-> Kept(t.kids.first), prev |-> Kept(t.kids.prev), next |-> Kept(t.kids.next)]
           first == Kept(t.attrs.first)
           prev == Zeroed(Attributes, t.attrs.prev, X)
           ahead == Zeroed(Attributes, t.attrs.next, X)
<1>6. r = [kind |-> kind, parent |-> parent, kids |-> kids, made |-> t.made \ X,
           attrs |-> [first |-> first, prev |-> prev, next |-> ahead]]
  <2>1. /\ rest.kind = t.kind /\ rest.parent = t.parent /\ rest.kids = t.kids
        /\ rest.attrs = [first |-> t.attrs.first, prev |-> prev, next |-> ahead] /\ rest.attrs.first = t.attrs.first
    BY <1>5
  <2>2. r = [rest EXCEPT !.kind = kind, !.parent = parent, !.kids = kids, !.attrs.first = first]
    BY <1>1, <1>2, <2>1
  <2> HIDE DEF kind, parent, kids, first, prev, ahead
  <2> QED BY <1>5, <2>2 DEF prev, ahead
<1>7. /\ kind \in [Nodes -> Kinds] /\ parent \in [Nodes -> Nodes \union {Null}]
      /\ \A n \in Nodes : n \notin G => parent[n] = t.parent[n]
      /\ kids \in Lists(Nodes) /\ first \in [Nodes -> Attributes \union {Null}]
      /\ \A n \in Nodes : kids.first[n] = (IF n \in G THEN Null ELSE t.kids.first[n])
                         /\ kids.prev[n] = (IF n \in G THEN Null ELSE t.kids.prev[n])
                         /\ kids.next[n] = (IF n \in G THEN Null ELSE t.kids.next[n])
                         /\ first[n] = (IF n \in G THEN Null ELSE t.attrs.first[n])
  <2>1. t.kind \in [Nodes -> Kinds] /\ t.parent \in [Nodes -> Nodes \union {Null}]
        /\ t.kids.first \in [Nodes -> Nodes \union {Null}] /\ t.kids.prev \in [Nodes -> Nodes \union {Null}]
        /\ t.kids.next \in [Nodes -> Nodes \union {Null}] /\ t.attrs.first \in [Nodes -> Attributes \union {Null}]
        /\ "free" \in Kinds
    BY DEF Trees, Lists, Kinds
  <2>2. kind \in [Nodes -> Kinds] BY <2>1
  <2>3. parent \in [Nodes -> Nodes \union {Null}] /\ \A n \in Nodes : n \notin G => parent[n] = t.parent[n]
    BY <2>1, <1>1
  <2>4. first \in [Nodes -> Attributes \union {Null}]
        /\ \A n \in Nodes : first[n] = (IF n \in G THEN Null ELSE t.attrs.first[n])
    BY <2>1, <1>1
  <2> DEFINE kf == Kept(t.kids.first)
             kp == Kept(t.kids.prev)
             kn == Kept(t.kids.next)
  <2>5. /\ kf \in [Nodes -> Nodes \union {Null}] /\ kp \in [Nodes -> Nodes \union {Null}]
        /\ kn \in [Nodes -> Nodes \union {Null}]
        /\ \A n \in Nodes : kf[n] = (IF n \in G THEN Null ELSE t.kids.first[n])
        /\ \A n \in Nodes : kp[n] = (IF n \in G THEN Null ELSE t.kids.prev[n])
        /\ \A n \in Nodes : kn[n] = (IF n \in G THEN Null ELSE t.kids.next[n])
    BY <2>1, <1>1
  <2>6. kids.first = kf /\ kids.prev = kp /\ kids.next = kn /\ kids = [first |-> kf, prev |-> kp, next |-> kn] OBVIOUS
  <2> HIDE DEF kind, parent, first, kids, kf, kp, kn
  <2>7. kids \in Lists(Nodes) BY <2>5, <2>6 DEF Lists
  <2> QED BY <2>2, <2>3, <2>4, <2>5, <2>6, <2>7
<1>8. /\ prev \in [Attributes -> Attributes \union {Null}] /\ ahead \in [Attributes -> Attributes \union {Null}]
      /\ \A y \in Attributes : prev[y] = IF y \in X THEN Null ELSE t.attrs.prev[y]
      /\ \A y \in Attributes : ahead[y] = IF y \in X THEN Null ELSE t.attrs.next[y]
  BY DEF Zeroed, Trees, Lists
<1>9. kind = [n \in Nodes |-> IF n \in G THEN "free" ELSE t.kind[n]] OBVIOUS
<1> HIDE DEF kind, parent, first, kids, prev, ahead
<1> DEFINE attrs == [first |-> first, prev |-> prev, next |-> ahead]
<1>10. attrs \in Lists(Attributes) /\ attrs.first = first /\ attrs.prev = prev /\ attrs.next = ahead
  BY <1>7, <1>8 DEF Lists
<1>11. /\ r.kind = kind /\ r.parent = parent /\ r.kids = kids /\ r.made = t.made \ X /\ r.attrs = attrs
       /\ r = [kind |-> r.kind, parent |-> r.parent, kids |-> r.kids, made |-> r.made, attrs |-> r.attrs]
  BY <1>6
<1> HIDE DEF attrs
<1>12. r \in Trees
  <2>1. t.made \ X \in SUBSET Attributes BY DEF Trees
  <2> QED BY <2>1, <1>7, <1>10, <1>11 DEF Trees
<1>13. Gone(t, r, A, G)
  <2>1. \A a \in Attributes : a \in r.made <=> a \in t.made /\ \A n \in G : ~Has(A[n], a) BY <1>4, <1>11
  <2> QED BY <2>1, <1>7, <1>9, <1>11, <1>12 DEF Gone
<1>14. Cleared(t.kids, r.kids, Nodes, G, G) BY <1>7, <1>11 DEF Cleared
<1>15. Held(r.attrs, Attributes, B)
  <2> DEFINE l == r.attrs
  <2>1. Cleared(t.attrs, l, Attributes, G, X) BY <1>7, <1>8, <1>10, <1>11 DEF Cleared
  <2>2. Owned(A, Attributes, G, X)
    <3> SUFFICES ASSUME NEW o \in Nodes, NEW y \in Attributes, Has(A[o], y) PROVE y \in X <=> o \in G BY DEF Owned
    <3> QED BY <1>1, <1>3, <1>4
  <2> HIDE DEF l
  <2>3. Held(l, Attributes, B) BY <2>1, <2>2, <1>1, <1>4, WhatIsListed, ClearedHeld
  <2> QED BY <2>3 DEF l
<1> QED BY <1>1, <1>11, <1>13, <1>14, <1>15

\* Nodes that no list holds any more and what is under them are gone, and a tree is left.
LEMMA DropsNodes ==
  ASSUME NEW K, NEW A, Tree(links, K, A), K = KidsIn(links), A = AttrsIn(links), NEW p \in Nodes, NEW R \in SUBSET Nodes,
         \A x \in R : Has(K[p], x), NEW G, AllUnder(K, R, G),
         NEW L, NEW B, Emptied(A, B, Attributes, G), Held(links'.kids, Nodes, L), Held(links'.attrs, Attributes, B),
         Gone(links, links', A, G),
         \A n \in Nodes : n # p => L[n] = IF n \in G THEN <<>> ELSE K[n],
         Ordered!SameBut(L[p], K[p], R) /\ ToSet(L[p]) = ToSet(K[p]) \ R
  PROVE  TreeInv' /\ Ordered!DropChildren
<1> DEFINE r == links'
<1>1. /\ K \in [Nodes -> Seq(Nodes)] /\ L \in [Nodes -> Seq(Nodes)] /\ A \in [Nodes -> Seq(Attributes)]
      /\ links \in Trees /\ Parents(links, K)
  BY DEF Tree, Held
<1>2. /\ r \in Trees /\ r.kind = [n \in Nodes |-> IF n \in G THEN "free" ELSE links.kind[n]]
      /\ \A n \in Nodes : n \notin G => r.parent[n] = links.parent[n]
      /\ \A a \in Attributes : a \in r.made <=> a \in links.made /\ \A n \in G : ~Has(A[n], a)
  BY DEF Gone
<1>3. \A n \in Nodes : r.kind[n] = IF n \in G THEN "free" ELSE links.kind[n] BY <1>2
<1>4. /\ \A n : n \in G <=> \E x \in R : n \in Down(K, x)
      /\ \A n \in Nodes : B[n] = IF n \in G THEN <<>> ELSE A[n]
  BY DEF AllUnder, Emptied
<1> HIDE DEF r
<1>a. \A x \in R : IsNode(links, x) /\ x # Root /\ links.parent[x] = p
  <2> SUFFICES ASSUME NEW x \in R PROVE IsNode(links, x) /\ x # Root /\ links.parent[x] = p OBVIOUS
  <2>1. PICK i \in 1 .. Len(K[p]) : K[p][i] = x BY DEF Has
  <2> QED BY <2>1, <1>1 DEF Parents
<1>b. p \notin G BY <1>a, <1>4, NotUnderItself
<1>5. \A n \in Nodes : \A y \in Nodes : Has(L[n], y) <=> n \notin G /\ y \notin R /\ Has(K[n], y)
  <2> SUFFICES ASSUME NEW n \in Nodes, NEW y \in Nodes
               PROVE  Has(L[n], y) <=> n \notin G /\ y \notin R /\ Has(K[n], y)
    OBVIOUS
  <2>1. CASE n = p
    <3>1. K[p] \in Seq(Nodes) /\ L[p] \in Seq(Nodes) BY <1>1
    <3>2. (y \in ToSet(K[p]) <=> Has(K[p], y)) /\ (y \in ToSet(L[p]) <=> Has(L[p], y)) BY <3>1, MembersOf
    <3> QED BY <2>1, <3>2, <1>b
  <2>2. CASE n # p
    <3>1. ~Has(<<>>, y) BY DEF Has
    <3>2. y \in R => ~Has(K[n], y)
      <4>1. \A i \in 1 .. Len(K[n]) : links.parent[K[n][i]] = n BY <1>1 DEF Parents
      <4>2. ASSUME Has(K[n], y) PROVE links.parent[y] = n
        <5>1. PICK i \in 1 .. Len(K[n]) : K[n][i] = y BY <4>2 DEF Has
        <5> QED BY <4>1, <5>1
      <4> QED BY <4>2, <2>2, <1>a
    <3> QED BY <2>2, <3>1, <3>2
  <2> QED BY <2>1, <2>2
<1>6. Tree(r, L, B)
  <2>1. Held(r.kids, Nodes, L) /\ Held(r.attrs, Attributes, B) BY DEF r
  <2>2. Gone(links, r, A, G) BY DEF r
  <2>3. LeftOf(K, L, R, G) BY <1>5 DEF LeftOf
  <2>4. ChildrenOf(K, p, R) BY DEF ChildrenOf
  <2> QED BY ONLY Tree(links, K, A), p \in Nodes, AllUnder(K, R, G), Emptied(A, B, Attributes, G),
                  <2>1, <2>2, <2>3, <2>4, NodesDropped
<1>7. L = KidsIn(r) /\ B = AttrsIn(r) BY <1>6, TreeHolds
<1>8. TreeInv' BY <1>6, <1>7 DEF TreeInv, r
<1>9. Ordered!DropChildren
  <2>1. [m \in Nodes |-> ListOf(links.kids, m)] = K /\ [m \in Nodes |-> ListOf(links'.kids, m)] = L
        /\ [m \in Nodes |-> ListOf(links.attrs, m)] = A /\ [m \in Nodes |-> ListOf(links'.attrs, m)] = B
    BY <1>7 DEF KidsIn, AttrsIn, r
  <2>2. R \in SUBSET Ordered!ToSet(K[p])
    <3>1. K[p] \in Seq(Nodes) BY <1>1
    <3>2. \A x : x \in ToSet(K[p]) <=> Has(K[p], x) BY <3>1, MembersOf
    <3> QED BY <3>2, SameMembers
  <2>3. Ordered!Without(L[p], K[p], R) BY SameMembers DEF Ordered!Without
  <2> DEFINE gone == UNION {Ordered!Under(K, c) : c \in R}
  <2>4. gone = G
    <3>1. \A c \in R : Ordered!Under(K, c) = Down(K, c) BY <1>1, UnderIs
    <3>2. \A n : n \in gone <=> n \in G BY <3>1, <1>4
    <3> QED BY <3>2
  <2> HIDE DEF gone
  <2>5. links'.kind = [n \in Nodes |-> IF n \in gone THEN "free" ELSE links.kind[n]] BY <1>2, <2>4 DEF r
  <2>6. \A n \in gone : L[n] = <<>> /\ B[n] = <<>>
    <3>1. G \subseteq Nodes BY <1>4 DEF Down
    <3> QED BY <3>1, <1>4, <1>b, <2>4
  <2>7. \A n \in Nodes \ gone : B[n] = A[n] /\ (n # p => L[n] = K[n]) BY <1>4, <2>4
  <2> QED BY <2>1, <2>2, <2>3, <2>5, <2>6, <2>7, SMTT(20) DEF Ordered!DropChildren, gone
<1> QED BY <1>8, <1>9

\* Every member of a list in G is in G, and but for the lists of the owners in H nothing else.
LEMMA UnderOwned ==
  ASSUME NEW t, NEW K, NEW A, Tree(t, K, A), NEW p \in Nodes, NEW R, ChildrenOf(K, p, R), NEW G, AllUnder(K, R, G)
  PROVE  /\ G \in SUBSET Nodes /\ p \notin G
         /\ \A n \in G : \A y : Has(K[n], y) => y \in G
         /\ \A n \in Nodes : n \notin G => \A y : Has(K[n], y) /\ y \in G => n = p /\ y \in R
         /\ \A x \in R : x \in G /\ IsNode(t, x) /\ x # Root /\ t.parent[x] = p
<1>0. /\ \A n : n \in G <=> \E x \in R : n \in Down(K, x)
      /\ R \subseteq Nodes /\ \A x \in R : Has(K[p], x)
  BY DEF AllUnder, ChildrenOf
<1>1. K \in [Nodes -> Seq(Nodes)] /\ Parents(t, K) BY DEF Tree, Held
<1>2. \A x \in R : IsNode(t, x) /\ x # Root /\ t.parent[x] = p
  <2> SUFFICES ASSUME NEW x \in R PROVE IsNode(t, x) /\ x # Root /\ t.parent[x] = p OBVIOUS
  <2>1. PICK i \in 1 .. Len(K[p]) : K[p][i] = x BY <1>0 DEF Has
  <2> QED BY <2>1, <1>1 DEF Parents
<1>3. p \notin G BY <1>0, <1>2, NotUnderItself
<1>4. G \in SUBSET Nodes BY <1>0 DEF Down
<1>5. \A x \in R : Closed(K, x, Down(K, x)) BY <1>0, <1>1, DownIsClosed
<1>6. \A x \in R : x \in G BY <1>0, <1>5 DEF Closed
<1>7. \A n \in G : \A y : Has(K[n], y) => y \in G
  <2> SUFFICES ASSUME NEW n \in G, NEW y, Has(K[n], y) PROVE y \in G OBVIOUS
  <2>1. PICK x \in R : n \in Down(K, x) BY <1>0
  <2>2. y \in Down(K, x) BY <2>1, <1>5 DEF Closed, Has
  <2> QED BY <2>2, <1>0
<1>8. \A n \in Nodes : n \notin G => \A y : Has(K[n], y) /\ y \in G => n = p /\ y \in R
  <2> SUFFICES ASSUME NEW n \in Nodes, n \notin G, NEW y, Has(K[n], y), y \in G PROVE n = p /\ y \in R
    OBVIOUS
  <2>1. t.parent[y] = n BY <1>1 DEF Parents, Has
  <2>2. PICK x \in R : y \in Down(K, x) BY <1>0
  <2>3. y # x => t.parent[y] \in Down(K, x) BY <2>2, <1>0, <1>2, DownExists
  <2>4. y = x
    <3>1. t.parent[y] \in Down(K, x) => t.parent[y] \in G BY <1>0
    <3> QED BY <2>1, <2>3, <3>1
  <2> QED BY <2>1, <2>4, <1>2
<1> QED BY <1>2, <1>3, <1>4, <1>6, <1>7, <1>8

\* remove_children drops every child with what is under it.
LEMMA DropsChildren ==
  ASSUME TreeInv, NEW n \in Nodes, IsNode(links, n), RemoveChildren(n)
  PROVE  TreeInv' /\ Ordered!DropChildren
<1> DEFINE K == KidsIn(links)
           A == AttrsIn(links)
<1>0. K = KidsIn(links) /\ A = AttrsIn(links) OBVIOUS
<1>1. Tree(links, K, A) BY DEF TreeInv
<1> HIDE DEF K, A
<1>2. /\ K \in [Nodes -> Seq(Nodes)] /\ Held(links.kids, Nodes, K) /\ links \in Trees
      /\ A \in [Nodes -> Seq(Attributes)] /\ Held(links.attrs, Attributes, A)
  BY <1>1, TreeTyped
<1> DEFINE R == Members(links.kids, n)
           t == links
           v == Destroyed(t, R)
           r == links'
           G == UNION {Down(K, x) : x \in R}
           B == [o \in Nodes |-> IF o \in G THEN <<>> ELSE A[o]]
<1>3. r = [v EXCEPT !.kids.first[n] = Null] BY DEF RemoveChildren
<1>4. R = ToSet(K[n]) /\ \A y : y \in R <=> Has(K[n], y) BY <1>2, WhatIsListed, MembersAre
<1>5. R \in SUBSET Nodes BY <1>2, <1>4, HasType
<1>6. AllUnder(K, R, G) BY DEF AllUnder
<1>7. Emptied(A, B, Attributes, G)
  <2>1. <<>> \in Seq(Attributes) OBVIOUS
  <2> QED BY <2>1, <1>2 DEF Emptied
<1>8. ChildrenOf(K, n, R) BY <1>4, <1>5 DEF ChildrenOf
<1> HIDE DEF r, R, G, B
<1>9. /\ Gone(t, v, A, G) /\ Cleared(t.kids, v.kids, Nodes, G, G) /\ Held(v.attrs, Attributes, B)
      /\ v = [kind |-> v.kind, parent |-> v.parent, kids |-> v.kids, made |-> v.made, attrs |-> v.attrs]
      /\ G \in SUBSET Nodes
  <2> HIDE DEF v, t
  <2>1. t \in Trees /\ Held(t.kids, Nodes, K) /\ Held(t.attrs, Attributes, A) BY <1>2 DEF t
  <2>2. v = Destroyed(t, R) BY DEF v
  <2> QED BY <2>1, <2>2, <1>5, <1>6, <1>7, DestroyedIs
<1> HIDE DEF v
<1>10. /\ n \notin G /\ \A m \in G : \A y : Has(K[m], y) => y \in G
       /\ \A m \in Nodes : m \notin G => \A y : Has(K[m], y) /\ y \in G => m = n /\ y \in R
       /\ \A x \in R : x \in G
  BY <1>1, <1>6, <1>8, UnderOwned
<1> DEFINE first == [v.kids.first EXCEPT ![n] = Null]
           kids == [first |-> first, prev |-> v.kids.prev, next |-> v.kids.next]
<1>11. v \in Trees /\ v.kids \in Lists(Nodes) BY <1>9 DEF Gone, Trees
<1>12. v.kids = [first |-> v.kids.first, prev |-> v.kids.prev, next |-> v.kids.next] BY <1>11 DEF Lists
<1>13. first \in [Nodes -> Nodes \union {Null}] /\ \A o \in Nodes : first[o] = IF o = n THEN Null ELSE v.kids.first[o]
  BY <1>11 DEF Lists
<1>14. r = [kind |-> v.kind, parent |-> v.parent, kids |-> kids, made |-> v.made, attrs |-> v.attrs]
  <2> DEFINE l == v.kids
  <2>1. [l EXCEPT !.first[n] = Null] = kids
    <3> HIDE DEF l
    <3>1. l = [first |-> l.first, prev |-> l.prev, next |-> l.next] BY <1>12 DEF l
    <3> QED BY <3>1 DEF l
  <2>2. r = [v EXCEPT !.kids = [l EXCEPT !.first[n] = Null]] BY <1>3
  <2> HIDE DEF l, kids
  <2>3. r = [v EXCEPT !.kids = kids] BY <2>1, <2>2
  <2> QED BY <2>3, <1>9
<1>15. kids \in Lists(Nodes) /\ kids.first = first /\ kids.prev = v.kids.prev /\ kids.next = v.kids.next
  <2>1. kids.first = first /\ kids.prev = v.kids.prev /\ kids.next = v.kids.next OBVIOUS
  <2> HIDE DEF first
  <2> QED BY <2>1, <1>11, <1>13 DEF Lists
<1> HIDE DEF kids, first
<1>16. r.kind = v.kind /\ r.parent = v.parent /\ r.kids = kids /\ r.made = v.made /\ r.attrs = v.attrs BY <1>14
<1>17. r \in Trees BY <1>11, <1>14, <1>15 DEF Trees
<1>18. Gone(links, r, A, G) BY <1>9, <1>16, <1>17 DEF Gone
<1> DEFINE L == [o \in Nodes |-> IF o \in G \union {n} THEN <<>> ELSE K[o]]
           H == G \union {n}
<1>19. H \in SUBSET Nodes /\ \A y : y \in H <=> y \in G \/ y = n BY <1>9
<1>20. Emptied(K, L, Nodes, H)
  <2>1. <<>> \in Seq(Nodes) OBVIOUS
  <2> QED BY <2>1, <1>2 DEF Emptied
<1> HIDE DEF L, H
<1>21. Held(kids, Nodes, L)
  <2>1. Cleared(links.kids, kids, Nodes, H, G) BY <1>9, <1>13, <1>15, <1>19 DEF Cleared
  <2>2. Owned(K, Nodes, H, G) BY <1>4, <1>10, <1>19 DEF Owned
  <2> QED BY <2>1, <2>2, <1>2, <1>9, <1>19, <1>20, WhatIsListed, ClearedHeld
<1>22. \A m \in Nodes : m # n => L[m] = IF m \in G THEN <<>> ELSE K[m] BY <1>19, <1>20 DEF Emptied
<1>23. Ordered!SameBut(L[n], K[n], R) /\ ToSet(L[n]) = ToSet(K[n]) \ R
  <2>1. L[n] = <<>> BY <1>19, <1>20 DEF Emptied
  <2>2. Ordered!SameBut(<<>>, K[n], ToSet(K[n])) /\ ToSet(<<>>) = {}
    <3>1. K[n] \in Seq(Nodes) BY <1>2
    <3> QED BY <3>1, EmptiedSame
  <2>3. Ordered!SameBut(L[n], K[n], R) BY <2>1, <2>2, <1>4
  <2>4. ToSet(L[n]) = ToSet(K[n]) \ R BY <2>1, <2>2, <1>4
  <2> QED BY <2>3, <2>4
<1>24. Held(links'.kids, Nodes, L) /\ Held(links'.attrs, Attributes, B) /\ Gone(links, links', A, G)
  BY <1>9, <1>16, <1>18, <1>21 DEF r
<1>25. \A x \in R : Has(K[n], x) BY <1>4
<1> QED BY <1>0, <1>1, <1>5, <1>6, <1>7, <1>22, <1>23, <1>24, <1>25, DropsNodes

\* remove_child drops the child with what is under it.
LEMMA DropsChild ==
  ASSUME TreeInv, NEW n \in Nodes, IsNode(links, n), RemoveChild(n)
  PROVE  TreeInv' /\ Ordered!DropChildren
<1> DEFINE K == KidsIn(links)
           A == AttrsIn(links)
<1>0. K = KidsIn(links) /\ A = AttrsIn(links) OBVIOUS
<1>1. Tree(links, K, A) BY DEF TreeInv
<1> HIDE DEF K, A
<1>2. /\ K \in [Nodes -> Seq(Nodes)] /\ Held(links.kids, Nodes, K) /\ links \in Trees
      /\ A \in [Nodes -> Seq(Attributes)] /\ Held(links.attrs, Attributes, A) /\ \A m \in Nodes : Distinct(K[m])
  BY <1>1, TreeTyped
<1>3. PICK c \in Members(links.kids, n) :
        links' = Destroyed([links EXCEPT !.kids = Unlink(links.kids, c, n), !.parent[c] = Null], {c})
  BY DEF RemoveChild
<1>4. Has(K[n], c) /\ c \in Nodes
  <2>1. Has(K[n], c) BY <1>2, WhatIsListed, MembersAre
  <2> QED BY <2>1, <1>2, HasType
<1>5. PICK i \in 1 .. Len(K[n]) : K[n][i] = c BY <1>4 DEF Has
<1> DEFINE out == Unlink(links.kids, c, n)
           N == [K EXCEPT ![n] = Del(K[n], i)]
           R == {c}
           t == [links EXCEPT !.kids = out, !.parent[c] = Null]
           r == links'
           G == Down(K, c)
           B == [o \in Nodes |-> IF o \in G THEN <<>> ELSE A[o]]
<1>6. Held(out, Nodes, N)
  <2>1. Deleted(links.kids, out, Nodes, K[n], n, i) BY <1>2, <1>5, WhatIsListed, UnlinkIs
  <2> HIDE DEF out
  <2> QED BY <2>1, <1>2, WhatIsListed, DeletedHeld
<1>7. r = Destroyed(t, R) BY <1>3
<1>8. R \in SUBSET Nodes /\ (\A y : y \in R <=> y = c) /\ R = {c} BY <1>4
<1>9. AllUnder(K, R, G) BY <1>8 DEF AllUnder
<1>10. Emptied(A, B, Attributes, G)
  <2>1. <<>> \in Seq(Attributes) OBVIOUS
  <2> HIDE DEF G
  <2> QED BY <2>1, <1>2 DEF Emptied
<1>11. ChildrenOf(K, n, R) BY <1>4, <1>8 DEF ChildrenOf
<1> HIDE DEF out, r, R, G, B
<1>12. N[n] = Del(K[n], i) /\ (\A m \in Nodes : m # n => N[m] = K[m]) /\ N \in [Nodes -> Seq(Nodes)]
  BY <1>2, <1>6 DEF Held
<1> HIDE DEF N
<1>13. /\ n \notin G /\ \A m \in G : \A y : Has(K[m], y) => y \in G
       /\ \A m \in Nodes : m \notin G => \A y : Has(K[m], y) /\ y \in G => m = n /\ y \in R
       /\ G \in SUBSET Nodes
  BY <1>1, <1>9, <1>11, UnderOwned
<1>14. AllUnder(N, R, G)
  <2>1. \A m \in Down(K, c) : N[m] = K[m] BY <1>12, <1>13 DEF G
  <2>2. Down(N, c) = Down(K, c) BY <2>1, <1>2, <1>4, <1>12, DownSame
  <2> QED BY <2>2, <1>8 DEF AllUnder, G
<1>15. /\ t = [kind |-> links.kind, parent |-> [links.parent EXCEPT ![c] = Null], kids |-> out, made |-> links.made, attrs |-> links.attrs]
       /\ t \in Trees
  <2> DEFINE parent == [links.parent EXCEPT ![c] = Null]
  <2>1. out \in Lists(Nodes) BY <1>6 DEF Held
  <2>2. parent \in [Nodes -> Nodes \union {Null}] BY <1>2, <1>4 DEF Trees
  <2>3. t = [kind |-> links.kind, parent |-> parent, kids |-> out, made |-> links.made, attrs |-> links.attrs]
    <3> DEFINE u == links
    <3>1. u = [kind |-> u.kind, parent |-> u.parent, kids |-> u.kids, made |-> u.made, attrs |-> u.attrs]
      BY <1>2 DEF Trees
    <3>2. t = [u EXCEPT !.kids = out, !.parent = parent] BY <1>2 DEF Trees
    <3> HIDE DEF u, t, parent
    <3>3. t = [kind |-> u.kind, parent |-> parent, kids |-> out, made |-> u.made, attrs |-> u.attrs]
      BY <3>1, <3>2
    <3> QED BY <3>3 DEF u
  <2> HIDE DEF t, parent
  <2>4. t \in Trees BY <2>1, <2>2, <2>3, <1>2 DEF Trees
  <2> QED BY <2>3, <2>4 DEF parent
<1> HIDE DEF t
<1>16. /\ t.kind = links.kind /\ (\A m \in Nodes : m # c => t.parent[m] = links.parent[m]) /\ t.kids = out
       /\ t.made = links.made /\ t.attrs = links.attrs /\ t \in Trees
  BY <1>2, <1>15 DEF Trees
<1>17. Gone(t, r, A, G) /\ Cleared(t.kids, r.kids, Nodes, G, G) /\ Held(r.attrs, Attributes, B)
  <2>1. t \in Trees /\ Held(t.kids, Nodes, N) /\ Held(t.attrs, Attributes, A) BY <1>2, <1>6, <1>16
  <2> QED BY ONLY <2>1, <1>7, <1>8, <1>14, <1>10, DestroyedIs
<1>18. c \in G /\ \A x \in R : x \in G
  <2>1. Closed(K, c, Down(K, c)) BY <1>2, <1>4, DownIsClosed
  <2> QED BY <2>1, <1>8 DEF G, Closed
<1>19. Gone(links, r, A, G) BY <1>16, <1>17, <1>18 DEF Gone
<1>20. \A m \in Nodes : \A y : Has(N[m], y) <=> y # c /\ Has(K[m], y)
  <2> SUFFICES ASSUME NEW m \in Nodes PROVE \A y : Has(N[m], y) <=> y # c /\ Has(K[m], y) OBVIOUS
  <2>1. CASE m = n
    <3>1. K[n] \in Seq(Nodes) /\ Distinct(K[n]) BY <1>2
    <3>2. \A y : Has(Del(K[n], i), y) <=> y # K[n][i] /\ Has(K[n], y) BY <3>1, DelHas DEF Distinct
    <3> QED BY <2>1, <3>2, <1>5, <1>12
  <2>2. CASE m # n
    <3>1. ~Has(K[m], c) BY <2>2, <1>1, <1>4 DEF Tree, Parents, Has
    <3> QED BY <2>2, <3>1, <1>12
  <2> QED BY <2>1, <2>2
<1> DEFINE L == [o \in Nodes |-> IF o \in G THEN <<>> ELSE N[o]]
<1>21. Emptied(N, L, Nodes, G)
  <2>1. <<>> \in Seq(Nodes) OBVIOUS
  <2> QED BY <2>1, <1>12 DEF Emptied
<1> HIDE DEF L
<1>22. Held(r.kids, Nodes, L)
  <2> DEFINE l == r.kids
  <2>1. Cleared(out, l, Nodes, G, G) BY <1>16, <1>17
  <2>2. Owned(N, Nodes, G, G) BY <1>8, <1>13, <1>20, <1>18 DEF Owned
  <2> HIDE DEF l
  <2>3. Held(l, Nodes, L) BY <2>1, <2>2, <1>6, <1>13, <1>21, WhatIsListed, ClearedHeld
  <2> QED BY <2>3 DEF l
<1>23. \A m \in Nodes : m # n => L[m] = IF m \in G THEN <<>> ELSE K[m] BY <1>12, <1>21 DEF Emptied
<1>24. Ordered!SameBut(L[n], K[n], R) /\ ToSet(L[n]) = ToSet(K[n]) \ R
  <2>1. L[n] = Del(K[n], i) BY <1>12, <1>13, <1>21 DEF Emptied
  <2> DEFINE s == K[n]
  <2>2. s \in Seq(Nodes) /\ Distinct(s) /\ i \in 1 .. Len(s) BY <1>2
  <2>3. Distinct(Del(s, i))
    <3>1. Distinct(N[n]) BY <1>6, DistinctLists
    <3> QED BY <3>1, <1>12
  <2> HIDE DEF s
  <2>4. Ordered!SameBut(Del(s, i), s, {s[i]}) /\ ToSet(Del(s, i)) = ToSet(s) \ {s[i]} BY <2>2, <2>3, DeletedSame
  <2> QED BY <2>1, <2>4, <1>5, <1>8 DEF s
<1>25. Held(links'.kids, Nodes, L) /\ Held(links'.attrs, Attributes, B) /\ Gone(links, links', A, G)
  BY <1>17, <1>19, <1>22 DEF r
<1>26. \A x \in R : Has(K[n], x) BY <1>4, <1>8
<1> QED BY ONLY n \in Nodes, <1>0, <1>1, <1>8, <1>9, <1>10, <1>23, <1>24, <1>25, <1>26, DropsNodes

\* The table h leads from v0 by n steps of S.
Iterated(h, n, V, v0, S) ==
  h \in [0 .. n -> V] /\ h[0] = v0 /\ \A k \in 1 .. n : h[k] = S[h[k - 1]]

\* A step can be taken n times.
LEMMA Iteration ==
  ASSUME NEW n \in Nat, NEW V, NEW v0 \in V, NEW S \in [V -> V]
  PROVE  \E h : Iterated(h, n, V, v0, S)
<1> DEFINE D == [p \in V \X (1 .. n) |-> S[p[1]]]
<1>1. D \in [V \X (1 .. n) -> V] OBVIOUS
<1>2. PICK h : Follows(h, n, V, v0, D)
  <2> HIDE DEF D
  <2> QED BY <1>1, Recursion
<1>3. h \in [0 .. n -> V] /\ h[0] = v0 /\ \A k \in 1 .. n : h[k] = D[<<h[k - 1], k>>] BY <1>2 DEF Follows
<1>4. ASSUME NEW k \in 1 .. n PROVE h[k] = S[h[k - 1]]
  <2>1. k - 1 \in 0 .. n OBVIOUS
  <2>2. h[k - 1] \in V BY <1>3, <2>1
  <2>3. <<h[k - 1], k>> \in V \X (1 .. n) BY <2>2
  <2> QED BY <1>3, <2>3
<1> QED BY <1>3, <1>4 DEF Iterated

\* What copying k attributes to d makes of t: B are its attributes then.
Richer(t, u, K, A, B, d, k) ==
  /\ Tree(u, K, B) /\ u.kind = t.kind /\ u.parent = t.parent /\ u.kids = t.kids
  /\ \A m \in Nodes : m # d => B[m] = A[m]
  /\ Cardinality(u.made) <= Cardinality(t.made) + k
  /\ Cardinality(t.made) + k <= MaxAttributes => Len(B[d]) = Len(A[d]) + k

\* The attributes that are allocated are finitely many.
LEMMA MadeFinite ==
  ASSUME NEW t \in Trees
  PROVE  /\ IsFiniteSet(t.made) /\ Cardinality(t.made) \in Nat /\ Cardinality(t.made) <= MaxAttributes
         /\ (SpareAttributes(t) = {} => Cardinality(t.made) = MaxAttributes)
<1>1. MaxAttributes \in Nat BY TreeAssumption
<1>2. IsFiniteSet(Attributes) /\ Cardinality(Attributes) = MaxAttributes
  <2>1. IsFiniteSet(1 .. MaxAttributes) /\ Cardinality(1 .. MaxAttributes) = MaxAttributes BY <1>1, FS_Interval
  <2> QED BY <2>1 DEF Attributes
<1>3. t.made \subseteq Attributes BY DEF Trees
<1>4. IsFiniteSet(t.made) /\ Cardinality(t.made) <= Cardinality(Attributes) BY <1>2, <1>3, FS_Subset
<1>5. Cardinality(t.made) \in Nat BY <1>4, FS_CardinalityType
<1>6. SpareAttributes(t) = {} => t.made = Attributes BY <1>3 DEF SpareAttributes
<1> QED BY <1>2, <1>4, <1>5, <1>6

CopyOne(u, d) == IF SpareAttributes(u) = {} THEN u ELSE WithAttribute(u, d, <<"last">>)

\* One more attribute is copied, when memory has one.
LEMMA RicherStep ==
  ASSUME NEW t, NEW K, NEW A, Tree(t, K, A), NEW d \in Nodes, IsNode(t, d),
         NEW k \in Nat, NEW u, NEW B, Richer(t, u, K, A, B, d, k)
  PROVE  \E C : Richer(t, CopyOne(u, d), K, A, C, d, k + 1)
<1>1. /\ Tree(u, K, B) /\ u.kind = t.kind /\ u.parent = t.parent /\ u.kids = t.kids
      /\ \A m \in Nodes : m # d => B[m] = A[m]
      /\ Cardinality(u.made) <= Cardinality(t.made) + k
      /\ Cardinality(t.made) + k <= MaxAttributes => Len(B[d]) = Len(A[d]) + k
  BY DEF Richer
<1>2. /\ u \in Trees /\ t \in Trees /\ B \in [Nodes -> Seq(Attributes)] /\ A \in [Nodes -> Seq(Attributes)]
  BY <1>1, TreeTyped
<1>3. Len(A[d]) \in Nat /\ Len(B[d]) \in Nat /\ B[d] \in Seq(Attributes) /\ MaxAttributes \in Nat
  <2>1. A[d] \in Seq(Attributes) /\ B[d] \in Seq(Attributes) BY <1>2
  <2> QED BY <2>1, TreeAssumption
<1>4. /\ Cardinality(t.made) \in Nat /\ Cardinality(u.made) \in Nat /\ IsFiniteSet(u.made)
      /\ (SpareAttributes(u) = {} => Cardinality(u.made) = MaxAttributes)
  BY <1>2, MadeFinite
<1> DEFINE x == Cardinality(t.made)
           y == Cardinality(u.made)
<1>5. CASE SpareAttributes(u) = {}
  <2>1. CopyOne(u, d) = u BY <1>5 DEF CopyOne
  <2>2. x \in Nat /\ y \in Nat /\ y <= x + k /\ y = MaxAttributes BY <1>1, <1>4, <1>5
  <2> HIDE DEF x, y
  <2>3. y <= x + (k + 1) /\ ~(x + (k + 1) <= MaxAttributes) BY <2>2, <1>3
  <2>4. Richer(t, u, K, A, B, d, k + 1) BY <2>3, <1>1 DEF Richer, x, y
  <2> QED BY <2>1, <2>4
<1>6. CASE SpareAttributes(u) # {}
  <2> DEFINE a == Least(SpareAttributes(u))
             place == <<"last">>
             r == WithAttribute(u, d, place)
  <2>0. Place(B[d], place) BY DEF Place
  <2>1. IsNode(u, d) BY <1>1 DEF IsNode
  <2>2. /\ a \in Attributes /\ a \notin u.made
        /\ \E i : GrownAttribute(u, r, B, d, a, i) /\ Tree(r, K, [B EXCEPT ![d] = Ins(B[d], i, a)])
                  /\ (place = <<"last">> => i = Len(B[d]) + 1)
    <3> HIDE DEF place
    <3>1. Tree(u, K, B) /\ SpareAttributes(u) # {} /\ d \in Nodes BY <1>1, <1>6
    <3> QED BY ONLY <3>1, <2>0, <2>1, WithAttributeIs, Zenon
  <2> HIDE DEF a, r
  <2>3. PICK i : GrownAttribute(u, r, B, d, a, i) /\ Tree(r, K, [B EXCEPT ![d] = Ins(B[d], i, a)]) /\ i = Len(B[d]) + 1
    BY <2>2
  <2> DEFINE C == [B EXCEPT ![d] = Ins(B[d], i, a)]
  <2>4. C[d] = Ins(B[d], i, a) /\ \A m \in Nodes : m # d => C[m] = B[m] BY <1>2
  <2>5. Tree(r, K, C) BY <2>3
  <2> HIDE DEF C
  <2>6. r.kind = u.kind /\ r.parent = u.parent /\ r.kids = u.kids /\ r.made = u.made \union {a} /\ i \in 1 .. Len(B[d]) + 1
    BY <2>3 DEF GrownAttribute
  <2>7. Len(C[d]) = Len(B[d]) + 1 BY <2>2, <2>4, <2>6, <1>3, InsType
  <2>8. Cardinality(r.made) = y + 1
    <3>1. Cardinality(u.made \union {a}) = Cardinality(u.made) + 1 BY <2>2, <1>4, FS_AddElement
    <3> QED BY <3>1, <2>6
  <2>9. Richer(t, r, K, A, C, d, k + 1)
    <3> DEFINE z == Cardinality(r.made)
               b == Len(B[d])
               c == Len(C[d])
               e == Len(A[d])
    <3>1. x \in Nat /\ y \in Nat /\ y <= x + k /\ z = y + 1 /\ c = b + 1 /\ b \in Nat /\ e \in Nat
          /\ (x + k <= MaxAttributes => b = e + k)
      BY <1>1, <1>3, <1>4, <2>7, <2>8
    <3> HIDE DEF x, y, z, b, c, e
    <3>2. z <= x + (k + 1) /\ (x + (k + 1) <= MaxAttributes => c = e + (k + 1)) BY <3>1, <1>3
    <3>3. \A m \in Nodes : m # d => C[m] = A[m] BY <1>1, <2>4
    <3> QED BY <3>2, <3>3, <2>5, <2>6, <1>1 DEF Richer, x, z, c, e
  <2>10. CopyOne(u, d) = r BY <1>6 DEF CopyOne, r
  <2> QED BY <2>9, <2>10
<1> QED BY <1>5, <1>6

\* node_copy_contents copies as many attributes as the source has and memory allows.
LEMMA CopyContentsIs ==
  ASSUME NEW t, NEW K, NEW A, Tree(t, K, A), NEW d \in Nodes, IsNode(t, d), NEW s \in Nodes
  PROVE  Len(A[s]) \in Nat /\ \E B : Richer(t, CopyContents(t, d, s), K, A, B, d, Len(A[s]))
<1> DEFINE n == MaxListed
           F(h) == [k \in 0 .. MaxListed |-> IF k = 0 THEN t ELSE
                      LET u == h[k - 1] IN IF SpareAttributes(u) = {} THEN u ELSE WithAttribute(u, d, <<"last">>)]
           V == {u \in Trees : \E k \in Nat : \E B : Richer(t, u, K, A, B, d, k)}
           S == [u \in V |-> CopyOne(u, d)]
<1>1. n \in Nat BY WhatIsListed
<1>2. t \in Trees /\ A \in [Nodes -> Seq(Attributes)] BY TreeTyped
<1>3. Richer(t, t, K, A, A, d, 0)
  <2>1. Cardinality(t.made) \in Nat BY <1>2, MadeFinite
  <2>2. Len(A[d]) \in Nat
    <3>1. A[d] \in Seq(Attributes) BY <1>2
    <3> QED BY <3>1
  <2>3. Cardinality(t.made) <= Cardinality(t.made) + 0 /\ Len(A[d]) = Len(A[d]) + 0
    <3> DEFINE x == Cardinality(t.made)
               y == Len(A[d])
    <3> HIDE DEF x, y
    <3>1. x \in Nat /\ y \in Nat => x <= x + 0 /\ y = y + 0 OBVIOUS
    <3> QED BY <3>1, <2>1, <2>2 DEF x, y
  <2> QED BY <2>3 DEF Richer
<1>4. t \in V BY <1>2, <1>3
<1>5. S \in [V -> V]
  <2> SUFFICES ASSUME NEW u \in V PROVE CopyOne(u, d) \in V OBVIOUS
  <2>0. PICK k \in Nat : \E B : Richer(t, u, K, A, B, d, k) OBVIOUS
  <2>1. PICK B : Richer(t, u, K, A, B, d, k) BY <2>0
  <2>2. PICK C : Richer(t, CopyOne(u, d), K, A, C, d, k + 1) BY <2>1, RicherStep
  <2>3. CopyOne(u, d) \in Trees BY <2>2, TreeTyped DEF Richer
  <2> QED BY <2>2, <2>3
<1>6. \E h : h = F(h)
  <2> HIDE DEF V, S
  <2>0. PICK h : Iterated(h, n, V, t, S) BY ONLY <1>1, <1>4, <1>5, Iteration, Zenon
  <2>1. h \in [0 .. n -> V] /\ h[0] = t /\ \A k \in 1 .. n : h[k] = S[h[k - 1]] BY <2>0 DEF Iterated
  <2>2. ASSUME NEW k \in 0 .. n PROVE h[k] = IF k = 0 THEN t ELSE CopyOne(h[k - 1], d)
    <3>1. CASE k = 0 BY <3>1, <2>1
    <3>2. CASE k # 0
      <4>1. k \in 1 .. n /\ k - 1 \in 0 .. n BY <3>2, <1>1
      <4>2. h[k - 1] \in V BY <2>1, <4>1
      <4>3. S[h[k - 1]] = CopyOne(h[k - 1], d) BY <4>2 DEF S
      <4> QED BY <3>2, <4>1, <4>3, <2>1
    <3> QED BY <3>1, <3>2
  <2>3. h = [k \in 0 .. n |-> h[k]] BY <2>1
  <2>4. h = [k \in 0 .. n |-> IF k = 0 THEN t ELSE CopyOne(h[k - 1], d)] BY <2>2, <2>3
  <2>5. F(h) = [k \in 0 .. n |-> IF k = 0 THEN t ELSE CopyOne(h[k - 1], d)] BY Zenon DEF CopyOne
  <2>6. h = F(h) BY <2>4, <2>5
  <2> HIDE DEF F
  <2> QED BY <2>6
<1> DEFINE f == CHOOSE h : h = F(h)
<1>7. f = F(f)
  <2> HIDE DEF F
  <2> QED BY <1>6
<1>8. CopyContents(t, d, s) = f[Len(ListOf(t.attrs, s))] BY DEF CopyContents
<1>9. f[0] = t /\ \A k \in 1 .. n : f[k] = CopyOne(f[k - 1], d)
  <2> HIDE DEF f
  <2>1. f = [k \in 0 .. n |-> IF k = 0 THEN t ELSE CopyOne(f[k - 1], d)] BY <1>7, Zenon DEF CopyOne
  <2> HIDE DEF F, n
  <2>2. \A k \in 0 .. n : f[k] = IF k = 0 THEN t ELSE CopyOne(f[k - 1], d) BY <2>1, Zenon
  <2>3. 0 \in 0 .. n /\ \A k \in 1 .. n : k \in 0 .. n /\ k # 0 BY <1>1
  <2> QED BY <2>2, <2>3
<1> HIDE DEF f, F, V, S
<1>10. \A k \in Nat : k <= n => \E B : Richer(t, f[k], K, A, B, d, k)
  <2> DEFINE T == {k \in Nat : k <= n => \E B : Richer(t, f[k], K, A, B, d, k)}
  <2>1. 0 \in T BY <1>3, <1>9
  <2>2. ASSUME NEW k \in Nat, k \in T PROVE k + 1 \in T
    <3> SUFFICES ASSUME k + 1 <= n PROVE \E B : Richer(t, f[k + 1], K, A, B, d, k + 1) OBVIOUS
    <3>1. k <= n /\ k + 1 \in 1 .. n /\ (k + 1) - 1 = k BY <1>1
    <3>2. PICK B : Richer(t, f[k], K, A, B, d, k) BY <2>2, <3>1
    <3>3. f[k + 1] = CopyOne(f[k], d) BY <1>9, <3>1
    <3> DEFINE u == f[k]
    <3>4. Richer(t, u, K, A, B, d, k) BY <3>2
    <3> HIDE DEF u
    <3>5. \E C : Richer(t, CopyOne(u, d), K, A, C, d, k + 1) BY <3>4, RicherStep
    <3> QED BY <3>3, <3>5 DEF u
  <2> HIDE DEF T
  <2>3. \A k \in Nat : k \in T BY <2>1, <2>2, SetInduction
  <2> QED BY <2>3 DEF T
<1>11. ListOf(t.attrs, s) = A[s] /\ Len(A[s]) \in Nat /\ Len(A[s]) <= n
  <2>1. Held(t.attrs, Attributes, A) /\ Distinct(A[s]) BY TreeTyped
  <2>2. ListOf(t.attrs, s) = A[s] BY <2>1, WhatIsListed, ListIs
  <2> DEFINE z == A[s]
  <2>3. z \in Seq(Attributes) /\ \A i, j \in 1 .. Len(z) : z[i] = z[j] => i = j BY <2>1, <1>2 DEF Distinct
  <2> HIDE DEF z
  <2>4. Len(z) \in Nat /\ Len(z) <= n BY <2>3, WhatIsListed, ListsAreShort
  <2> QED BY <2>2, <2>4 DEF z
<1> QED BY <1>8, <1>10, <1>11

-----------------------------------------------------------------------------
(* The copying of a tree.  The job z is to copy what is under z.s to z.d,   *)
(* when z.d has been made and linked and the tree is z.t, with the lists    *)
(* z.kids and z.attrs; z.old are the children without z.d.                  *)

Job(z) ==
  /\ Tree(z.t, z.kids, z.attrs)
  /\ z.s \in Nodes /\ z.s # Root /\ IsNode(z.t, z.s) /\ z.s # z.d
  /\ z.d \in Nodes /\ IsNode(z.t, z.d) /\ Len(z.kids[z.d]) = 0 /\ Len(z.attrs[z.d]) = 0
  /\ z.t.kind[z.d] = z.t.kind[z.s]
  /\ z.old \in [Nodes -> Seq(Nodes)]
  /\ \A m \in Nodes : Distinct(z.old[m]) /\ InOrderOf(z.old[m], z.kids[m], {})
  /\ \A m \in Nodes : \A y : Has(z.kids[m], y) /\ y # z.d => Has(z.old[m], y)
  /\ \A m \in Nodes : \A y : Has(z.old[m], y) => Has(z.kids[m], y) /\ y # z.d

\* The nodes that were there before.
Before(z) == {m \in Nodes : IsNode(z.t, m) /\ m # z.d}
AttrsOf(z, Y) == {a \in Attributes : \E x \in Y : Has(z.attrs[x], a)}

\* f leads from a node to its copy.
HasCopy(f) == {x \in Nodes : f[x] # Null}
Mapped(z, f) ==
  /\ f \in [Nodes -> Nodes \union {Null}] /\ f[z.s] = z.d
  /\ \A x, y \in Nodes : f[x] # Null /\ f[x] = f[y] => x = y
  /\ \A x \in HasCopy(f) : x \in Before(z) /\ x \in Down(z.old, z.s)
  /\ \A x \in HasCopy(f) : x # z.s => z.t.parent[x] \in HasCopy(f)

Others(z, t, K, A) ==
  \A m \in Before(z) : t.kind[m] = z.t.kind[m] /\ A[m] = z.attrs[m] /\ K[m] = z.kids[m]

Copies(z, t, f) ==
  /\ \A m \in Nodes : IsNode(t, m) <=> m \in Before(z) \/ \E x \in HasCopy(f) : f[x] = m
  /\ \A x \in HasCopy(f) : f[x] \notin Before(z) /\ t.kind[f[x]] = z.t.kind[x]
  /\ \A x \in HasCopy(f) : x # z.s => t.parent[f[x]] = f[z.t.parent[x]]

Living(t) == {m \in Nodes : IsNode(t, m)}

\* Y are the nodes whose attributes have been copied.
Counted(z, t, f, Y) ==
  /\ Y \subseteq HasCopy(f)
  /\ Cardinality(Living(t)) <= Cardinality(Before(z)) + Cardinality(HasCopy(f))
  /\ Cardinality(t.made) <= Cardinality(z.t.made) + Cardinality(AttrsOf(z, Y))

Room(z) ==
  /\ Cardinality(Before(z)) + Cardinality(Down(z.old, z.s)) <= MaxNodes
  /\ Cardinality(z.t.made) + Cardinality(AttrsOf(z, Down(z.old, z.s))) <= MaxAttributes

\* The members of the list v are copies of the first of the list w.
CopiedPart(w, v, f) ==
  /\ Len(v) <= Len(w)
  /\ \A i \in 1 .. Len(v) : v[i] = f[w[i]]
  /\ \A i \in 1 .. Len(w) : f[w[i]] # Null <=> i <= Len(v)

Shaped(z, K, A, f, Y) ==
  /\ \A x \in HasCopy(f) : x \notin Y => Len(A[f[x]]) = 0
  /\ Room(z) => \A x \in Y : Len(A[f[x]]) = Len(z.attrs[x])
  /\ Room(z) => \A x \in HasCopy(f) : CopiedPart(z.old[x], K[f[x]], f)

Copying(z, t, K, A, f, Y) ==
  /\ Tree(t, K, A) /\ Mapped(z, f) /\ Others(z, t, K, A) /\ Copies(z, t, f)
  /\ Counted(z, t, f, Y) /\ Shaped(z, K, A, f, Y)

\* Sets of nodes are finite and no larger than there are nodes.
LEMMA NodesFinite ==
  ASSUME NEW S, S \subseteq Nodes
  PROVE  IsFiniteSet(S) /\ Cardinality(S) \in Nat /\ Cardinality(S) <= MaxNodes /\ (Cardinality(S) = MaxNodes => S = Nodes)
<1>1. MaxNodes \in Nat BY TreeAssumption
<1>2. IsFiniteSet(Nodes) /\ Cardinality(Nodes) = MaxNodes
  <2>1. IsFiniteSet(1 .. MaxNodes) /\ Cardinality(1 .. MaxNodes) = MaxNodes BY <1>1, FS_Interval
  <2> QED BY <2>1 DEF Nodes
<1>3. IsFiniteSet(S) /\ Cardinality(S) <= Cardinality(Nodes) /\ (Cardinality(Nodes) = Cardinality(S) => S = Nodes)
  BY <1>2, FS_Subset
<1>4. Cardinality(S) \in Nat BY <1>3, FS_CardinalityType
<1> QED BY <1>2, <1>3, <1>4

\* Sets of attributes are finite and no larger than there are attributes.
LEMMA AttributesFinite ==
  ASSUME NEW S, S \subseteq Attributes
  PROVE  IsFiniteSet(S) /\ Cardinality(S) \in Nat
<1>1. MaxAttributes \in Nat BY TreeAssumption
<1>2. IsFiniteSet(1 .. MaxAttributes) BY <1>1, FS_Interval
<1>3. IsFiniteSet(S) BY <1>2, FS_Subset DEF Attributes
<1> QED BY <1>3, FS_CardinalityType

\* What the job says of the trees.
LEMMA JobIs ==
  ASSUME NEW z, Job(z)
  PROVE  /\ z.t \in Trees /\ z.kids \in [Nodes -> Seq(Nodes)] /\ z.attrs \in [Nodes -> Seq(Attributes)]
         /\ z.d # Root /\ Before(z) \subseteq Nodes /\ z.s \in Before(z)
         /\ \A m \in Nodes : \A y : Has(z.old[m], y) => y \in Before(z) /\ z.t.parent[y] = m /\ y # Root
         /\ \A y \in Before(z) : y # Root => z.t.parent[y] \in Nodes /\ Has(z.old[z.t.parent[y]], y)
         /\ \A m \in Nodes : \A y : Has(z.kids[m], y) => y \in Nodes /\ z.t.parent[y] = m /\ IsNode(z.t, y) /\ y # Root
<1>1. z.t \in Trees /\ z.kids \in [Nodes -> Seq(Nodes)] /\ z.attrs \in [Nodes -> Seq(Attributes)] /\ Parents(z.t, z.kids)
  BY DEF Job, Tree, Held
<1>2. z.d # Root
  <2>1. \A n \in Nodes : z.t.kind[n] = "document" <=> n = Root BY DEF Job, Tree
  <2> QED BY <2>1 DEF Job
<1>3. \A m \in Nodes : \A y : Has(z.kids[m], y) => y \in Nodes /\ z.t.parent[y] = m /\ IsNode(z.t, y) /\ y # Root
  <2>1. \A m \in Nodes : \A y : Has(z.kids[m], y) => y \in Nodes BY <1>1, HasType
  <2> QED BY <2>1, <1>1 DEF Parents, Has
<1>4. \A m \in Nodes : \A y : Has(z.old[m], y) => y \in Before(z) /\ z.t.parent[y] = m /\ y # Root
  BY <1>3 DEF Job, Before
<1>5. \A y \in Before(z) : y # Root => z.t.parent[y] \in Nodes /\ Has(z.old[z.t.parent[y]], y)
  BY <1>1 DEF Parents, Before, Job
<1>6. Before(z) \subseteq Nodes /\ z.s \in Before(z) BY DEF Before, Job
<1> QED BY <1>1, <1>2, <1>3, <1>4, <1>5, <1>6

\* The source of the copy is not under anything that is under it.
LEMMA SourceIsTop ==
  ASSUME NEW z, Job(z)
  PROVE  /\ z.t.parent[z.s] \notin Down(z.old, z.s)
         /\ Down(z.old, z.s) \subseteq Down(z.kids, z.s)
         /\ Closed(z.old, z.s, Down(z.old, z.s))
<1>1. z.kids \in [Nodes -> Seq(Nodes)] /\ z.old \in [Nodes -> Seq(Nodes)] /\ z.s \in Nodes BY JobIs DEF Job
<1>2. Closed(z.kids, z.s, Down(z.kids, z.s)) BY <1>1, DownIsClosed
<1>3. Closed(z.old, z.s, Down(z.kids, z.s))
  <2>1. \A m \in Nodes : \A y : Has(z.old[m], y) => Has(z.kids[m], y) BY DEF Job
  <2>2. /\ Down(z.kids, z.s) \subseteq Nodes /\ z.s \in Down(z.kids, z.s)
        /\ \A m \in Down(z.kids, z.s) : \A y : Has(z.kids[m], y) => y \in Down(z.kids, z.s)
    BY <1>2 DEF Closed, Has
  <2>3. \A m \in Down(z.kids, z.s) : \A y : Has(z.old[m], y) => y \in Down(z.kids, z.s) BY <2>1, <2>2
  <2>4. \A m \in Down(z.kids, z.s) : \A i \in 1 .. Len(z.old[m]) : z.old[m][i] \in Down(z.kids, z.s)
    BY <2>3 DEF Has
  <2> QED BY <2>2, <2>4 DEF Closed
<1>4. Down(z.kids, z.s) \in SUBSET Nodes BY DEF Down
<1>5. Down(z.old, z.s) \subseteq Down(z.kids, z.s) /\ Closed(z.old, z.s, Down(z.old, z.s)) BY <1>1, <1>3, <1>4, DownIsClosed
<1>6. z.t.parent[z.s] \notin Down(z.kids, z.s)
  <2>1. Tree(z.t, z.kids, z.attrs) /\ IsNode(z.t, z.s) /\ z.s # Root BY DEF Job
  <2> QED BY <2>1, <1>1, NotUnderItself
<1> QED BY <1>5, <1>6

\* A member is added to the part that has been copied, when it is the next one.
LEMMA CopiedPartGrows ==
  ASSUME NEW w \in Seq(Nodes), Distinct(w), NEW v \in Seq(Nodes), NEW f \in [Nodes -> Nodes \union {Null}],
         CopiedPart(w, v, f), NEW x \in Nodes, f[x] = Null, NEW c \in Nodes, Has(w, x),
         \A i, j \in 1 .. Len(w) : w[j] = x /\ i < j => f[w[i]] # Null
  PROVE  CopiedPart(w, Ins(v, Len(v) + 1, c), [f EXCEPT ![x] = c])
<1> DEFINE g == [f EXCEPT ![x] = c]
           m == Len(v)
           n == Len(w)
           u == Ins(v, m + 1, c)
<1>1. m \in Nat /\ n \in Nat /\ c # Null /\ (\A i \in 1 .. n : w[i] \in Nodes) BY RootIsNode
<1>2. g[x] = c /\ \A y \in Nodes : y # x => g[y] = f[y] OBVIOUS
<1>3. m <= n /\ (\A i \in 1 .. m : v[i] = f[w[i]]) /\ \A i \in 1 .. n : f[w[i]] # Null <=> i <= m BY DEF CopiedPart
<1>4. Len(u) = m + 1 /\ \A i \in 1 .. m + 1 : u[i] = IF i < m + 1 THEN v[i] ELSE c
  <2>1. m + 1 \in 1 .. m + 1 BY <1>1
  <2>2. Len(u) = m + 1 /\ \A i \in 1 .. m + 1 : u[i] = IF i < m + 1 THEN v[i] ELSE IF i = m + 1 THEN c ELSE v[i - 1]
    BY <2>1, InsType
  <2> HIDE DEF u, m
  <2> QED BY <2>2, <1>1
<1>5. PICK j \in 1 .. n : w[j] = x BY DEF Has
<1>6. \A i \in 1 .. n : w[i] = x => i = j BY <1>5 DEF Distinct
<1> HIDE DEF g, u, m, n
<1>7. j = m + 1
  <2>1. ~(j <= m) BY <1>3, <1>5
  <2>2. \A i \in 1 .. n : i < j => i <= m BY <1>3, <1>5 DEF n
  <2>3. ASSUME j > m + 1 PROVE FALSE
    <3>1. m + 1 \in 1 .. n /\ m + 1 < j BY <2>3, <1>1, <1>5
    <3>2. m + 1 <= m BY <3>1, <2>2
    <3> QED BY <3>2, <1>1
  <2> QED BY <2>1, <2>3, <1>1, <1>5
<1>8. m + 1 <= n BY <1>5, <1>7, <1>1
<1>9. \A i \in 1 .. m + 1 : u[i] = g[w[i]]
  <2> SUFFICES ASSUME NEW i \in 1 .. m + 1 PROVE u[i] = g[w[i]] OBVIOUS
  <2>1. CASE i = m + 1 BY <2>1, <1>1, <1>2, <1>4, <1>5, <1>7
  <2>2. CASE i # m + 1
    <3>1. i \in 1 .. m /\ i \in 1 .. n /\ i < m + 1 /\ i # j BY <2>2, <1>1, <1>3, <1>7
    <3>2. w[i] # x /\ w[i] \in Nodes BY <3>1, <1>1, <1>6
    <3> QED BY <3>1, <3>2, <1>2, <1>3, <1>4
  <2> QED BY <2>1, <2>2
<1>10. \A i \in 1 .. n : g[w[i]] # Null <=> i <= m + 1
  <2> SUFFICES ASSUME NEW i \in 1 .. n PROVE g[w[i]] # Null <=> i <= m + 1 OBVIOUS
  <2>1. CASE i = j BY <2>1, <1>1, <1>2, <1>5, <1>7
  <2>2. CASE i # j
    <3>1. w[i] # x /\ w[i] \in Nodes BY <2>2, <1>1, <1>6
    <3>2. g[w[i]] # Null <=> i <= m BY <3>1, <1>2, <1>3
    <3>3. i <= m <=> i <= m + 1 BY <2>2, <1>1, <1>7
    <3> QED BY <3>2, <3>3
  <2> QED BY <2>1, <2>2
<1> QED BY <1>4, <1>8, <1>9, <1>10 DEF CopiedPart, n, g, u, m

\* The node x is the next of its list to be copied, and nothing of it has been yet.
NextToCopy(z, f, x) ==
  /\ x \in Before(z) /\ x # z.s /\ f[x] = Null /\ x # Root
  /\ z.t.parent[x] \in HasCopy(f)
  /\ Room(z) => LET w == z.old[z.t.parent[x]] IN \A i, j \in 1 .. Len(w) : w[j] = x /\ i < j => f[w[i]] # Null

\* The next copy is linked last under the copy of the parent: what has been copied grows by it.
LEMMA LinkCopy ==
  ASSUME NEW z, Job(z), NEW t, NEW K, NEW A, NEW f, NEW Y, Copying(z, t, K, A, f, Y),
         NEW x, NextToCopy(z, f, x), SpareNodes(t) # {}
  PROVE  LET c == Least(SpareNodes(t)) IN
         /\ c \in Nodes
         /\ \E L : Copying(z, WithNode(t, t.kind[x], f[z.t.parent[x]], <<"last">>), L, A, [f EXCEPT ![x] = c], Y)
<1> DEFINE c == Least(SpareNodes(t))
           q == z.t.parent[x]
           p == f[q]
           k == t.kind[x]
           place == <<"last">>
           u == WithNode(t, k, p, place)
           g == [f EXCEPT ![x] = c]
<1>1. Tree(t, K, A) /\ Mapped(z, f) /\ Others(z, t, K, A) /\ Copies(z, t, f) /\ Counted(z, t, f, Y) /\ Shaped(z, K, A, f, Y)
  BY DEF Copying
<1>2. /\ f \in [Nodes -> Nodes \union {Null}] /\ f[z.s] = z.d
      /\ \A y, m \in Nodes : f[y] # Null /\ f[y] = f[m] => y = m
      /\ \A y \in HasCopy(f) : y \in Before(z) /\ y \in Down(z.old, z.s) /\ y \in Nodes /\ f[y] # Null
      /\ \A y \in HasCopy(f) : y # z.s => z.t.parent[y] \in HasCopy(f)
      /\ \A y \in Nodes : f[y] # Null => y \in HasCopy(f)
  BY <1>1 DEF Mapped, HasCopy
<1>3. /\ \A m \in Nodes : IsNode(t, m) <=> m \in Before(z) \/ \E y \in HasCopy(f) : f[y] = m
      /\ \A y \in HasCopy(f) : f[y] \notin Before(z) /\ t.kind[f[y]] = z.t.kind[y]
      /\ \A y \in HasCopy(f) : y # z.s => t.parent[f[y]] = f[z.t.parent[y]]
  BY <1>1 DEF Copies
<1>4. /\ t \in Trees /\ K \in [Nodes -> Seq(Nodes)] /\ A \in [Nodes -> Seq(Attributes)] BY <1>1, TreeTyped
<1>5. x \in Before(z) /\ x \in Nodes /\ x # z.s /\ f[x] = Null /\ x # Root /\ q \in HasCopy(f)
      /\ IsNode(z.t, x)
  BY DEF NextToCopy, Before
<1>6. q \in Nodes /\ p \in Nodes /\ p \notin Before(z) /\ IsNode(t, p) /\ q # x /\ Has(z.old[q], x)
  <2>1. q \in Nodes /\ q # x /\ p \in Nodes BY <1>2, <1>5
  <2>2. Has(z.old[q], x) BY <1>5, JobIs
  <2> QED BY <2>1, <2>2, <1>3, <1>5
<1>7. k \in NewKinds /\ k = z.t.kind[x]
  <2>1. k = z.t.kind[x] BY <1>1, <1>5 DEF Others
  <2>2. z.t.kind[x] \in Kinds /\ z.t.kind[x] # "document"
    <3>1. Tree(z.t, z.kids, z.attrs) BY DEF Job
    <3>2. \A n \in Nodes : z.t.kind[n] = "document" <=> n = Root BY <3>1 DEF Tree
    <3>3. z.t \in Trees BY <3>1, TreeTyped
    <3> QED BY <3>2, <3>3, <1>5 DEF Trees
  <2>3. z.t.kind[x] # "free" BY <1>5 DEF IsNode
  <2> QED BY <2>1, <2>2, <2>3 DEF Kinds
<1> HIDE DEF q, p, k
<1>8. /\ c \in Nodes /\ ~IsNode(t, c)
      /\ \E i : Grown(t, u, K, k, p, c, i) /\ Tree(u, [K EXCEPT ![p] = Ins(K[p], i, c)], A) /\ (place = <<"last">> => i = Len(K[p]) + 1)
  <2>1. Place(K[p], place) BY DEF Place
  <2> HIDE DEF place
  <2>2. Tree(t, K, A) BY <1>1
  <2>3. SpareNodes(t) # {} OBVIOUS
  <2>4. k \in NewKinds /\ p \in Nodes /\ IsNode(t, p) BY <1>6, <1>7
  <2> QED BY ONLY <2>1, <2>2, <2>3, <2>4, WithNodeIs
<1> HIDE DEF u, c
<1>9. PICK i : Grown(t, u, K, k, p, c, i) /\ Tree(u, [K EXCEPT ![p] = Ins(K[p], i, c)], A) /\ i = Len(K[p]) + 1 BY <1>8
<1> DEFINE L == [K EXCEPT ![p] = Ins(K[p], i, c)]
<1>10. L[p] = Ins(K[p], Len(K[p]) + 1, c) /\ \A m \in Nodes : m # p => L[m] = K[m] BY <1>4, <1>6, <1>9
<1>11. Tree(u, L, A) BY <1>9
<1>12. /\ u.kind = [t.kind EXCEPT ![c] = k] /\ u.made = t.made /\ u.parent = [t.parent EXCEPT ![c] = p]
       /\ t.kind \in [Nodes -> Kinds] /\ t.parent \in [Nodes -> Nodes \union {Null}]
  BY <1>4, <1>9 DEF Grown, Trees
<1>13. /\ u.kind[c] = k /\ u.parent[c] = p
       /\ \A m \in Nodes : m # c => u.kind[m] = t.kind[m] /\ u.parent[m] = t.parent[m]
  BY <1>8, <1>12
<1>14. g \in [Nodes -> Nodes \union {Null}] /\ g[x] = c /\ \A y \in Nodes : y # x => g[y] = f[y] BY <1>2, <1>5, <1>8
<1> HIDE DEF g, L
<1>15. c # Null /\ c \notin Before(z) /\ (\A y \in Nodes : f[y] # c) /\ c # p
  <2>1. c # Null BY <1>8, RootIsNode
  <2>2. c \notin Before(z) /\ \A y \in HasCopy(f) : f[y] # c BY <1>3, <1>8
  <2> QED BY <2>1, <2>2, <1>2, <1>6, <1>8
<1>16. HasCopy(g) = HasCopy(f) \union {x} /\ x \notin HasCopy(f)
  <2>1. \A y \in Nodes : g[y] # Null <=> f[y] # Null \/ y = x BY <1>14, <1>15
  <2>2. \A y : y \in HasCopy(g) <=> y \in HasCopy(f) \/ y = x BY <2>1, <1>5 DEF HasCopy
  <2> QED BY <2>2, <1>5 DEF HasCopy
<1>17. \A y \in HasCopy(f) : g[y] = f[y] /\ y # x /\ f[y] # c /\ f[y] \in Nodes BY <1>2, <1>5, <1>14, <1>15
<1>18. x \in Down(z.old, z.s)
  <2>1. q \in Down(z.old, z.s) BY <1>2, <1>5
  <2>2. Closed(z.old, z.s, Down(z.old, z.s)) BY SourceIsTop
  <2> QED BY <2>1, <2>2, <1>6 DEF Closed, Has
<1>19. Mapped(z, g)
  <2>1. \A y, m \in Nodes : g[y] # Null /\ g[y] = g[m] => y = m BY <1>2, <1>14, <1>15
  <2>2. \A y \in HasCopy(g) : y \in Before(z) /\ y \in Down(z.old, z.s) BY <1>2, <1>5, <1>16, <1>18
  <2>3. \A y \in HasCopy(g) : y # z.s => z.t.parent[y] \in HasCopy(g) BY <1>2, <1>5, <1>16 DEF q
  <2>4. g[z.s] = z.d BY <1>2, <1>5, <1>14, JobIs
  <2> QED BY <2>1, <2>2, <2>3, <2>4, <1>14 DEF Mapped
<1>20. Others(z, u, L, A)
  <2>1. \A m \in Before(z) : m \in Nodes /\ m # c /\ m # p BY <1>6, <1>15 DEF Before
  <2> QED BY <2>1, <1>1, <1>10, <1>13 DEF Others
<1>21. Copies(z, u, g)
  <2>1. \A m \in Nodes : IsNode(u, m) <=> IsNode(t, m) \/ m = c
    <3>1. k # "free" BY <1>7 DEF NewKinds
    <3> QED BY <3>1, <1>13 DEF IsNode
  <2>2. \A m \in Nodes : IsNode(u, m) <=> m \in Before(z) \/ \E y \in HasCopy(g) : g[y] = m
    <3> SUFFICES ASSUME NEW m \in Nodes PROVE IsNode(u, m) <=> m \in Before(z) \/ \E y \in HasCopy(g) : g[y] = m OBVIOUS
    <3>1. (\E y \in HasCopy(g) : g[y] = m) <=> m = c \/ \E y \in HasCopy(f) : f[y] = m BY <1>14, <1>16, <1>17
    <3> QED BY <3>1, <2>1, <1>3
  <2>3. \A y \in HasCopy(g) : g[y] \notin Before(z) /\ u.kind[g[y]] = z.t.kind[y]
    BY <1>3, <1>7, <1>13, <1>14, <1>15, <1>16, <1>17
  <2>4. \A y \in HasCopy(g) : y # z.s => u.parent[g[y]] = g[z.t.parent[y]]
    <3> SUFFICES ASSUME NEW y \in HasCopy(g), y # z.s PROVE u.parent[g[y]] = g[z.t.parent[y]] OBVIOUS
    <3>1. CASE y = x
      <4>1. g[q] = p BY <1>5, <1>17 DEF p
      <4> QED BY <3>1, <4>1, <1>13, <1>14 DEF q
    <3>2. CASE y # x
      <4>1. y \in HasCopy(f) /\ z.t.parent[y] \in HasCopy(f) BY <3>2, <1>2, <1>16
      <4>2. u.parent[f[y]] = f[z.t.parent[y]] BY <4>1, <1>3, <1>13, <1>17
      <4> QED BY <4>1, <4>2, <1>17
    <3> QED BY <3>1, <3>2
  <2> QED BY <2>2, <2>3, <2>4 DEF Copies
<1>22. Counted(z, u, g, Y)
  <2>1. /\ Y \subseteq HasCopy(f)
        /\ Cardinality(Living(t)) <= Cardinality(Before(z)) + Cardinality(HasCopy(f))
        /\ Cardinality(t.made) <= Cardinality(z.t.made) + Cardinality(AttrsOf(z, Y))
    BY <1>1 DEF Counted
  <2>2. Living(u) = Living(t) \union {c} /\ c \notin Living(t)
    <3>1. k # "free" BY <1>7 DEF NewKinds
    <3>2. \A m \in Nodes : IsNode(u, m) <=> IsNode(t, m) \/ m = c BY <3>1, <1>13 DEF IsNode
    <3>3. \A m : m \in Living(u) <=> m \in Living(t) \/ m = c BY <3>2, <1>8 DEF Living
    <3> QED BY <3>3, <1>8 DEF Living
  <2> DEFINE a == Cardinality(Living(t))
             b == Cardinality(HasCopy(f))
             e == Cardinality(Before(z))
  <2>3. IsFiniteSet(Living(t)) /\ IsFiniteSet(HasCopy(f)) /\ a \in Nat /\ b \in Nat /\ e \in Nat
    <3>1. Living(t) \subseteq Nodes /\ HasCopy(f) \subseteq Nodes /\ Before(z) \subseteq Nodes BY DEF Living, HasCopy, Before
    <3> QED BY <3>1, NodesFinite
  <2>4. Cardinality(Living(u)) = a + 1 /\ Cardinality(HasCopy(g)) = b + 1
    <3>1. Cardinality(Living(t) \union {c}) = Cardinality(Living(t)) + 1 BY <2>2, <2>3, FS_AddElement
    <3>2. Cardinality(HasCopy(f) \union {x}) = Cardinality(HasCopy(f)) + 1 BY <1>16, <2>3, FS_AddElement
    <3> QED BY <3>1, <3>2, <2>2, <1>16
  <2>5. a <= e + b BY <2>1
  <2> HIDE DEF a, b, e
  <2>6. a + 1 <= e + (b + 1) BY <2>3, <2>5
  <2> QED BY <2>1, <2>4, <2>6, <1>12, <1>16 DEF Counted, e
<1>23. Shaped(z, L, A, g, Y)
  <2>1. /\ \A y \in HasCopy(f) : y \notin Y => Len(A[f[y]]) = 0
        /\ Room(z) => \A y \in Y : Len(A[f[y]]) = Len(z.attrs[y])
        /\ Room(z) => \A y \in HasCopy(f) : CopiedPart(z.old[y], K[f[y]], f)
        /\ Y \subseteq HasCopy(f)
    BY <1>1 DEF Shaped, Counted
  <2>2. Len(A[c]) = 0 /\ Len(K[c]) = 0 BY <1>1, <1>8 DEF Tree
  <2>3. \A y \in HasCopy(g) : y \notin Y => Len(A[g[y]]) = 0 BY <2>1, <2>2, <1>14, <1>16, <1>17
  <2>4. Room(z) => \A y \in Y : Len(A[g[y]]) = Len(z.attrs[y]) BY <2>1, <1>17
  <2>5. ASSUME Room(z), NEW y \in HasCopy(g) PROVE CopiedPart(z.old[y], L[g[y]], g)
    <3>1. z.old[y] \in Seq(Nodes) /\ Distinct(z.old[y]) /\ y \in Nodes
      <4>1. y \in Nodes BY DEF HasCopy
      <4> QED BY <4>1 DEF Job
    <3>2. \A j \in 1 .. Len(z.old[y]) : z.old[y][j] \in Nodes /\ z.t.parent[z.old[y][j]] = y
      <4>1. \A m : Has(z.old[y], m) => m \in Before(z) /\ z.t.parent[m] = y BY <3>1, JobIs
      <4> QED BY <4>1 DEF Has, Before
    <3>3. CASE y = x
      <4>1. L[c] = K[c] /\ Len(L[c]) = 0 BY <2>2, <1>8, <1>10, <1>15
      <4>2. ASSUME NEW j \in 1 .. Len(z.old[y]) PROVE g[z.old[y][j]] = Null
        <5> DEFINE m == z.old[y][j]
        <5>1. m \in Nodes /\ z.t.parent[m] = x BY <3>2, <3>3
        <5>2. m # x BY <5>1, <1>6 DEF q
        <5>3. m # z.s
          <6>1. z.t.parent[z.s] \notin Down(z.old, z.s) BY SourceIsTop
          <6> QED BY <6>1, <5>1, <1>18
        <5> HIDE DEF m
        <5>4. m \notin HasCopy(f) BY <5>1, <5>3, <1>2, <1>16
        <5>5. g[m] = Null BY <5>1, <5>2, <5>4, <1>14 DEF HasCopy
        <5> QED BY <5>5 DEF m
      <4>3. Len(z.old[y]) \in Nat BY <3>1
      <4> DEFINE n == Len(z.old[y])
      <4>4. \A j \in 1 .. n : g[z.old[y][j]] # Null <=> j <= 0
        <5>1. \A j \in 1 .. n : g[z.old[y][j]] = Null BY <4>2
        <5> HIDE DEF n
        <5> QED BY <5>1
      <4>5. 0 <= n BY <4>3
      <4>6. CopiedPart(z.old[y], L[c], g) BY <4>1, <4>4, <4>5 DEF CopiedPart
      <4> QED BY <4>6, <3>3, <1>14
    <3>4. CASE y = q
      <4> DEFINE w == z.old[q]
                 v == K[p]
      <4>1. w \in Seq(Nodes) /\ Distinct(w) BY <3>1, <3>4
      <4>2. v \in Seq(Nodes) BY <1>4, <1>6
      <4>3. CopiedPart(w, v, f) BY <2>1, <2>5, <1>5 DEF p
      <4>4. Has(w, x) BY <1>6
      <4>5. \A m, j \in 1 .. Len(w) : w[j] = x /\ m < j => f[w[m]] # Null BY <2>5 DEF NextToCopy, q
      <4> HIDE DEF w, v
      <4>6. CopiedPart(w, Ins(v, Len(v) + 1, c), [f EXCEPT ![x] = c])
        BY <4>1, <4>2, <4>3, <4>4, <4>5, <1>2, <1>5, <1>8, CopiedPartGrows
      <4>7. g[q] = p BY <1>5, <1>17 DEF p
      <4> QED BY <4>6, <4>7, <3>4, <1>10 DEF w, v, g
    <3>5. CASE y # q /\ y # x
      <4>1. y \in HasCopy(f) /\ g[y] = f[y] BY <3>5, <1>16, <1>17
      <4>2. f[y] # p BY <4>1, <3>5, <1>2, <1>5 DEF p
      <4>3. L[f[y]] = K[f[y]] BY <4>1, <4>2, <1>10, <1>17
      <4>4. CopiedPart(z.old[y], K[f[y]], f) BY <4>1, <2>1, <2>5
      <4>5. \A j \in 1 .. Len(z.old[y]) : g[z.old[y][j]] = f[z.old[y][j]]
        BY <3>2, <3>5, <1>14 DEF q
      <4>6. CopiedPart(z.old[y], K[f[y]], g)
        <5> DEFINE w == z.old[y]
                   v == K[f[y]]
        <5>1. CopiedPart(w, v, f) /\ (\A j \in 1 .. Len(w) : g[w[j]] = f[w[j]]) BY <4>4, <4>5
        <5>2. w \in Seq(Nodes) /\ v \in Seq(Nodes) BY <3>1, <4>1, <1>4, <1>17
        <5> HIDE DEF w, v
        <5>3. Len(w) \in Nat /\ Len(v) \in Nat BY <5>2
        <5>4. CopiedPart(w, v, g) BY <5>1, <5>3 DEF CopiedPart
        <5> QED BY <5>4 DEF w, v
      <4> QED BY <4>1, <4>3, <4>6
    <3> QED BY <3>3, <3>4, <3>5
  <2> QED BY <2>3, <2>4, <2>5 DEF Shaped
<1>24. Copying(z, u, L, A, g, Y) BY <1>11, <1>19, <1>20, <1>21, <1>22, <1>23 DEF Copying
<1> QED BY <1>8, <1>24 DEF u, g, p, q, k, c

\* A sequence without repetition has as many members as it is long.
LEMMA MembersCounted ==
  ASSUME NEW M, NEW s \in Seq(M), Distinct(s)
  PROVE  IsFiniteSet(ToSet(s)) /\ Cardinality(ToSet(s)) = Len(s) /\ Len(s) \in Nat
<1>1. Len(s) \in Nat /\ s \in [1 .. Len(s) -> M] OBVIOUS
<1>2. ToSet(s) = {s[i] : i \in 1 .. Len(s)} BY MembersOf
<1> DEFINE n == Len(s)
           T == ToSet(s)
           b == [i \in 1 .. n |-> s[i]]
<1>3. b \in Bijection(1 .. n, T)
  <2>1. \A i, j \in 1 .. n : s[i] = s[j] => i = j BY DEF Distinct
  <2>2. (\A i \in 1 .. n : s[i] \in T) /\ \A t \in T : \E i \in 1 .. n : s[i] = t BY <1>2
  <2> HIDE DEF n, T
  <2>3. b \in [1 .. n -> T] BY <2>2
  <2>4. \A i \in 1 .. n : b[i] = s[i] OBVIOUS
  <2>5. DOMAIN b = 1 .. n OBVIOUS
  <2> HIDE DEF b
  <2>6. IsInjective(b) BY <2>1, <2>4, <2>5 DEF IsInjective
  <2>7. \A t \in T : \E i \in 1 .. n : b[i] = t BY <2>2, <2>4
  <2> QED BY <2>3, <2>6, <2>7 DEF Bijection, Injection, Surjection
<1> HIDE DEF b, n, T
<1>4. ExistsBijection(1 .. n, T) BY <1>3 DEF ExistsBijection
<1>5. n \in Nat BY <1>1 DEF n
<1>6. Cardinality(T) = n BY <1>4, <1>5, FS_CountingElements
<1>7. IsFiniteSet(T)
  <2>1. IsFiniteSet(1 .. n) BY <1>5, FS_Interval
  <2> QED BY <2>1, <1>4, FS_Bijection
<1> QED BY <1>5, <1>6, <1>7 DEF n, T

\* One more node has the attributes of its list more.
LEMMA AttrsOfMore ==
  ASSUME NEW z, Job(z), NEW Y, Y \subseteq Nodes, NEW x \in Nodes, x \notin Y
  PROVE  Cardinality(AttrsOf(z, Y \union {x})) = Cardinality(AttrsOf(z, Y)) + Len(z.attrs[x])
<1> DEFINE s == z.attrs[x]
           S == AttrsOf(z, Y)
           T == ToSet(s)
<1>1. Tree(z.t, z.kids, z.attrs) BY DEF Job
<1>2. Held(z.t.attrs, Attributes, z.attrs) /\ z.attrs \in [Nodes -> Seq(Attributes)] /\ Distinct(s) /\ s \in Seq(Attributes)
  BY <1>1, TreeTyped
<1>3. \A m, n \in Nodes : \A y : Has(z.attrs[n], y) /\ Has(z.attrs[m], y) => m = n
  BY <1>2 DEF Held, Has
<1>4. \A y : y \in T <=> Has(s, y) BY <1>2, MembersOf
<1>5. T \subseteq Attributes BY <1>2, MembersOf
<1>6. IsFiniteSet(T) /\ Cardinality(T) = Len(s) /\ Len(s) \in Nat BY <1>2, MembersCounted
<1>7. S \subseteq Attributes BY DEF AttrsOf
<1>8. IsFiniteSet(S) /\ Cardinality(S) \in Nat BY <1>7, AttributesFinite
<1>9. AttrsOf(z, Y \union {x}) = S \union T
  <2>1. \A y : y \in AttrsOf(z, Y \union {x}) <=> y \in S \/ y \in T BY <1>4, <1>5 DEF AttrsOf
  <2> QED BY <2>1
<1>10. S \intersect T = {}
  <2>1. \A y : ~(y \in S /\ y \in T) BY <1>3, <1>4 DEF AttrsOf
  <2> QED BY <2>1
<1> HIDE DEF S, T, s
<1>11. Cardinality(S \union T) = Cardinality(S) + Cardinality(T) - Cardinality(S \intersect T) BY <1>6, <1>8, FS_Union
<1>12. Cardinality(S \intersect T) = 0 BY <1>10, FS_EmptySet
<1> DEFINE a == Cardinality(S)
           b == Cardinality(T)
           c == Cardinality(S \union T)
<1>13. a \in Nat /\ b \in Nat /\ c = a + b - 0 BY <1>6, <1>8, <1>11, <1>12
<1> HIDE DEF a, b, c
<1>14. c = a + b BY <1>13
<1> QED BY <1>9, <1>14, <1>6 DEF S, s, a, b, c

\* Then its attributes are copied.
LEMMA FillCopy ==
  ASSUME NEW z, Job(z), NEW t, NEW K, NEW A, NEW f, NEW Y, Copying(z, t, K, A, f, Y),
         NEW x, x \in HasCopy(f), x \notin Y
  PROVE  \E B : Copying(z, CopyContents(t, f[x], x), K, B, f, Y \union {x})
<1> DEFINE r == CopyContents(t, f[x], x)
           c == f[x]
           n == Len(A[x])
           X == Y \union {x}
<1>1. Tree(t, K, A) /\ Mapped(z, f) /\ Others(z, t, K, A) /\ Copies(z, t, f) /\ Counted(z, t, f, Y) /\ Shaped(z, K, A, f, Y)
  BY DEF Copying
<1>2. x \in Nodes /\ x \in Before(z) /\ c \in Nodes /\ c \notin Before(z) /\ IsNode(t, c) /\ x \in Down(z.old, z.s)
  <2>1. x \in Before(z) /\ x \in Nodes /\ c \in Nodes /\ x \in Down(z.old, z.s) BY <1>1 DEF Mapped, HasCopy
  <2> QED BY <2>1, <1>1 DEF Copies
<1>3. A[x] = z.attrs[x] BY <1>1, <1>2 DEF Others
<1>4. t \in Trees /\ K \in [Nodes -> Seq(Nodes)] /\ A \in [Nodes -> Seq(Attributes)] BY <1>1, TreeTyped
<1>5. n \in Nat /\ \E B : Richer(t, r, K, A, B, c, n)
  <2> HIDE DEF c
  <2> QED BY <1>1, <1>2, CopyContentsIs DEF c
<1> HIDE DEF r
<1>6. PICK B : Richer(t, r, K, A, B, c, n) BY <1>5
<1>7. /\ Tree(r, K, B) /\ r.kind = t.kind /\ r.parent = t.parent /\ r.kids = t.kids
      /\ \A m \in Nodes : m # c => B[m] = A[m]
      /\ Cardinality(r.made) <= Cardinality(t.made) + n
      /\ Cardinality(t.made) + n <= MaxAttributes => Len(B[c]) = Len(A[c]) + n
  BY <1>6 DEF Richer
<1>8. /\ Y \subseteq HasCopy(f) /\ Y \subseteq Nodes
      /\ Cardinality(Living(t)) <= Cardinality(Before(z)) + Cardinality(HasCopy(f))
      /\ Cardinality(t.made) <= Cardinality(z.t.made) + Cardinality(AttrsOf(z, Y))
  BY <1>1 DEF Counted, HasCopy
<1>9. Cardinality(AttrsOf(z, X)) = Cardinality(AttrsOf(z, Y)) + n BY <1>2, <1>3, <1>8, AttrsOfMore
<1> DEFINE a == Cardinality(z.t.made)
           b == Cardinality(AttrsOf(z, Y))
           e == Cardinality(t.made)
           g == Cardinality(r.made)
<1>10. a \in Nat /\ b \in Nat /\ e \in Nat /\ g \in Nat
  <2>1. z.t \in Trees /\ r \in Trees BY <1>7, TreeTyped, JobIs
  <2>2. AttrsOf(z, Y) \subseteq Attributes BY DEF AttrsOf
  <2> QED BY <2>1, <2>2, <1>4, MadeFinite, AttributesFinite
<1>11. e <= a + b /\ g <= e + n BY <1>7, <1>8
<1>12. Room(z) => e + n <= MaxAttributes
  <2> SUFFICES ASSUME Room(z) PROVE e + n <= MaxAttributes OBVIOUS
  <2> DEFINE m == Cardinality(AttrsOf(z, Down(z.old, z.s)))
  <2>1. a + m <= MaxAttributes BY DEF Room
  <2>2. AttrsOf(z, X) \subseteq AttrsOf(z, Down(z.old, z.s))
    <3>1. X \subseteq Down(z.old, z.s) BY <1>1, <1>2, <1>8 DEF Mapped
    <3> QED BY <3>1 DEF AttrsOf
  <2>3. AttrsOf(z, Down(z.old, z.s)) \subseteq Attributes BY DEF AttrsOf
  <2>4. m \in Nat /\ Cardinality(AttrsOf(z, X)) <= m
    <3>1. IsFiniteSet(AttrsOf(z, Down(z.old, z.s))) /\ Cardinality(AttrsOf(z, Down(z.old, z.s))) \in Nat BY <2>3, AttributesFinite
    <3> QED BY <3>1, <2>2, FS_Subset
  <2>5. b + n <= m BY <2>4, <1>9
  <2> HIDE DEF m, n, a, b, e
  <2>6. n \in Nat BY <1>5
  <2>7. MaxAttributes \in Nat BY TreeAssumption
  <2> QED BY <2>1, <2>4, <2>5, <2>6, <2>7, <1>10, <1>11
<1>13. g <= a + (b + n)
  <2> HIDE DEF a, b, e, g, n
  <2> QED BY <1>5, <1>10, <1>11
<1>14. /\ \A y \in HasCopy(f) : y \notin Y => Len(A[f[y]]) = 0
       /\ Room(z) => \A y \in Y : Len(A[f[y]]) = Len(z.attrs[y])
       /\ Room(z) => \A y \in HasCopy(f) : CopiedPart(z.old[y], K[f[y]], f)
  BY <1>1 DEF Shaped
<1>15. Room(z) => Len(B[c]) = n
  <2> SUFFICES ASSUME Room(z) PROVE Len(B[c]) = n OBVIOUS
  <2>1. Len(A[c]) = 0 BY <1>14
  <2>2. Len(B[c]) = 0 + n BY <2>1, <1>7, <1>12
  <2> HIDE DEF n
  <2> QED BY <2>2, <1>5
<1>16. \A y \in HasCopy(f) : f[y] \in Nodes /\ (y # x => f[y] # c)
  BY <1>1 DEF Mapped, HasCopy
<1>17. Shaped(z, K, B, f, X)
  <2>1. \A y \in HasCopy(f) : y \notin X => Len(B[f[y]]) = 0 BY <1>7, <1>14, <1>16
  <2>2. Room(z) => \A y \in X : Len(B[f[y]]) = Len(z.attrs[y])
    <3> SUFFICES ASSUME Room(z), NEW y \in X PROVE Len(B[f[y]]) = Len(z.attrs[y]) OBVIOUS
    <3>1. CASE y = x BY <3>1, <1>3, <1>15
    <3>2. CASE y # x BY <3>2, <1>7, <1>8, <1>14, <1>16
    <3> QED BY <3>1, <3>2
  <2> QED BY <2>1, <2>2, <1>14 DEF Shaped
<1>18. Counted(z, r, f, X)
  <2>1. Living(r) = Living(t) BY <1>7 DEF Living, IsNode
  <2>2. X \subseteq HasCopy(f) BY <1>8
  <2> QED BY <2>1, <2>2, <1>8, <1>9, <1>13 DEF Counted
<1>19. Others(z, r, K, B)
  <2>1. \A m \in Before(z) : m \in Nodes /\ m # c BY <1>2 DEF Before
  <2> QED BY <2>1, <1>1, <1>7 DEF Others
<1>20. Copies(z, r, f)
  <2>1. \A m : IsNode(r, m) <=> IsNode(t, m) BY <1>7 DEF IsNode
  <2> QED BY <2>1, <1>1, <1>7 DEF Copies
<1>21. Copying(z, r, K, B, f, X) BY <1>1, <1>7, <1>17, <1>18, <1>19, <1>20 DEF Copying
<1> QED BY <1>21 DEF r

\* Before anything is copied, z.d is the copy of z.s, and empty.
LEMMA StartCopy ==
  ASSUME NEW z, Job(z), NEW f, f = [x \in Nodes |-> IF x = z.s THEN z.d ELSE Null]
  PROVE  Copying(z, z.t, z.kids, z.attrs, f, {}) /\ HasCopy(f) = {z.s}
<1>1. /\ Tree(z.t, z.kids, z.attrs) /\ z.s \in Nodes /\ z.d \in Nodes /\ z.d # z.s /\ z.d # Null
      /\ IsNode(z.t, z.d) /\ Len(z.kids[z.d]) = 0 /\ Len(z.attrs[z.d]) = 0 /\ z.t.kind[z.d] = z.t.kind[z.s]
  BY RootIsNode DEF Job
<1>2. f \in [Nodes -> Nodes \union {Null}] /\ f[z.s] = z.d /\ \A x \in Nodes : x # z.s => f[x] = Null BY <1>1
<1>3. HasCopy(f) = {z.s}
  <2>1. \A x : x \in HasCopy(f) <=> x = z.s BY <1>1, <1>2 DEF HasCopy
  <2> QED BY <2>1
<1>4. z.s \in Down(z.old, z.s) BY SourceIsTop DEF Closed
<1>5. Mapped(z, f)
  <2>1. \A x, y \in Nodes : f[x] # Null /\ f[x] = f[y] => x = y BY <1>2
  <2>2. z.s \in Before(z) BY JobIs
  <2> QED BY <2>1, <2>2, <1>2, <1>3, <1>4 DEF Mapped
<1>6. Others(z, z.t, z.kids, z.attrs) BY DEF Others
<1>7. Copies(z, z.t, f)
  <2>1. \A m \in Nodes : IsNode(z.t, m) <=> m \in Before(z) \/ m = z.d BY <1>1 DEF Before
  <2>2. z.d \notin Before(z) BY DEF Before
  <2> QED BY <2>1, <2>2, <1>1, <1>2, <1>3 DEF Copies
<1>8. Counted(z, z.t, f, {})
  <2>1. Living(z.t) = Before(z) \union {z.d}
    <3>1. \A m : m \in Living(z.t) <=> m \in Before(z) \/ m = z.d BY <1>1 DEF Living, Before
    <3> QED BY <3>1
  <2>2. z.d \notin Before(z) /\ IsFiniteSet(Before(z)) /\ Cardinality(Before(z)) \in Nat
    <3>1. Before(z) \subseteq Nodes BY DEF Before
    <3> QED BY <3>1, NodesFinite DEF Before
  <2>3. Cardinality(Living(z.t)) = Cardinality(Before(z)) + 1 BY <2>1, <2>2, FS_AddElement
  <2>4. Cardinality(HasCopy(f)) = 1 BY <1>3, FS_Singleton
  <2>5. Cardinality(z.t.made) \in Nat
    <3>1. z.t \in Trees BY JobIs
    <3> QED BY <3>1, MadeFinite
  <2>6. Cardinality(AttrsOf(z, {})) = 0
    <3>1. AttrsOf(z, {}) = {} BY DEF AttrsOf
    <3> QED BY <3>1, FS_EmptySet
  <2> DEFINE a == Cardinality(Before(z))
             b == Cardinality(z.t.made)
  <2>7. a \in Nat /\ b \in Nat BY <2>2, <2>5
  <2> HIDE DEF a, b
  <2>8. a + 1 <= a + 1 /\ b <= b + 0 BY <2>7
  <2> QED BY <2>3, <2>4, <2>6, <2>8 DEF Counted, a, b
<1>9. Shaped(z, z.kids, z.attrs, f, {})
  <2>1. \A x \in HasCopy(f) : CopiedPart(z.old[x], z.kids[f[x]], f)
    <3> DEFINE w == z.old[z.s]
    <3>1. w \in Seq(Nodes) BY <1>1 DEF Job
    <3>2. \A y : Has(w, y) => y \in Nodes /\ y # z.s
      <4>1. \A y : Has(w, y) => y \in Before(z) /\ z.t.parent[y] = z.s BY <1>1, JobIs
      <4>2. z.t.parent[z.s] # z.s BY <1>4, SourceIsTop
      <4> QED BY <4>1, <4>2 DEF Before
    <3>3. \A i \in 1 .. Len(w) : f[w[i]] = Null BY <3>2, <1>2 DEF Has
    <3> HIDE DEF w
    <3>4. Len(w) \in Nat BY <3>1
    <3>5. Len(z.kids[z.d]) = 0 BY <1>1
    <3> DEFINE v == z.kids[z.d]
    <3>6. Len(v) = 0 BY <3>5
    <3> HIDE DEF v
    <3>7. CopiedPart(w, v, f) BY <3>3, <3>4, <3>6 DEF CopiedPart
    <3> QED BY <3>7, <1>2, <1>3 DEF w, v
  <2>2. Len(z.attrs[f[z.s]]) = 0 BY <1>1, <1>2
  <2> QED BY <2>1, <2>2, <1>3 DEF Shaped
<1> QED BY <1>1, <1>3, <1>5, <1>6, <1>7, <1>8, <1>9 DEF Copying

\* As long as there is room for all of the copy there is memory for the next node.
LEMMA RoomForNext ==
  ASSUME NEW z, Job(z), NEW t, NEW K, NEW A, NEW f, NEW Y, Copying(z, t, K, A, f, Y), Room(z),
         NEW x, NextToCopy(z, f, x)
  PROVE  SpareNodes(t) # {}
<1>1. Mapped(z, f) /\ Counted(z, t, f, Y) BY DEF Copying
<1> DEFINE D == Down(z.old, z.s)
           H == HasCopy(f)
<1>2. x \in D /\ x \notin H
  <2> DEFINE q == z.t.parent[x]
  <2>1. x \in Before(z) /\ x # Root /\ q \in HasCopy(f) /\ f[x] = Null BY DEF NextToCopy
  <2>2. Has(z.old[q], x) BY <2>1, JobIs
  <2>3. q \in D /\ Closed(z.old, z.s, D) BY <2>1, <1>1, SourceIsTop DEF Mapped
  <2>4. x \in D
    <3> HIDE DEF q, D
    <3> QED BY <2>2, <2>3 DEF Closed, Has
  <2> QED BY <2>1, <2>4 DEF HasCopy
<1>3. H \subseteq D /\ D \subseteq Nodes BY <1>1 DEF Mapped, Down
<1> HIDE DEF D, H
<1>4. IsFiniteSet(D) /\ IsFiniteSet(H) /\ Cardinality(D) \in Nat /\ Cardinality(H) \in Nat BY <1>3, NodesFinite
<1>5. Cardinality(H) <= Cardinality(D) /\ Cardinality(H) # Cardinality(D) BY <1>2, <1>3, <1>4, FS_Subset
<1>6. Before(z) \subseteq Nodes /\ Living(t) \subseteq Nodes BY DEF Before, Living
<1>7. Cardinality(Before(z)) \in Nat /\ Cardinality(Living(t)) \in Nat BY <1>6, NodesFinite
<1>8. Cardinality(Before(z)) + Cardinality(D) <= MaxNodes BY DEF Room, D
<1>9. Cardinality(Living(t)) <= Cardinality(Before(z)) + Cardinality(H) BY <1>1 DEF Counted, H
<1>10. MaxNodes \in Nat BY TreeAssumption
<1>11. Cardinality(Living(t)) # MaxNodes BY <1>4, <1>5, <1>7, <1>8, <1>9, <1>10
<1>12. Cardinality(Nodes) = MaxNodes
  <2>1. Cardinality(1 .. MaxNodes) = MaxNodes BY <1>10, FS_Interval
  <2> QED BY <2>1 DEF Nodes
<1>13. Living(t) # Nodes BY <1>11, <1>12
<1> QED BY <1>13 DEF Living, SpareNodes

-----------------------------------------------------------------------------
(* The walk.  V are the nodes that it has come to and L those it has left.  *)

\* The members of the list that are before x have been left.
EarlierLeft(z, x, L) ==
  LET w == z.kids[z.t.parent[x]] IN \A i, j \in 1 .. Len(w) : w[j] = x /\ i < j => w[i] \in L

\* What the walk has come to below x it has left; and it has come to all of it.
Below(z, x, V, L) ==
  /\ \A y : Has(z.kids[x], y) /\ y \in V => y \in L
  /\ Room(z) => \A y : Has(z.kids[x], y) => y \in V

Order(z, f, V, L) ==
  /\ V \subseteq Nodes /\ L \subseteq V /\ z.s \notin V
  /\ \A x \in V : IsNode(z.t, x) /\ x # Root
  /\ \A x \in V : z.t.parent[x] = z.s \/ z.t.parent[x] \in V
  /\ \A x \in V : EarlierLeft(z, x, L)
  /\ \A x \in V : z.t.parent[x] \in L => x \in L
  /\ HasCopy(f) \subseteq V \union {z.s}
  /\ Room(z) => V \subseteq HasCopy(f) \union {z.d}
  /\ Room(z) => \A x \in L : \A y : Has(z.kids[x], y) => y \in V

\* The walk is at x, which it has not left.
Here(z, f, L, x) ==
  /\ x \in Nodes /\ IsNode(z.t, x) /\ x # Root /\ x # z.s /\ x \notin L
  /\ z.t.parent[x] \in HasCopy(f) /\ z.t.parent[x] \notin L
  /\ EarlierLeft(z, x, L)

\* From x the next pointer leads to the member after it in w.
Follower(t, w, x) ==
  \E j \in 1 .. Len(w) : w[j] = x /\ t.kids.next[x] = IF j = Len(w) THEN Null ELSE w[j + 1]

\* The links that the walk reads, at a node that was there before or at z.d.
LEMMA ReadsLinks ==
  ASSUME NEW z, Job(z), NEW t, NEW K, NEW A, Tree(t, K, A), Others(z, t, K, A),
         NEW x, x \in Nodes, IsNode(z.t, x), x # Root, z.t.parent[x] \in Before(z)
  PROVE  t.parent[x] = z.t.parent[x] /\ Follower(t, z.kids[z.t.parent[x]], x)
<1> DEFINE q == z.t.parent[x]
           w == z.kids[q]
<1>1. q \in Nodes /\ q \in Before(z) BY DEF Before
<1>2. Has(w, x)
  <2>1. Parents(z.t, z.kids) BY DEF Job, Tree
  <2> QED BY <2>1 DEF Parents
<1>3. PICK j \in 1 .. Len(w) : w[j] = x BY <1>2 DEF Has
<1>4. K[q] = w BY <1>1 DEF Others
<1>5. t.parent[x] = q
  <2>1. Parents(t, K) BY DEF Tree
  <2>2. t.parent[K[q][j]] = q BY <2>1, <1>1, <1>3, <1>4 DEF Parents
  <2> QED BY <2>2, <1>3, <1>4
<1>6. Chain(t.kids, q, w)
  <2>1. Held(t.kids, Nodes, K) BY TreeTyped
  <2> QED BY <2>1, <1>1, <1>4 DEF Held
<1>7. t.kids.next[x] = IF j = Len(w) THEN Null ELSE w[j + 1] BY <1>3, <1>6 DEF Chain
<1>8. Follower(t, w, x) BY <1>3, <1>7 DEF Follower
<1> QED BY <1>5, <1>8

\* And the first child of such a node.
LEMMA ReadsFirst ==
  ASSUME NEW z, Job(z), NEW t, NEW K, NEW A, Tree(t, K, A), Others(z, t, K, A), NEW x \in Before(z)
  PROVE  t.kids.first[x] = IF Len(z.kids[x]) = 0 THEN Null ELSE z.kids[x][1]
<1>1. x \in Nodes /\ K[x] = z.kids[x] BY DEF Before, Others
<1>2. Held(t.kids, Nodes, K) BY TreeTyped
<1>3. Chain(t.kids, x, K[x]) BY <1>1, <1>2 DEF Held
<1> QED BY <1>1, <1>3 DEF Chain

\* Nothing is its own parent, and what has a copy is not above z.s.
LEMMA NoParentOfItself ==
  ASSUME NEW z, Job(z), NEW x \in Nodes, IsNode(z.t, x), x # Root
  PROVE  z.t.parent[x] # x
<1>1. Tree(z.t, z.kids, z.attrs) /\ z.kids \in [Nodes -> Seq(Nodes)] BY JobIs DEF Job
<1>2. z.t.parent[x] \notin Down(z.kids, x) BY <1>1, NotUnderItself
<1>3. x \in Down(z.kids, x)
  <2>1. Closed(z.kids, x, Down(z.kids, x)) BY <1>1, DownIsClosed
  <2> QED BY <2>1 DEF Closed
<1> QED BY <1>2, <1>3

\* What has a copy was there before.
LEMMA CopiedIsBefore ==
  ASSUME NEW z, Job(z), NEW f, Mapped(z, f)
  PROVE  /\ \A x \in HasCopy(f) : x \in Before(z) /\ x \in Nodes /\ f[x] \in Nodes
         /\ \A x \in HasCopy(f) : \A y : Has(z.kids[x], y) => y # z.s
<1>1. \A x \in HasCopy(f) : x \in Before(z) /\ x \in Nodes /\ f[x] \in Nodes /\ x \in Down(z.old, z.s)
  BY DEF Mapped, HasCopy
<1>2. z.t.parent[z.s] \notin Down(z.old, z.s) BY SourceIsTop
<1>3. \A x \in HasCopy(f) : \A y : Has(z.kids[x], y) => y # z.s BY <1>1, <1>2, JobIs
<1> QED BY <1>1, <1>3

\* The walk comes to x.
LEMMA Enter ==
  ASSUME NEW z, Job(z), NEW f, NEW V, NEW L, Order(z, f, V, L), NEW x, Here(z, f, L, x), x \notin V,
         NEW g, HasCopy(f) \subseteq HasCopy(g), HasCopy(g) \subseteq HasCopy(f) \union {x},
         Room(z) => x = z.d \/ x \in HasCopy(g)
  PROVE  /\ Order(z, g, V \union {x}, L)
         /\ \A y : Has(z.kids[x], y) => y \notin V \union {x}
<1> DEFINE W == V \union {x}
           q == z.t.parent[x]
<1>1. /\ V \subseteq Nodes /\ L \subseteq V /\ z.s \notin V
      /\ \A y \in V : IsNode(z.t, y) /\ y # Root
      /\ \A y \in V : z.t.parent[y] = z.s \/ z.t.parent[y] \in V
      /\ \A y \in V : EarlierLeft(z, y, L)
      /\ \A y \in V : z.t.parent[y] \in L => y \in L
      /\ HasCopy(f) \subseteq V \union {z.s}
      /\ Room(z) => V \subseteq HasCopy(f) \union {z.d}
      /\ Room(z) => \A m \in L : \A y : Has(z.kids[m], y) => y \in V
  BY DEF Order
<1>2. /\ x \in Nodes /\ IsNode(z.t, x) /\ x # Root /\ x # z.s /\ x \notin L
      /\ q \in HasCopy(f) /\ q \notin L /\ EarlierLeft(z, x, L)
  BY DEF Here
<1>3. \A y : Has(z.kids[x], y) => y \notin W
  <2> SUFFICES ASSUME NEW y, Has(z.kids[x], y), y \in W PROVE FALSE OBVIOUS
  <2>1. z.t.parent[y] = x BY <1>2, JobIs
  <2>2. CASE y \in V BY <2>1, <2>2, <1>1, <1>2
  <2>3. CASE y = x BY <2>1, <2>3, <1>2, NoParentOfItself
  <2> QED BY <2>2, <2>3
<1>4. /\ W \subseteq Nodes /\ L \subseteq W /\ z.s \notin W
      /\ \A y \in W : IsNode(z.t, y) /\ y # Root
      /\ \A y \in W : z.t.parent[y] = z.s \/ z.t.parent[y] \in W
      /\ \A y \in W : EarlierLeft(z, y, L)
      /\ \A y \in W : z.t.parent[y] \in L => y \in L
      /\ HasCopy(g) \subseteq W \union {z.s}
      /\ Room(z) => W \subseteq HasCopy(g) \union {z.d}
      /\ Room(z) => \A m \in L : \A y : Has(z.kids[m], y) => y \in W
  BY <1>1, <1>2
<1>5. Order(z, g, W, L)
  <2> HIDE DEF W
  <2> QED BY <1>4 DEF Order
<1> QED BY <1>3, <1>5

\* The walk leaves x.
LEMMA Leave ==
  ASSUME NEW z, Job(z), NEW f, NEW V, NEW L, Order(z, f, V, L), NEW x \in V, Below(z, x, V, L)
  PROVE  Order(z, f, V, L \union {x})
<1> DEFINE M == L \union {x}
<1>1. /\ V \subseteq Nodes /\ L \subseteq V /\ z.s \notin V
      /\ \A y \in V : IsNode(z.t, y) /\ y # Root
      /\ \A y \in V : z.t.parent[y] = z.s \/ z.t.parent[y] \in V
      /\ \A y \in V : EarlierLeft(z, y, L)
      /\ \A y \in V : z.t.parent[y] \in L => y \in L
      /\ HasCopy(f) \subseteq V \union {z.s}
      /\ Room(z) => V \subseteq HasCopy(f) \union {z.d}
      /\ Room(z) => \A m \in L : \A y : Has(z.kids[m], y) => y \in V
  BY DEF Order
<1>2. \A y \in V : EarlierLeft(z, y, M) BY <1>1 DEF EarlierLeft
<1>3. ASSUME NEW y \in V, z.t.parent[y] \in M PROVE y \in M
  <2>1. CASE z.t.parent[y] = x
    <3>1. Has(z.kids[x], y)
      <4>1. Parents(z.t, z.kids) BY DEF Job, Tree
      <4> QED BY <4>1, <2>1, <1>1 DEF Parents
    <3> QED BY <3>1 DEF Below
  <2>2. CASE z.t.parent[y] # x BY <2>2, <1>1, <1>3
  <2> QED BY <2>1, <2>2
<1>4. Room(z) => \A m \in M : \A y : Has(z.kids[m], y) => y \in V BY <1>1 DEF Below
<1>5. M \subseteq V BY <1>1
<1> HIDE DEF M
<1>6. Order(z, f, V, M) BY <1>1, <1>2, <1>3, <1>4, <1>5 DEF Order
<1> QED BY <1>6 DEF M

\* What the walk comes to, but for z.d, is the next to be copied.
LEMMA HereIsNext ==
  ASSUME NEW z, Job(z), NEW f, Mapped(z, f), NEW V, NEW L, Order(z, f, V, L), NEW x, Here(z, f, L, x), x \notin V, x # z.d
  PROVE  NextToCopy(z, f, x)
<1> DEFINE q == z.t.parent[x]
           w == z.old[q]
           u == z.kids[q]
<1>1. /\ x \in Nodes /\ IsNode(z.t, x) /\ x # Root /\ x # z.s /\ q \in HasCopy(f) /\ EarlierLeft(z, x, L)
  BY DEF Here
<1>2. L \subseteq V /\ HasCopy(f) \subseteq V \union {z.s} /\ (Room(z) => V \subseteq HasCopy(f) \union {z.d}) BY DEF Order
<1>3. x \in Before(z) BY <1>1 DEF Before
<1>4. f[x] = Null
  <2>1. x \notin HasCopy(f) BY <1>1, <1>2
  <2> QED BY <2>1, <1>1 DEF HasCopy
<1>5. ASSUME Room(z), NEW i \in 1 .. Len(w), NEW j \in 1 .. Len(w), w[j] = x, i < j PROVE f[w[i]] # Null
  <2>1. q \in Nodes BY <1>1 DEF HasCopy
  <2>2. InOrderOf(w, u, {}) /\ w \in Seq(Nodes) BY <2>1 DEF Job
  <2>3. w[i] \notin {} /\ w[j] \notin {} OBVIOUS
  <2>4. PICK k, m \in 1 .. Len(u) : k < m /\ u[k] = w[i] /\ u[m] = w[j]
    <3> HIDE DEF w, u
    <3> QED BY <2>2, <2>3, <1>5 DEF InOrderOf
  <2>5. u[k] \in L BY <2>4, <1>1, <1>5 DEF EarlierLeft
  <2>6. w[i] # z.d
    <3>1. Has(w, w[i]) BY DEF Has
    <3> QED BY <3>1, <2>1 DEF Job
  <2>7. w[i] \in HasCopy(f) BY <2>4, <2>5, <2>6, <1>2, <1>5
  <2> QED BY <2>7 DEF HasCopy
<1> QED BY <1>1, <1>3, <1>4, <1>5 DEF NextToCopy

Walks == [t : Trees, dit : Nodes \union {Null}, sit : Nodes \union {Null}, back : BOOLEAN]

AtEnd(z, w) == w.sit \in {Null, z.s}

At(z, w, f, V, L) ==
  /\ AtEnd(z, w) => Below(z, z.s, V, L)
  /\ ~AtEnd(z, w) => Here(z, f, L, w.sit) /\ w.dit = f[z.t.parent[w.sit]]
  /\ ~AtEnd(z, w) /\ ~w.back => w.sit \notin V
  /\ ~AtEnd(z, w) /\ w.back => w.sit \in V /\ Below(z, w.sit, V, L)

Walk(z, w, K, A, f, V, L) ==
  /\ w \in Walks
  /\ Copying(z, w.t, K, A, f, HasCopy(f)) /\ Order(z, f, V, L) /\ At(z, w, f, V, L)

\* The walk goes on from a node that it leaves.
LEMMA TurnBack ==
  ASSUME NEW z, Job(z), NEW w, NEW K, NEW A, NEW f, NEW V, NEW L, Walk(z, w, K, A, f, V, L),
         ~AtEnd(z, w), w.back
  PROVE  Walk(z, Back(w), K, A, f, V, L \union {w.sit}) /\ w.sit \in V /\ w.sit \notin L
<1> DEFINE t == w.t
           x == w.sit
           q == z.t.parent[x]
           r == z.kids[q]
           M == L \union {x}
<1>1. w \in Walks /\ Copying(z, t, K, A, f, HasCopy(f)) /\ Order(z, f, V, L) BY DEF Walk
<1>2. Here(z, f, L, x) /\ w.dit = f[q] /\ x \in V /\ Below(z, x, V, L) BY DEF Walk, At
<1>3. /\ x \in Nodes /\ IsNode(z.t, x) /\ x # Root /\ x # z.s /\ x \notin L
      /\ q \in HasCopy(f) /\ q \notin L /\ EarlierLeft(z, x, L)
  BY <1>2 DEF Here
<1>4. Tree(t, K, A) /\ Mapped(z, f) /\ Others(z, t, K, A) /\ Copies(z, t, f) BY <1>1 DEF Copying
<1>5. /\ \A y \in HasCopy(f) : y \in Before(z) /\ y \in Nodes /\ f[y] \in Nodes
      /\ \A y \in HasCopy(f) : \A m : Has(z.kids[y], m) => m # z.s
  BY <1>4, CopiedIsBefore
<1>6. t.parent[x] = q /\ \E j \in 1 .. Len(r) : r[j] = x /\ t.kids.next[x] = IF j = Len(r) THEN Null ELSE r[j + 1]
  <2>1. x \in Nodes /\ IsNode(z.t, x) /\ x # Root /\ q \in Before(z) BY <1>3, <1>5
  <2>2. Job(z) /\ Tree(t, K, A) /\ Others(z, t, K, A) BY <1>4
  <2>3. t.parent[x] = q /\ Follower(t, r, x) BY ONLY <2>1, <2>2, ReadsLinks, Zenon
  <2> QED BY <2>3, Zenon DEF Follower
<1>7. PICK j \in 1 .. Len(r) : r[j] = x /\ t.kids.next[x] = IF j = Len(r) THEN Null ELSE r[j + 1] BY <1>6
<1>8. Order(z, f, V, M) BY <1>1, <1>2, Leave
<1>9. q # x BY <1>3, NoParentOfItself
<1>10. Distinct(r) /\ r \in Seq(Nodes)
  <2>1. Held(z.t.kids, Nodes, z.kids) BY DEF Job, Tree
  <2>2. q \in Nodes BY <1>3, <1>5
  <2> QED BY <2>1, <2>2, DistinctLists
<1>11. q \in Nodes /\ q \notin M BY <1>3, <1>5, <1>9
<1>12. w = [t |-> t, dit |-> w.dit, sit |-> x, back |-> w.back] BY <1>1 DEF Walks
<1>13. /\ L \subseteq V /\ V \subseteq Nodes /\ z.s \notin V /\ HasCopy(f) \subseteq V \union {z.s}
       /\ \A y \in V : EarlierLeft(z, y, L)
  BY <1>1 DEF Order
<1>14. t \in Trees /\ w.dit \in Nodes BY <1>1, <1>2, <1>3, <1>5 DEF Walks
<1>15. CASE t.kids.next[x] # Null
  <2> DEFINE y == r[j + 1]
  <2>1. j + 1 \in 1 .. Len(r) /\ t.kids.next[x] = y /\ y \in Nodes
    <3>1. Len(r) \in Nat BY <1>10
    <3>2. j # Len(r) BY <1>7, <1>15
    <3>3. j + 1 \in 1 .. Len(r)
      <4> HIDE DEF r
      <4> QED BY <3>1, <3>2
    <3>4. t.kids.next[x] = y BY <1>7, <3>2
    <3>5. y \in Nodes
      <4> HIDE DEF r
      <4> QED BY <1>10, <3>3
    <3> QED BY <3>3, <3>4, <3>5
  <2>2. Has(r, y) BY <2>1 DEF Has
  <2>3. y \in Nodes /\ z.t.parent[y] = q /\ IsNode(z.t, y) /\ y # Root
    <3> HIDE DEF y
    <3>1. \A m \in Nodes : \A n : Has(z.kids[m], n) => n \in Nodes /\ z.t.parent[n] = m /\ IsNode(z.t, n) /\ n # Root
      BY JobIs
    <3> QED BY <1>11, <2>2, <3>1
  <2>4. y # z.s BY <1>3, <1>5, <2>2
  <2>5. j < j + 1 BY <1>7
  <2>6. y \notin V
    <3> SUFFICES ASSUME y \in V PROVE FALSE OBVIOUS
    <3>1. EarlierLeft(z, y, L) BY <1>13
    <3>2. r[j] \in L BY <2>1, <2>3, <2>5, <3>1 DEF EarlierLeft
    <3> QED BY <1>3, <1>7, <3>2
  <2>7. y \notin M BY <2>6, <1>2, <1>13
  <2>8. EarlierLeft(z, y, M)
    <3> SUFFICES ASSUME NEW i \in 1 .. Len(r), NEW k \in 1 .. Len(r), r[k] = y, i < k PROVE r[i] \in M
      BY <2>3 DEF EarlierLeft
    <3>1. k = j + 1 BY <1>10, <2>1 DEF Distinct
    <3>2. i = j \/ i < j BY <3>1
    <3>3. ASSUME i < j PROVE r[i] \in L BY <3>3, <1>3, <1>7 DEF EarlierLeft
    <3> QED BY <1>7, <3>2, <3>3
  <2> DEFINE v == [t |-> t, dit |-> w.dit, sit |-> y, back |-> FALSE]
  <2>9. Back(w) = v BY <1>12, <1>15, <2>1 DEF Back
  <2>10. Here(z, f, M, y) BY <2>3, <2>4, <2>7, <2>8, <1>3, <1>11 DEF Here
  <2>11. v.t = t /\ v.dit = f[z.t.parent[y]] /\ v.sit = y /\ ~v.back BY <1>2, <2>3
  <2>12. v \in Walks BY <1>14, <2>1 DEF Walks
  <2>13. y # Null BY <1>15, <2>1
  <2> HIDE DEF v, y, M
  <2>14. ~AtEnd(z, v) BY <2>4, <2>11, <2>13 DEF AtEnd
  <2>15. At(z, v, f, V, M) BY <2>6, <2>10, <2>11, <2>14 DEF At
  <2> QED BY <1>1, <1>2, <1>3, <1>8, <2>9, <2>11, <2>12, <2>15 DEF Walk, M
<1>16. CASE t.kids.next[x] = Null
  <2> DEFINE v == [t |-> t, dit |-> t.parent[w.dit], sit |-> q, back |-> w.back]
  <2>1. Back(w) = v BY <1>6, <1>12, <1>16 DEF Back
  <2>2. Len(r) \in Nat /\ \A i \in 1 .. Len(r) : r[i] \in Nodes
    <3> HIDE DEF r
    <3> QED BY <1>10
  <2>3. j = Len(r)
    <3> SUFFICES ASSUME j # Len(r) PROVE FALSE OBVIOUS
    <3>1. j + 1 \in 1 .. Len(r)
      <4> HIDE DEF r
      <4> QED BY <2>2
    <3>2. t.kids.next[x] = r[j + 1] /\ r[j + 1] \in Nodes BY <1>7, <2>2, <3>1
    <3> QED BY <1>16, <3>2, RootIsNode
  <2>4. \A y : Has(r, y) => y \in M
    <3> SUFFICES ASSUME NEW i \in 1 .. Len(r) PROVE r[i] \in M BY DEF Has
    <3>1. i = j \/ i < j BY <2>2, <2>3
    <3>2. ASSUME i < j PROVE r[i] \in L BY <3>2, <1>3, <1>7 DEF EarlierLeft
    <3> QED BY <1>7, <3>1, <3>2
  <2>5. Below(z, q, V, M) BY <2>4, <1>2, <1>13 DEF Below
  <2>6. v \in Walks /\ v.t = t /\ v.sit = q /\ v.back
    <3>1. t.parent[w.dit] \in Nodes \union {Null} BY <1>14 DEF Trees
    <3> QED BY <3>1, <1>1, <1>11, <1>14 DEF Walks
  <2>7. q # Null BY <1>11, RootIsNode
  <2>8. ASSUME q # z.s PROVE Here(z, f, M, q) /\ v.dit = f[z.t.parent[q]] /\ q \in V
    <3>1. q \in V BY <2>8, <1>3, <1>13
    <3>2. /\ IsNode(z.t, q) /\ q # Root /\ EarlierLeft(z, q, M) /\ (z.t.parent[q] \in M => q \in M)
      BY <3>1, <1>8 DEF Order
    <3>3. z.t.parent[q] \in HasCopy(f) BY <2>8, <1>3, <1>4 DEF Mapped
    <3>4. t.parent[f[q]] = f[z.t.parent[q]] BY <2>8, <1>3, <1>4 DEF Copies
    <3> QED BY <3>1, <3>2, <3>3, <3>4, <2>8, <1>2, <1>11 DEF Here
  <2> HIDE DEF v, M, q
  <2>9. At(z, v, f, V, M)
    <3>1. CASE q = z.s
      <4>1. AtEnd(z, v) BY <3>1, <2>6 DEF AtEnd
      <4> QED BY <3>1, <4>1, <2>5 DEF At
    <3>2. CASE q # z.s
      <4>1. ~AtEnd(z, v) BY <3>2, <2>6, <2>7 DEF AtEnd
      <4> QED BY <3>2, <4>1, <2>5, <2>6, <2>8 DEF At, q
    <3> QED BY <3>1, <3>2
  <2> QED BY <1>1, <1>2, <1>3, <1>8, <2>1, <2>6, <2>9 DEF Walk, M
<1> QED BY <1>15, <1>16

\* It comes to a node of which no copy is made: to z.d itself, or when there is no memory.
LEMMA TurnPast ==
  ASSUME NEW z, Job(z), NEW w, NEW K, NEW A, NEW f, NEW V, NEW L, Walk(z, w, K, A, f, V, L),
         ~AtEnd(z, w), ~w.back, w.sit = z.d \/ SpareNodes(w.t) = {}
  PROVE  Walk(z, [w EXCEPT !.back = TRUE], K, A, f, V \union {w.sit}, L) /\ w.sit \notin V
<1> DEFINE t == w.t
           x == w.sit
           W == V \union {x}
           v == [w EXCEPT !.back = TRUE]
<1>1. w \in Walks /\ Copying(z, t, K, A, f, HasCopy(f)) /\ Order(z, f, V, L) BY DEF Walk
<1>2. Here(z, f, L, x) /\ w.dit = f[z.t.parent[x]] /\ x \notin V BY DEF Walk, At
<1>3. Mapped(z, f) BY <1>1 DEF Copying
<1>4. Room(z) => x = z.d
  <2> SUFFICES ASSUME Room(z), x # z.d PROVE FALSE OBVIOUS
  <2>1. NextToCopy(z, f, x) BY <1>1, <1>2, <1>3, HereIsNext
  <2>2. SpareNodes(t) # {} BY <1>1, <2>1, RoomForNext
  <2> QED BY <2>2
<1>5. Order(z, f, W, L) /\ \A y : Has(z.kids[x], y) => y \notin W BY <1>1, <1>2, <1>4, Enter
<1>6. \A y : ~Has(z.kids[z.d], y)
  <2>1. Len(z.kids[z.d]) = 0 BY DEF Job
  <2> QED BY <2>1 DEF Has
<1>7. Below(z, x, W, L) BY <1>4, <1>5, <1>6 DEF Below
<1>8. v = [t |-> t, dit |-> w.dit, sit |-> x, back |-> TRUE] /\ v \in Walks
  <2>1. w = [t |-> t, dit |-> w.dit, sit |-> x, back |-> w.back] BY <1>1 DEF Walks
  <2>2. t \in Trees /\ w.dit \in Nodes \union {Null} /\ x \in Nodes \union {Null} BY <1>1 DEF Walks
  <2>3. v = [t |-> t, dit |-> w.dit, sit |-> x, back |-> TRUE]
    <3> DEFINE e == w.dit
               b == w.back
    <3>1. w = [t |-> t, dit |-> e, sit |-> x, back |-> b] BY <2>1
    <3> HIDE DEF t, e, x, b
    <3>2. v = [[t |-> t, dit |-> e, sit |-> x, back |-> b] EXCEPT !.back = TRUE] BY ONLY <3>1 DEF v
    <3> HIDE DEF v
    <3>3. v = [t |-> t, dit |-> e, sit |-> x, back |-> TRUE] BY <3>2, Zenon
    <3> QED BY <3>3 DEF e
  <2> QED BY <2>2, <2>3 DEF Walks
<1>9. v.t = t /\ v.dit = w.dit /\ v.sit = x /\ v.back = TRUE BY <1>8
<1>10. ~AtEnd(z, v) BY <1>9 DEF AtEnd
<1>11. x \in W OBVIOUS
<1> HIDE DEF v, W
<1>12. At(z, v, f, W, L) BY <1>2, <1>7, <1>9, <1>10, <1>11 DEF At
<1>13. Walk(z, v, K, A, f, W, L) BY <1>1, <1>5, <1>8, <1>9, <1>12 DEF Walk
<1> QED BY <1>2, <1>13 DEF v, W

\* It comes to a node and copies it.
LEMMA TurnCopies ==
  ASSUME NEW z, Job(z), NEW w, NEW K, NEW A, NEW f, NEW V, NEW L, Walk(z, w, K, A, f, V, L),
         ~AtEnd(z, w), ~w.back, w.sit # z.d, SpareNodes(w.t) # {}
  PROVE  /\ \E D, B, g : Walk(z, Copied(w), D, B, g, V \union {w.sit}, L)
         /\ w.sit \notin V
<1> DEFINE t == w.t
           x == w.sit
           W == V \union {x}
           c == Least(SpareNodes(t))
           u == WithNode(t, t.kind[x], w.dit, <<"last">>)
           r == CopyContents(u, c, x)
           g == [f EXCEPT ![x] = c]
           Y == HasCopy(f)
           q == z.kids[x]
<1>1. w \in Walks /\ Copying(z, t, K, A, f, Y) /\ Order(z, f, V, L) BY DEF Walk
<1>2. Here(z, f, L, x) /\ w.dit = f[z.t.parent[x]] /\ x \notin V BY DEF Walk, At
<1>3. Mapped(z, f) BY <1>1 DEF Copying
<1>4. NextToCopy(z, f, x) BY <1>1, <1>2, <1>3, HereIsNext
<1>5. c \in Nodes /\ \E D : Copying(z, u, D, A, g, Y)
  <2> HIDE DEF Y, x, t
  <2>1. SpareNodes(t) # {} BY DEF t
  <2>2. LET b == Least(SpareNodes(t)) IN
         /\ b \in Nodes
         /\ \E D : Copying(z, WithNode(t, t.kind[x], f[z.t.parent[x]], <<"last">>), D, A, [f EXCEPT ![x] = b], Y)
    BY ONLY Job(z), <1>1, <1>4, <2>1, LinkCopy
  <2> QED BY <2>2, <1>2
<1>6. x \in Nodes /\ x \in Before(z) /\ x # z.s /\ x \notin Y /\ x \notin L
  BY <1>2, <1>4 DEF NextToCopy, Before, HasCopy, Here
<1>7. f \in [Nodes -> Nodes \union {Null}] BY <1>3 DEF Mapped
<1>8. g[x] = c /\ c # Null /\ (\A y \in Nodes : y # x => g[y] = f[y]) /\ DOMAIN g = Nodes BY <1>5, <1>6, <1>7, RootIsNode
<1> HIDE DEF g
<1>9. HasCopy(g) = Y \union {x} BY <1>6, <1>8 DEF HasCopy
<1>10. PICK D : Copying(z, u, D, A, g, Y) BY <1>5
<1>11. \E B : Copying(z, r, D, B, g, HasCopy(g))
  <2> HIDE DEF u, Y, x
  <2>1. x \in HasCopy(g) BY <1>9
  <2>2. \E B : Copying(z, CopyContents(u, g[x], x), D, B, g, Y \union {x})
    BY ONLY Job(z), <1>10, <2>1, <1>6, FillCopy
  <2> QED BY <2>2, <1>8, <1>9
<1>12. PICK B : Copying(z, r, D, B, g, HasCopy(g)) BY <1>11
<1> HIDE DEF r
<1>13. Tree(r, D, B) /\ Mapped(z, g) /\ Others(z, r, D, B) BY <1>12 DEF Copying
<1>14. Order(z, g, W, L) /\ \A y : Has(q, y) => y \notin W
  <2> HIDE DEF x, Y
  <2>1. Y \subseteq HasCopy(g) /\ HasCopy(g) \subseteq Y \union {x} /\ (Room(z) => x = z.d \/ x \in HasCopy(g)) BY <1>9
  <2> QED BY <2>1, <1>1, <1>2, Enter DEF Y
<1>15. r.kids.first[x] = IF Len(q) = 0 THEN Null ELSE q[1] BY <1>6, <1>13, ReadsFirst
<1>16. Distinct(q) /\ q \in Seq(Nodes)
  <2>1. Held(z.t.kids, Nodes, z.kids) BY DEF Job, Tree
  <2> QED BY <2>1, <1>6, DistinctLists
<1>17. Len(q) \in Nat /\ \A i \in 1 .. Len(q) : q[i] \in Nodes BY <1>16
<1>18. r \in Trees BY <1>13 DEF Tree
<1>19. x \in HasCopy(g) /\ x \in W BY <1>9
<1>20. CASE Len(q) # 0
  <2> DEFINE y == q[1]
             v == [t |-> r, dit |-> c, sit |-> y, back |-> FALSE]
  <2>1. 1 \in 1 .. Len(q)
    <3> HIDE DEF q
    <3> QED BY <1>17, <1>20
  <2>2. y \in Nodes /\ Has(q, y) /\ r.kids.first[x] = y BY <2>1, <1>15, <1>17, <1>20 DEF Has
  <2>3. y # Null BY <2>2, RootIsNode
  <2>4. Copied(w) = v BY <2>2, <2>3 DEF Copied, r
  <2>5. z.t.parent[y] = x /\ IsNode(z.t, y) /\ y # Root
    <3>1. \A m \in Nodes : \A n : Has(z.kids[m], n) => n \in Nodes /\ z.t.parent[n] = m /\ IsNode(z.t, n) /\ n # Root
      BY JobIs
    <3> HIDE DEF y
    <3> QED BY <1>6, <2>2, <3>1
  <2>6. y # z.s BY <1>13, <1>19, <2>2, CopiedIsBefore
  <2>7. y \notin W BY <1>14, <2>2
  <2>8. y \notin L BY <2>7, <1>14 DEF Order
  <2>9. EarlierLeft(z, y, L)
    <3> SUFFICES ASSUME NEW i \in 1 .. Len(q), NEW k \in 1 .. Len(q), q[k] = y, i < k PROVE q[i] \in L
      BY <2>5 DEF EarlierLeft
    <3>1. k = 1 BY <1>16, <2>1 DEF Distinct
    <3> QED BY <3>1
  <2>10. Here(z, g, L, y) BY <2>2, <2>5, <2>6, <2>8, <2>9, <1>6, <1>19 DEF Here
  <2>11. v.t = r /\ v.dit = g[z.t.parent[y]] /\ v.sit = y /\ ~v.back BY <1>8, <2>5
  <2>12. v \in Walks BY <1>5, <1>18, <2>2 DEF Walks
  <2> HIDE DEF v, y, W
  <2>13. ~AtEnd(z, v) BY <2>3, <2>6, <2>11 DEF AtEnd
  <2>14. At(z, v, g, W, L) BY <2>7, <2>10, <2>11, <2>13 DEF At
  <2>15. Walk(z, v, D, B, g, W, L) BY <1>12, <1>14, <2>11, <2>12, <2>14 DEF Walk
  <2> QED BY <1>2, <2>4, <2>15 DEF W
<1>21. CASE Len(q) = 0
  <2> DEFINE v == [w EXCEPT !.t = r, !.back = TRUE]
  <2>1. Copied(w) = v BY <1>15, <1>21 DEF Copied, r
  <2>2. v.t = r /\ v.dit = w.dit /\ v.sit = x /\ v.back = TRUE BY <1>1 DEF Walks
  <2>3. v \in Walks BY <1>1, <1>18 DEF Walks
  <2>4. Below(z, x, W, L) BY <1>21 DEF Below, Has
  <2>5. Here(z, g, L, x)
    <3>1. Here(z, f, L, x) /\ z.t.parent[x] \in HasCopy(g) BY <1>2, <1>9 DEF Here
    <3> QED BY <3>1 DEF Here
  <2>6. v.dit = g[z.t.parent[x]]
    <3>1. z.t.parent[x] \in Y BY <1>2 DEF Here
    <3>2. z.t.parent[x] \in Nodes /\ z.t.parent[x] # x BY <3>1, <1>6 DEF HasCopy
    <3> QED BY <3>2, <1>2, <1>8, <2>2
  <2>7. ~AtEnd(z, w) OBVIOUS
  <2> HIDE DEF v, W
  <2>8. ~AtEnd(z, v) BY <2>2, <2>7 DEF AtEnd
  <2>9. At(z, v, g, W, L) BY <1>19, <2>2, <2>4, <2>5, <2>6, <2>8 DEF At
  <2>10. Walk(z, v, D, B, g, W, L) BY <1>12, <1>14, <2>2, <2>3, <2>9 DEF Walk
  <2> QED BY <1>2, <2>1, <2>10 DEF W
<1> QED BY <1>20, <1>21

\* The walk starts at the first child of z.s, with z.s copied and nothing come to.
LEMMA WalkStarts ==
  ASSUME NEW z, Job(z),
         NEW w, w = [t |-> CopyContents(z.t, z.d, z.s), dit |-> z.d, sit |-> z.t.kids.first[z.s], back |-> FALSE]
  PROVE  \E A, f : Walk(z, w, z.kids, A, f, {}, {})
<1> DEFINE f == [x \in Nodes |-> IF x = z.s THEN z.d ELSE Null]
           r == CopyContents(z.t, z.d, z.s)
           q == z.kids[z.s]
           y == q[1]
<1>1. z.s \in Nodes /\ z.d \in Nodes /\ z.s \in Before(z) /\ z.d # Null BY JobIs, RootIsNode DEF Job
<1>2. f[z.s] = z.d BY <1>1
<1>3. f = [x \in Nodes |-> IF x = z.s THEN z.d ELSE Null] OBVIOUS
<1> HIDE DEF f
<1>4. Copying(z, z.t, z.kids, z.attrs, f, {}) /\ HasCopy(f) = {z.s} BY <1>3, StartCopy
<1>5. \E A : Copying(z, r, z.kids, A, f, HasCopy(f))
  <2> DEFINE t == z.t
             K == z.kids
             A == z.attrs
             x == z.s
             Y == {}
  <2>1. Copying(z, t, K, A, f, Y) /\ x \in HasCopy(f) /\ x \notin Y BY <1>4
  <2> HIDE DEF t, K, A, x, Y
  <2>2. \E B : Copying(z, CopyContents(t, f[x], x), K, B, f, Y \union {x}) BY ONLY Job(z), <2>1, FillCopy
  <2>3. Y \union {x} = HasCopy(f) BY <1>4 DEF Y, x
  <2> QED BY <2>2, <2>3, <1>2 DEF t, K, x
<1>6. PICK A : Copying(z, r, z.kids, A, f, HasCopy(f)) BY <1>5
<1>7. Tree(r, z.kids, A) /\ Mapped(z, f) BY <1>6 DEF Copying
<1>8. w = [t |-> r, dit |-> z.d, sit |-> z.t.kids.first[z.s], back |-> FALSE] OBVIOUS
<1> HIDE DEF r
<1>9. Order(z, f, {}, {}) BY <1>4 DEF Order
<1>10. z.t.kids.first[z.s] = IF Len(q) = 0 THEN Null ELSE y
  <2>1. Held(z.t.kids, Nodes, z.kids) BY DEF Job, Tree
  <2>2. Chain(z.t.kids, z.s, q) BY <2>1, <1>1 DEF Held
  <2> QED BY <2>2 DEF Chain
<1>11. Distinct(q) /\ q \in Seq(Nodes)
  <2>1. Held(z.t.kids, Nodes, z.kids) BY DEF Job, Tree
  <2> QED BY <2>1, <1>1, DistinctLists
<1>12. Len(q) \in Nat /\ \A i \in 1 .. Len(q) : q[i] \in Nodes BY <1>11
<1>13. r \in Trees BY <1>7 DEF Tree
<1>14. CASE Len(q) = 0
  <2>1. w.t = r /\ w.sit = Null BY <1>8, <1>10, <1>14
  <2>2. w \in Walks BY <1>1, <1>8, <1>10, <1>13, <1>14 DEF Walks
  <2>3. Below(z, z.s, {}, {}) BY <1>14 DEF Below, Has
  <2>4. At(z, w, f, {}, {}) BY <2>1, <2>3 DEF At, AtEnd
  <2> QED BY <2>1, <2>2, <2>4, <1>6, <1>9 DEF Walk
<1>15. CASE Len(q) # 0
  <2>1. 1 \in 1 .. Len(q)
    <3> HIDE DEF q
    <3> QED BY <1>12, <1>15
  <2>2. y \in Nodes /\ Has(q, y) BY <2>1, <1>12 DEF Has
  <2>3. y # Null BY <2>2, RootIsNode
  <2>4. w.t = r /\ w.sit = y /\ w.dit = z.d /\ w.back = FALSE BY <1>8, <1>10, <1>15
  <2>5. w \in Walks BY <1>1, <1>8, <1>10, <1>13, <1>15, <2>2 DEF Walks
  <2>6. z.t.parent[y] = z.s /\ IsNode(z.t, y) /\ y # Root
    <3>1. \A m \in Nodes : \A n : Has(z.kids[m], n) => n \in Nodes /\ z.t.parent[n] = m /\ IsNode(z.t, n) /\ n # Root
      BY JobIs
    <3> HIDE DEF y
    <3> QED BY <1>1, <2>2, <3>1
  <2>7. y # z.s BY <1>1, <2>6, NoParentOfItself
  <2>8. EarlierLeft(z, y, {})
    <3> SUFFICES ASSUME NEW i \in 1 .. Len(q), NEW k \in 1 .. Len(q), q[k] = y, i < k PROVE FALSE
      BY <2>6 DEF EarlierLeft
    <3>1. k = 1 BY <1>11, <2>1 DEF Distinct
    <3> QED BY <3>1
  <2>9. Here(z, f, {}, y) BY <2>2, <2>6, <2>7, <2>8, <1>4 DEF Here
  <2> HIDE DEF y
  <2>10. ~AtEnd(z, w) BY <2>3, <2>4, <2>7 DEF AtEnd
  <2>11. At(z, w, f, {}, {}) BY <1>2, <2>4, <2>6, <2>9, <2>10 DEF At
  <2> QED BY <2>4, <2>5, <2>11, <1>6, <1>9 DEF Walk
<1> QED BY <1>14, <1>15

\* Every turn comes to a node or leaves one.
Walking(z, w, k) ==
  \E K, A, f, V, L :
    Walk(z, w, K, A, f, V, L) /\ (~AtEnd(z, w) => Cardinality(V) + Cardinality(L) = k)

\* So the walk goes on, and the count with it.
LEMMA TurnIs ==
  ASSUME NEW z, Job(z), NEW w, NEW k \in Nat, Walking(z, w, k)
  PROVE  Walking(z, CopyTurn(w, z.d, z.s), k + 1)
<1>1. PICK K, A, f, V, L : Walk(z, w, K, A, f, V, L) /\ (~AtEnd(z, w) => Cardinality(V) + Cardinality(L) = k)
  BY DEF Walking
<1>2. V \subseteq Nodes /\ L \subseteq V BY <1>1 DEF Walk, Order
<1>3. IsFiniteSet(V) /\ IsFiniteSet(L) /\ Cardinality(V) \in Nat /\ Cardinality(L) \in Nat BY <1>2, NodesFinite
<1>4. ASSUME w.sit \notin V, Cardinality(V) + Cardinality(L) = k PROVE Cardinality(V \union {w.sit}) + Cardinality(L) = k + 1
  <2>1. Cardinality(V \union {w.sit}) = Cardinality(V) + 1 BY <1>3, <1>4, FS_AddElement
  <2> DEFINE x == Cardinality(V)
             y == Cardinality(L)
  <2>2. Cardinality(V \union {w.sit}) = x + 1 /\ x + y = k /\ x \in Nat /\ y \in Nat BY <1>3, <1>4, <2>1
  <2> HIDE DEF x, y
  <2>3. (x + 1) + y = k + 1 BY <2>2
  <2> QED BY <2>2, <2>3 DEF y
<1>5. ASSUME w.sit \notin L, Cardinality(V) + Cardinality(L) = k PROVE Cardinality(V) + Cardinality(L \union {w.sit}) = k + 1
  <2>1. Cardinality(L \union {w.sit}) = Cardinality(L) + 1 BY <1>3, <1>5, FS_AddElement
  <2> DEFINE x == Cardinality(V)
             y == Cardinality(L)
  <2>2. Cardinality(L \union {w.sit}) = y + 1 /\ x + y = k /\ x \in Nat /\ y \in Nat BY <1>3, <1>5, <2>1
  <2> HIDE DEF x, y
  <2>3. x + (y + 1) = k + 1 BY <2>2
  <2> QED BY <2>2, <2>3 DEF x
<1>6. CASE AtEnd(z, w)
  <2>1. CopyTurn(w, z.d, z.s) = w BY <1>6 DEF CopyTurn, AtEnd
  <2>2. Walking(z, w, k + 1) BY <1>1, <1>6 DEF Walking
  <2> QED BY <2>1, <2>2
<1>7. CASE ~AtEnd(z, w) /\ w.back
  <2>1. CopyTurn(w, z.d, z.s) = Back(w) BY <1>7 DEF CopyTurn, AtEnd
  <2>2. Walk(z, Back(w), K, A, f, V, L \union {w.sit}) /\ w.sit \notin L BY <1>1, <1>7, TurnBack
  <2>3. Walking(z, Back(w), k + 1) BY <1>1, <1>5, <1>7, <2>2 DEF Walking
  <2> QED BY <2>1, <2>3
<1>8. CASE ~AtEnd(z, w) /\ ~w.back /\ (w.sit = z.d \/ SpareNodes(w.t) = {})
  <2> DEFINE v == [w EXCEPT !.back = TRUE]
  <2>1. CopyTurn(w, z.d, z.s) = v BY <1>8 DEF CopyTurn, AtEnd
  <2>2. Walk(z, v, K, A, f, V \union {w.sit}, L) /\ w.sit \notin V BY <1>1, <1>8, TurnPast
  <2> HIDE DEF v
  <2>3. Walking(z, v, k + 1) BY <1>1, <1>4, <1>8, <2>2 DEF Walking
  <2> QED BY <2>1, <2>3
<1>9. CASE ~AtEnd(z, w) /\ ~w.back /\ w.sit # z.d /\ SpareNodes(w.t) # {}
  <2>1. CopyTurn(w, z.d, z.s) = Copied(w) BY <1>9 DEF CopyTurn, AtEnd
  <2>2. (\E D, B, g : Walk(z, Copied(w), D, B, g, V \union {w.sit}, L)) /\ w.sit \notin V BY <1>1, <1>9, TurnCopies
  <2>3. PICK D, B, g : Walk(z, Copied(w), D, B, g, V \union {w.sit}, L) BY <2>2
  <2>4. Walking(z, Copied(w), k + 1) BY <1>1, <1>4, <1>9, <2>2, <2>3 DEF Walking
  <2> QED BY <2>1, <2>4
<1> QED BY <1>6, <1>7, <1>8, <1>9

\* A node is come to once and left once, and z.s never: the walk ends.
LEMMA WalkEnds ==
  ASSUME NEW z, Job(z), NEW w, Walking(z, w, 2 * MaxNodes)
  PROVE  AtEnd(z, w)
<1> SUFFICES ASSUME ~AtEnd(z, w) PROVE FALSE OBVIOUS
<1>1. PICK K, A, f, V, L : Walk(z, w, K, A, f, V, L) /\ Cardinality(V) + Cardinality(L) = 2 * MaxNodes
  BY DEF Walking
<1>2. V \subseteq Nodes /\ L \subseteq V /\ z.s \notin V /\ z.s \in Nodes BY <1>1 DEF Walk, Order, Job
<1>3. /\ Cardinality(V) \in Nat /\ Cardinality(V) <= MaxNodes /\ (Cardinality(V) = MaxNodes => V = Nodes)
      /\ Cardinality(L) \in Nat /\ Cardinality(L) <= MaxNodes /\ (Cardinality(L) = MaxNodes => L = Nodes)
  BY <1>2, NodesFinite
<1>4. Cardinality(V) # MaxNodes /\ Cardinality(L) # MaxNodes BY <1>2, <1>3
<1> DEFINE x == Cardinality(V)
           y == Cardinality(L)
<1>5. x \in Nat /\ y \in Nat /\ x <= MaxNodes /\ y <= MaxNodes /\ x # MaxNodes /\ y # MaxNodes /\ x + y = 2 * MaxNodes
      /\ MaxNodes \in Nat
  BY <1>1, <1>3, <1>4, TreeAssumption
<1> HIDE DEF x, y
<1> QED BY <1>5

\* The turns lead from V to V.
TurnsWithin(V, d, s) == \A w \in V : CopyTurn(w, d, s) \in V

Turns(h, n, V, v, d, s) ==
  /\ h \in [0 .. n -> V] /\ h[0] = v
  /\ \A k \in 1 .. n : h[k] = CopyTurn(h[k - 1], d, s)

\* Turns that stay within V follow one another as often as one likes.
LEMMA TurnsFollow ==
  ASSUME NEW n \in Nat, NEW V, NEW v \in V, NEW d, NEW s, TurnsWithin(V, d, s)
  PROVE  \E h : Turns(h, n, V, v, d, s)
<1> DEFINE S == [w \in V |-> CopyTurn(w, d, s)]
<1>1. S \in [V -> V] BY DEF TurnsWithin
<1>2. \A w \in V : S[w] = CopyTurn(w, d, s) OBVIOUS
<1> HIDE DEF S
<1>0. n \in Nat /\ v \in V OBVIOUS
<1>2b. PICK h : Iterated(h, n, V, v, S) BY ONLY <1>0, <1>1, Iteration, Zenon
<1>3. h \in [0 .. n -> V] /\ h[0] = v /\ \A k \in 1 .. n : h[k] = S[h[k - 1]] BY <1>2b DEF Iterated
<1>4. ASSUME NEW k \in 1 .. n PROVE h[k] = CopyTurn(h[k - 1], d, s)
  <2>1. k - 1 \in 0 .. n OBVIOUS
  <2>2. h[k - 1] \in V BY <1>3, <2>1
  <2> QED BY <2>2, <1>2, <1>3
<1> QED BY <1>3, <1>4 DEF Turns

\* CopyTree is where the walk has come to after its turns.
LEMMA CopyTreeIs ==
  ASSUME NEW z, Job(z)
  PROVE  \E w : CopyTree(z.t, z.d, z.s) = w.t /\ Walking(z, w, 2 * MaxNodes)
<1> DEFINE n == 2 * MaxNodes
           d == z.d
           s == z.s
           v0 == [t |-> CopyContents(z.t, z.d, z.s), dit |-> z.d, sit |-> z.t.kids.first[z.s], back |-> FALSE]
           F(h) == [k \in 0 .. 2 * MaxNodes |-> IF k = 0 THEN v0 ELSE CopyTurn(h[k - 1], z.d, z.s)]
           V == {w \in Walks : \E k \in Nat : Walking(z, w, k)}
<1>1. n \in Nat BY TreeAssumption
<1>2. Walking(z, v0, 0) /\ v0 \in Walks
  <2>1. v0 = [t |-> CopyContents(z.t, z.d, z.s), dit |-> z.d, sit |-> z.t.kids.first[z.s], back |-> FALSE] OBVIOUS
  <2> HIDE DEF v0
  <2>2. PICK A, f : Walk(z, v0, z.kids, A, f, {}, {}) BY <2>1, WalkStarts
  <2>3. Cardinality({}) + Cardinality({}) = 0 BY FS_EmptySet
  <2> QED BY <2>2, <2>3 DEF Walking, Walk
<1>3. v0 \in V BY <1>2
<1>4. \A w, k : Walking(z, w, k) => w \in Walks BY DEF Walking, Walk
<1>5. TurnsWithin(V, d, s)
  <2> SUFFICES ASSUME NEW w \in V PROVE CopyTurn(w, d, s) \in V BY DEF TurnsWithin
  <2>1. PICK k \in Nat : Walking(z, w, k) OBVIOUS
  <2>2. Walking(z, CopyTurn(w, z.d, z.s), k + 1) BY <2>1, TurnIs
  <2>3. k + 1 \in Nat OBVIOUS
  <2> QED BY <2>2, <2>3, <1>4
<1> HIDE DEF v0
<1>6. \E h : h = F(h)
  <2> HIDE DEF V
  <2>1. PICK h \in [0 .. n -> V] : h[0] = v0 /\ \A k \in 1 .. n : h[k] = CopyTurn(h[k - 1], d, s)
    <3> HIDE DEF n, d, s
    <3>1. \E h : Turns(h, n, V, v0, d, s) BY ONLY <1>1, <1>3, <1>5, TurnsFollow
    <3> QED BY <3>1 DEF Turns
  <2>2. ASSUME NEW k \in 0 .. n PROVE h[k] = IF k = 0 THEN v0 ELSE CopyTurn(h[k - 1], d, s)
    <3>1. CASE k = 0 BY <3>1, <2>1
    <3>2. CASE k # 0
      <4>1. k \in 1 .. n BY <3>2, <1>1
      <4> QED BY <3>2, <4>1, <2>1
    <3> QED BY <3>1, <3>2
  <2>3. h = [k \in 0 .. n |-> h[k]] BY <2>1
  <2>4. h = [k \in 0 .. n |-> IF k = 0 THEN v0 ELSE CopyTurn(h[k - 1], d, s)] BY <2>2, <2>3
  <2>5. F(h) = [k \in 0 .. n |-> IF k = 0 THEN v0 ELSE CopyTurn(h[k - 1], d, s)] BY Zenon
  <2>6. h = F(h) BY <2>4, <2>5
  <2> HIDE DEF F
  <2> QED BY <2>6
<1> DEFINE f == CHOOSE h : h = F(h)
<1>7. f = F(f)
  <2> HIDE DEF F
  <2> QED BY <1>6
<1>8. CopyTree(z.t, z.d, z.s) = f[2 * MaxNodes].t BY DEF CopyTree, v0
<1>9. f[0] = v0 /\ \A k \in 1 .. n : f[k] = CopyTurn(f[k - 1], d, s)
  <2> HIDE DEF f
  <2>1. f = [k \in 0 .. n |-> IF k = 0 THEN v0 ELSE CopyTurn(f[k - 1], d, s)] BY <1>7, Zenon
  <2> HIDE DEF F, n
  <2>2. \A k \in 0 .. n : f[k] = IF k = 0 THEN v0 ELSE CopyTurn(f[k - 1], d, s) BY <2>1, Zenon
  <2>3. 0 \in 0 .. n /\ \A k \in 1 .. n : k \in 0 .. n /\ k # 0 BY <1>1
  <2> QED BY <2>2, <2>3
<1> HIDE DEF f, F, V
<1>10. \A k \in Nat : k <= n => Walking(z, f[k], k)
  <2> DEFINE T == {k \in Nat : k <= n => Walking(z, f[k], k)}
  <2>1. 0 \in T BY <1>2, <1>9
  <2>2. ASSUME NEW k \in Nat, k \in T PROVE k + 1 \in T
    <3> SUFFICES ASSUME k + 1 <= n PROVE Walking(z, f[k + 1], k + 1) OBVIOUS
    <3>1. k <= n /\ k + 1 \in 1 .. n /\ (k + 1) - 1 = k BY <1>1
    <3>2. Walking(z, f[k], k) BY <2>2, <3>1
    <3>3. f[k + 1] = CopyTurn(f[k], d, s) BY <1>9, <3>1
    <3> QED BY <3>2, <3>3, TurnIs
  <2> HIDE DEF T
  <2>3. \A k \in Nat : k \in T BY <2>1, <2>2, SetInduction
  <2> QED BY <2>3 DEF T
<1>11. Walking(z, f[n], n)
  <2>1. n <= n BY <1>1
  <2> HIDE DEF n
  <2> QED BY <2>1, <1>1, <1>10
<1> QED BY <1>8, <1>11

\* There the walk is at its end.
LEMMA CopyTreeEnds ==
  ASSUME NEW z, Job(z)
  PROVE  \E K, A, f, V, L :
           /\ Copying(z, CopyTree(z.t, z.d, z.s), K, A, f, HasCopy(f))
           /\ Order(z, f, V, L) /\ Below(z, z.s, V, L)
<1>1. PICK w : CopyTree(z.t, z.d, z.s) = w.t /\ Walking(z, w, 2 * MaxNodes) BY CopyTreeIs
<1>2. AtEnd(z, w) BY <1>1, WalkEnds
<1>3. PICK K, A, f, V, L : Walk(z, w, K, A, f, V, L) BY <1>1 DEF Walking
<1> QED BY <1>1, <1>2, <1>3 DEF Walk, At

\* g leads from what is under s to a copy of it.
CopyOf(z, t, K, A, g) ==
  /\ g \in Bijection(Down(z.old, z.s), Down(K, z.d)) /\ g[z.s] = z.d
  /\ \A x \in Down(z.old, z.s) :
       /\ t.kind[g[x]] = z.t.kind[x] /\ Len(A[g[x]]) = Len(z.attrs[x])
       /\ K[g[x]] = [i \in DOMAIN z.old[x] |-> g[z.old[x][i]]]

\* The walk has left everything that it came to, and it came to everything.
LEMMA AllCopied ==
  ASSUME NEW z, Job(z), Room(z), NEW f, Mapped(z, f), NEW V, NEW L, Order(z, f, V, L), Below(z, z.s, V, L)
  PROVE  HasCopy(f) = Down(z.old, z.s)
<1> DEFINE M == (L \ {z.d}) \union {z.s}
<1>1. /\ V \subseteq Nodes /\ L \subseteq V /\ HasCopy(f) \subseteq V \union {z.s} /\ V \subseteq HasCopy(f) \union {z.d}
      /\ \A x \in L : \A y : Has(z.kids[x], y) => y \in V
      /\ \A x \in V : z.t.parent[x] \in L => x \in L
  BY DEF Order
<1>2. /\ \A y : Has(z.kids[z.s], y) => y \in V
      /\ \A y : Has(z.kids[z.s], y) /\ y \in V => y \in L
  BY DEF Below
<1>3. z.s \in Nodes /\ z.old \in [Nodes -> Seq(Nodes)] /\ z.s \in HasCopy(f)
  <2>1. z.s \in Nodes /\ z.d \in Nodes /\ f[z.s] = z.d /\ z.old \in [Nodes -> Seq(Nodes)] BY DEF Mapped, Job
  <2> QED BY <2>1, RootIsNode DEF HasCopy
<1>4. ASSUME NEW m \in M, NEW y, Has(z.old[m], y) PROVE y \in M
  <2>1. m \in Nodes BY <1>1, <1>3
  <2>2. Has(z.kids[m], y) /\ y # z.d BY <1>4, <2>1 DEF Job
  <2>3. CASE m = z.s BY <2>2, <2>3, <1>2
  <2>4. CASE m \in L
    <3>1. z.t.parent[y] = m BY <2>1, <2>2, JobIs
    <3> QED BY <3>1, <2>2, <2>4, <1>1
  <2> QED BY <2>3, <2>4
<1>5. Closed(z.old, z.s, M)
  <2>1. \A m \in M : \A i \in 1 .. Len(z.old[m]) : z.old[m][i] \in M BY <1>4 DEF Has
  <2>2. M \subseteq Nodes /\ z.s \in M BY <1>1, <1>3
  <2> HIDE DEF M
  <2> QED BY <2>1, <2>2 DEF Closed
<1>6. M \in SUBSET Nodes BY <1>1, <1>3
<1>7. Down(z.old, z.s) \subseteq M
  <2> HIDE DEF M
  <2> QED BY <1>3, <1>5, <1>6, DownIsClosed
<1>8. M \subseteq HasCopy(f) BY <1>1, <1>3
<1>9. HasCopy(f) \subseteq Down(z.old, z.s) BY DEF Mapped
<1> QED BY <1>7, <1>8, <1>9

\* A list of which every member has been copied.
LEMMA WhollyCopied ==
  ASSUME NEW w \in Seq(Nodes), NEW v \in Seq(Nodes), NEW f, CopiedPart(w, v, f),
         \A i \in 1 .. Len(w) : f[w[i]] # Null
  PROVE  Len(v) = Len(w) /\ v = [i \in DOMAIN w |-> f[w[i]]]
<1>1. Len(v) \in Nat /\ Len(w) \in Nat /\ DOMAIN v = 1 .. Len(v) /\ DOMAIN w = 1 .. Len(w) /\ v = [i \in 1 .. Len(v) |-> v[i]]
  OBVIOUS
<1>2. /\ Len(v) <= Len(w) /\ \A i \in 1 .. Len(v) : v[i] = f[w[i]]
      /\ \A i \in 1 .. Len(w) : f[w[i]] # Null <=> i <= Len(v)
  BY DEF CopiedPart
<1>3. Len(v) = Len(w)
  <2> DEFINE m == Len(v)
             n == Len(w)
  <2>1. m \in Nat /\ n \in Nat /\ m <= n /\ \A i \in 1 .. n : i <= m BY <1>1, <1>2
  <2> HIDE DEF m, n
  <2>2. n \in 1 .. n \/ n = 0 BY <2>1
  <2>3. n \in 1 .. n => n <= m BY <2>1
  <2>4. m = n BY <2>1, <2>2, <2>3
  <2> QED BY <2>4 DEF m, n
<1> QED BY <1>1, <1>2, <1>3

\* With room for all of it, the copy has the shape of what was copied.
LEMMA CopyHasShape ==
  ASSUME NEW z, Job(z), Room(z), NEW t, NEW K, NEW A, NEW f, Copying(z, t, K, A, f, HasCopy(f)),
         HasCopy(f) = Down(z.old, z.s)
  PROVE  \E g : CopyOf(z, t, K, A, g)
<1> DEFINE H == HasCopy(f)
           I == {f[x] : x \in H}
           g == [x \in H |-> f[x]]
<1>1. Mapped(z, f) /\ Copies(z, t, f) /\ Shaped(z, K, A, f, H) /\ Tree(t, K, A) BY DEF Copying
<1>2. /\ H \subseteq Nodes /\ z.s \in H /\ f[z.s] = z.d /\ z.d \in Nodes /\ z.s \in Nodes
      /\ \A x \in H : f[x] \in Nodes /\ f[x] # Null
      /\ \A x, y \in H : f[x] = f[y] => x = y
  <2>1. z.s \in Nodes /\ z.d \in Nodes /\ f[z.s] = z.d /\ f \in [Nodes -> Nodes \union {Null}]
        /\ \A x, y \in Nodes : f[x] # Null /\ f[x] = f[y] => x = y
    BY <1>1 DEF Mapped, Job
  <2> QED BY <2>1, RootIsNode DEF HasCopy
<1>3. z.old \in [Nodes -> Seq(Nodes)] /\ K \in [Nodes -> Seq(Nodes)] BY <1>1, TreeTyped DEF Job
<1>4. Closed(z.old, z.s, H) BY SourceIsTop
<1>5. \A x \in H : \A i \in 1 .. Len(z.old[x]) : z.old[x][i] \in H BY <1>4 DEF Closed
<1>6. ASSUME NEW x \in H
      PROVE  Len(K[f[x]]) = Len(z.old[x]) /\ K[f[x]] = [i \in DOMAIN z.old[x] |-> f[z.old[x][i]]]
  <2> DEFINE w == z.old[x]
             v == K[f[x]]
  <2>1. w \in Seq(Nodes) /\ v \in Seq(Nodes) BY <1>2, <1>3
  <2>2. CopiedPart(w, v, f) BY <1>1 DEF Shaped
  <2>3. \A i \in 1 .. Len(w) : f[w[i]] # Null BY <1>2, <1>5
  <2> HIDE DEF w, v
  <2>4. Len(v) = Len(w) /\ v = [i \in DOMAIN w |-> f[w[i]]] BY <2>1, <2>2, <2>3, WhollyCopied
  <2> QED BY <2>4 DEF w, v
<1>7. \A x \in H : DOMAIN z.old[x] = 1 .. Len(z.old[x]) BY <1>2, <1>3
<1>8. \A x \in H : \A i \in 1 .. Len(z.old[x]) : K[f[x]][i] = f[z.old[x][i]]
  <2> SUFFICES ASSUME NEW x \in H, NEW i \in 1 .. Len(z.old[x]) PROVE K[f[x]][i] = f[z.old[x][i]] OBVIOUS
  <2> DEFINE w == z.old[x]
             v == K[f[x]]
  <2>1. v = [j \in DOMAIN w |-> f[w[j]]] /\ i \in DOMAIN w BY <1>6, <1>7
  <2> HIDE DEF w, v
  <2>2. v[i] = f[w[i]] BY <2>1
  <2> QED BY <2>2 DEF w, v
<1>9. Down(K, z.d) \subseteq I
  <2>1. Closed(K, z.d, I)
    <3>1. I \subseteq Nodes /\ z.d \in I BY <1>2
    <3>2. ASSUME NEW x \in H, NEW i \in 1 .. Len(K[f[x]]) PROVE K[f[x]][i] \in I
      <4>1. i \in 1 .. Len(z.old[x]) BY <1>6, <3>2
      <4> QED BY <4>1, <1>5, <1>8
    <3>3. \A m \in I : \A i \in 1 .. Len(K[m]) : K[m][i] \in I BY <3>2
    <3> HIDE DEF I
    <3> QED BY <3>1, <3>3 DEF Closed
  <2>2. I \in SUBSET Nodes BY <1>2
  <2> HIDE DEF I
  <2> QED BY <2>1, <2>2, <1>2, <1>3, DownIsClosed
<1>10. I \subseteq Down(K, z.d)
  <2> DEFINE D == Down(K, z.d)
             J == {x \in H : f[x] \in D}
  <2>1. Closed(K, z.d, D) BY <1>2, <1>3, DownIsClosed
  <2>2. z.d \in D /\ \A m \in D : \A i \in 1 .. Len(K[m]) : K[m][i] \in D BY <2>1 DEF Closed
  <2>3. Closed(z.old, z.s, J)
    <3>1. J \subseteq Nodes /\ z.s \in J BY <1>2, <2>2
    <3>2. ASSUME NEW x \in J, NEW i \in 1 .. Len(z.old[x]) PROVE z.old[x][i] \in J
      <4>1. x \in H /\ f[x] \in D OBVIOUS
      <4>2. i \in 1 .. Len(K[f[x]]) BY <1>6, <4>1
      <4>3. K[f[x]][i] \in D BY <2>2, <4>1, <4>2
      <4> QED BY <4>1, <4>3, <1>5, <1>8
    <3> HIDE DEF J
    <3> QED BY <3>1, <3>2 DEF Closed
  <2>4. J \in SUBSET Nodes BY <1>2
  <2>5. Down(z.old, z.s) \subseteq J
    <3> HIDE DEF J
    <3> QED BY <2>3, <2>4, <1>2, <1>3, DownIsClosed
  <2>6. H \subseteq J BY <2>5
  <2> QED BY <2>6
<1>11. Down(K, z.d) = I BY <1>9, <1>10
<1>12. g \in Bijection(H, I)
  <2>1. g \in [H -> I] OBVIOUS
  <2>2. \A x, y \in H : g[x] = g[y] => x = y BY <1>2
  <2>3. \A y \in I : \E x \in H : g[x] = y OBVIOUS
  <2> HIDE DEF g, H, I
  <2> QED BY <2>1, <2>2, <2>3 DEF Bijection, Injection, Surjection, IsInjective
<1>13. \A x \in H : t.kind[f[x]] = z.t.kind[x] /\ Len(A[f[x]]) = Len(z.attrs[x]) BY <1>1 DEF Copies, Shaped
<1>14. \A x \in H : g[x] = f[x] OBVIOUS
<1>15. ASSUME NEW x \in H PROVE K[g[x]] = [i \in DOMAIN z.old[x] |-> g[z.old[x][i]]]
  <2>1. \A i \in DOMAIN z.old[x] : g[z.old[x][i]] = f[z.old[x][i]] BY <1>5, <1>7
  <2> HIDE DEF g
  <2>2. [i \in DOMAIN z.old[x] |-> g[z.old[x][i]]] = [i \in DOMAIN z.old[x] |-> f[z.old[x][i]]] BY <2>1
  <2> QED BY <2>2, <1>6, <1>14
<1> HIDE DEF g, I
<1>16. H = Down(z.old, z.s) OBVIOUS
<1> HIDE DEF H
<1>17. CopyOf(z, t, K, A, g) BY <1>2, <1>11, <1>12, <1>13, <1>14, <1>15, <1>16 DEF CopyOf
<1> QED BY <1>17

\* An insertion keeps the order of all that was there.
LEMMA InsKeepsOrder ==
  ASSUME NEW M, NEW s \in Seq(M), NEW p \in 1 .. Len(s) + 1, NEW x \in M
  PROVE  InOrderOf(s, Ins(s, p, x), {})
<1> DEFINE z == Ins(s, p, x)
           n == Len(s)
<1>1. n \in Nat /\ p \in 1 .. n + 1 /\ Len(z) = n + 1
      /\ \A i \in 1 .. n + 1 : z[i] = IF i < p THEN s[i] ELSE IF i = p THEN x ELSE s[i - 1]
  BY InsType
<1> HIDE DEF z
<1>2. ASSUME NEW i \in 1 .. n, NEW j \in 1 .. n, i < j
      PROVE  \E k, m \in 1 .. Len(z) : k < m /\ z[k] = s[i] /\ z[m] = s[j]
  <2> DEFINE New(a) == IF a < p THEN a ELSE a + 1
  <2>1. ASSUME NEW a \in 1 .. n PROVE New(a) \in 1 .. n + 1 /\ z[New(a)] = s[a]
    <3> HIDE DEF n
    <3>1. CASE a < p BY <3>1, <1>1
    <3>2. CASE ~(a < p)
      <4>1. a + 1 \in 1 .. n + 1 /\ ~(a + 1 < p) /\ a + 1 # p /\ (a + 1) - 1 = a BY <3>2, <1>1
      <4> QED BY <4>1, <3>2, <1>1
    <3> QED BY <3>1, <3>2
  <2>2. New(i) < New(j)
    <3> HIDE DEF n
    <3> QED BY <1>1, <1>2
  <2>3. New(i) \in 1 .. n + 1 /\ z[New(i)] = s[i] /\ New(j) \in 1 .. n + 1 /\ z[New(j)] = s[j] BY <2>1
  <2> HIDE DEF New, n
  <2> QED BY <2>2, <2>3, <1>1
<1> QED BY <1>2 DEF InOrderOf, z

\* What copy_tree starts from, when the copy has been made and linked.
LEMMA JobStarts ==
  ASSUME NEW t, NEW K, NEW A, Tree(t, K, A), NEW s \in Nodes, IsNode(t, s), s # Root, NEW n \in Nodes, IsNode(t, n),
         NEW d \in Nodes, ~IsNode(t, d), NEW i \in 1 .. Len(K[n]) + 1,
         NEW r, r.kind = [t.kind EXCEPT ![d] = t.kind[s]], NEW L, L = [K EXCEPT ![n] = Ins(K[n], i, d)], Tree(r, L, A)
  PROVE  Job([t |-> r, kids |-> L, attrs |-> A, old |-> K, s |-> s, d |-> d])
<1> DEFINE z == [t |-> r, kids |-> L, attrs |-> A, old |-> K, s |-> s, d |-> d]
<1>1. z.t = r /\ z.kids = L /\ z.attrs = A /\ z.old = K /\ z.s = s /\ z.d = d OBVIOUS
<1>2. K \in [Nodes -> Seq(Nodes)] /\ t \in Trees /\ \A m \in Nodes : Distinct(K[m]) BY TreeTyped
<1>3. L[n] = Ins(K[n], i, d) /\ \A m \in Nodes : m # n => L[m] = K[m] BY <1>2
<1>4. t.kind \in [Nodes -> Kinds] BY <1>2 DEF Trees
<1>5. r.kind[d] = t.kind[s] /\ \A m \in Nodes : m # d => r.kind[m] = t.kind[m] BY <1>4
<1>6. s # d /\ d # n OBVIOUS
<1>7. IsNode(r, s) /\ IsNode(r, d) /\ r.kind[d] = r.kind[s] BY <1>5, <1>6 DEF IsNode
<1>8. Len(K[d]) = 0 /\ Len(A[d]) = 0 BY DEF Tree
<1>9. Len(L[d]) = 0 BY <1>3, <1>6, <1>8
<1>10. ASSUME NEW m \in Nodes PROVE InOrderOf(K[m], L[m], {})
  <2>1. K[m] \in Seq(Nodes) BY <1>2
  <2>2. CASE m = n BY <2>1, <2>2, <1>3, InsKeepsOrder
  <2>3. CASE m # n
    <3>1. InOrderOf(K[m], K[m], {}) BY DEF InOrderOf
    <3> QED BY <3>1, <2>3, <1>3
  <2> QED BY <2>2, <2>3
<1>11. \A m \in Nodes : ~Has(K[m], d)
  <2>1. Unlisted(K, d) BY FreeUnlisted
  <2> QED BY <2>1 DEF Unlisted
<1>12. ASSUME NEW m \in Nodes, NEW y
       PROVE  Has(L[m], y) /\ y # d => Has(K[m], y)
  <2>1. K[m] \in Seq(Nodes) BY <1>2
  <2>2. CASE m = n
    <3>1. Has(L[m], y) <=> y = d \/ Has(K[m], y) BY <2>1, <2>2, <1>3, InsHas
    <3> QED BY <3>1
  <2>3. CASE m # n BY <2>3, <1>3
  <2> QED BY <2>2, <2>3
<1>13. ASSUME NEW m \in Nodes, NEW y
       PROVE  Has(K[m], y) => Has(L[m], y) /\ y # d
  <2>1. K[m] \in Seq(Nodes) BY <1>2
  <2>2. CASE m = n
    <3>1. Has(L[m], y) <=> y = d \/ Has(K[m], y) BY <2>1, <2>2, <1>3, InsHas
    <3> QED BY <3>1, <1>11
  <2>3. CASE m # n BY <2>3, <1>3, <1>11
  <2> QED BY <2>2, <2>3
<1> HIDE DEF z
<1> QED BY <1>1, <1>2, <1>6, <1>7, <1>8, <1>9, <1>10, <1>12, <1>13 DEF Job

\* The attributes in the lists of the nodes S.
LEMMA AttributesIn ==
  ASSUME NEW A \in [Nodes -> Seq(Attributes)], NEW S, S \subseteq Nodes
  PROVE  UNION {Ordered!ToSet(A[m]) : m \in S} = {a \in Attributes : \E x \in S : Has(A[x], a)}
<1>1. ASSUME NEW m \in S PROVE Ordered!ToSet(A[m]) \subseteq Attributes /\ \A a : a \in Ordered!ToSet(A[m]) <=> Has(A[m], a)
  <2>1. A[m] \in Seq(Attributes) BY <1>1
  <2> QED BY <2>1, MembersOf, SameMembers
<1> QED BY <1>1

\* What CopyNode asks of memory is what the copying needs.
LEMMA RoomIs ==
  ASSUME NEW z, Job(z), NEW E, E = Before(z),
         Ordered!Cardinality(E) + Ordered!Cardinality(Ordered!Under(z.old, z.s)) <= Ordered!Cardinality(Nodes),
         Ordered!Cardinality(UNION {Ordered!ToSet(z.attrs[m]) : m \in E})
           + Ordered!Cardinality(UNION {Ordered!ToSet(z.attrs[m]) : m \in Ordered!Under(z.old, z.s)})
           <= Ordered!Cardinality(Attributes)
  PROVE  Room(z)
<1> DEFINE D == Down(z.old, z.s)
           U == {a \in Attributes : \E x \in E : Has(z.attrs[x], a)}
<1>1. \A S : Ordered!Cardinality(S) = Cardinality(S) BY DEF Ordered!Cardinality, Cardinality
<1>2. z.old \in [Nodes -> Seq(Nodes)] /\ z.s \in Nodes /\ z.attrs \in [Nodes -> Seq(Attributes)] BY JobIs DEF Job
<1>3. Ordered!Under(z.old, z.s) = D
  <2> DEFINE K == z.old
             s == z.s
  <2>1. K \in [Nodes -> Seq(Nodes)] /\ s \in Nodes BY <1>2
  <2> HIDE DEF K, s
  <2>2. Ordered!Under(K, s) = Down(K, s) BY <2>1, UnderIs
  <2> QED BY <2>2 DEF K, s
<1>4. D \subseteq Nodes /\ E \subseteq Nodes BY DEF Down, Before
<1>5. UNION {Ordered!ToSet(z.attrs[m]) : m \in E} = U /\ UNION {Ordered!ToSet(z.attrs[m]) : m \in D} = AttrsOf(z, D)
  <2> DEFINE A == z.attrs
  <2>1. A \in [Nodes -> Seq(Attributes)] BY <1>2
  <2> HIDE DEF A, D
  <2>2. UNION {Ordered!ToSet(A[m]) : m \in E} = {a \in Attributes : \E x \in E : Has(A[x], a)} BY <1>4, <2>1, AttributesIn
  <2>3. UNION {Ordered!ToSet(A[m]) : m \in D} = {a \in Attributes : \E x \in D : Has(A[x], a)} BY <1>4, <2>1, AttributesIn
  <2> QED BY <2>2, <2>3 DEF A, AttrsOf
<1>6. U = z.t.made
  <2>1. /\ \A a \in Attributes : a \in z.t.made <=> \E n \in Nodes : Has(z.attrs[n], a)
        /\ \A n \in Nodes : ~IsNode(z.t, n) => Len(z.attrs[n]) = 0
        /\ Len(z.attrs[z.d]) = 0 /\ z.t \in Trees
    BY DEF Job, Tree
  <2>2. z.t.made \subseteq Attributes BY <2>1 DEF Trees
  <2>3. \A n \in Nodes : (\E a : Has(z.attrs[n], a)) => n \in E BY <2>1 DEF Before, Has
  <2> QED BY <2>1, <2>2, <2>3, <1>4
<1>7. Cardinality(Nodes) = MaxNodes /\ Cardinality(Attributes) = MaxAttributes
  <2>1. MaxNodes \in Nat /\ MaxAttributes \in Nat BY TreeAssumption
  <2>2. Cardinality(1 .. MaxNodes) = MaxNodes /\ Cardinality(1 .. MaxAttributes) = MaxAttributes BY <2>1, FS_Interval
  <2> QED BY <2>2 DEF Nodes, Attributes
<1>8. Cardinality(E) + Cardinality(D) <= MaxNodes /\ Cardinality(U) + Cardinality(AttrsOf(z, D)) <= MaxAttributes
  <2> HIDE DEF D, U
  <2> QED BY <1>1, <1>3, <1>5, <1>7
<1> QED BY <1>6, <1>8 DEF Room

\* The parts of OrderedTree's CopyNode, for the lists K and A before and L and B after.
NodeCopied(K, A, L, B, n, s, d) ==
  LET E == {m \in Nodes : Ordered!Exists(m)} IN
  /\ \A m \in E : links'.kind[m] = links.kind[m] /\ B[m] = A[m]
  /\ n \in E /\ s \in E /\ d \in Nodes \ E
  /\ links'.kind[d] = links.kind[s]
  /\ d \in Ordered!ToSet(L[n]) /\ Ordered!SameBut(L[n], K[n], {d})
  /\ \A m \in E \ {n} : L[m] = K[m]

\* The copy g of what was under s, as OrderedTree sees it.
ShapeCopied(K, A, L, B, s, d, g) ==
  /\ g \in Ordered!Bijection(Ordered!Under(K, s), Ordered!Under(L, d)) /\ g[s] = d
  /\ \A m \in Ordered!Under(K, s) :
       /\ links'.kind[g[m]] = links.kind[m]
       /\ Len(B[g[m]]) = Len(A[m])
       /\ L[g[m]] = [i \in DOMAIN K[m] |-> g[K[m][i]]]

RoomToCopy(K, A, s) ==
  LET E == {m \in Nodes : Ordered!Exists(m)} IN
  /\ Ordered!Cardinality(E) + Ordered!Cardinality(Ordered!Under(K, s)) <= Ordered!Cardinality(Nodes)
  /\ Ordered!Cardinality(UNION {Ordered!ToSet(A[m]) : m \in E})
       + Ordered!Cardinality(UNION {Ordered!ToSet(A[m]) : m \in Ordered!Under(K, s)}) <= Ordered!Cardinality(Attributes)

\* The parts make OrderedTree's CopyNode.
LEMMA CopyNodeIs ==
  ASSUME NEW K, NEW A, NEW L, NEW B, K = KidsIn(links), A = AttrsIn(links), L = KidsIn(links'), B = AttrsIn(links'),
         NEW n, NEW s, NEW d, NodeCopied(K, A, L, B, n, s, d),
         RoomToCopy(K, A, s) => \E g : ShapeCopied(K, A, L, B, s, d, g)
  PROVE  Ordered!CopyNode
<1> DEFINE E == {m \in Nodes : Ordered!Exists(m)}
           X == [m \in Nodes |-> ListOf(links.kids, m)]
           Y == [m \in Nodes |-> ListOf(links'.kids, m)]
           V == [m \in Nodes |-> ListOf(links.attrs, m)]
           W == [m \in Nodes |-> ListOf(links'.attrs, m)]
           Shape(c, e) ==
             LET copied == Ordered!Under(X, c) IN
             (/\ Ordered!Cardinality(E) + Ordered!Cardinality(copied) <= Ordered!Cardinality(Nodes)
              /\ Ordered!Cardinality(UNION {Ordered!ToSet(V[m]) : m \in E})
                   + Ordered!Cardinality(UNION {Ordered!ToSet(V[m]) : m \in copied}) <= Ordered!Cardinality(Attributes))
             => \E g \in Ordered!Bijection(copied, Ordered!Under(Y, e)) :
                  /\ g[c] = e
                  /\ \A m \in copied :
                       /\ links'.kind[g[m]] = links.kind[m]
                       /\ Len(W[g[m]]) = Len(V[m])
                       /\ Y[g[m]] = [i \in DOMAIN X[m] |-> g[X[m][i]]]
<1>1. X = K /\ Y = L /\ V = A /\ W = B BY DEF KidsIn, AttrsIn
<1>2. Ordered!CopyNode <=>
        /\ \A m \in E : links'.kind[m] = links.kind[m] /\ W[m] = V[m]
        /\ \E p, c \in E, e \in Nodes \ E :
             /\ links'.kind[e] = links.kind[c]
             /\ e \in Ordered!ToSet(Y[p]) /\ Ordered!SameBut(Y[p], X[p], {e})
             /\ \A m \in E \ {p} : Y[m] = X[m]
             /\ Shape(c, e)
  BY DEF Ordered!CopyNode
<1> HIDE DEF X, Y, V, W
<1>3. NodeCopied(X, V, Y, W, n, s, d) /\ (RoomToCopy(X, V, s) => \E g : ShapeCopied(X, V, Y, W, s, d, g)) BY <1>1
<1>4. /\ \A m \in E : links'.kind[m] = links.kind[m] /\ W[m] = V[m]
      /\ n \in E /\ s \in E /\ d \in Nodes \ E /\ links'.kind[d] = links.kind[s]
      /\ d \in Ordered!ToSet(Y[n]) /\ Ordered!SameBut(Y[n], X[n], {d})
      /\ \A m \in E \ {n} : Y[m] = X[m]
  BY <1>3 DEF NodeCopied
<1>5. ASSUME RoomToCopy(X, V, s)
      PROVE  \E g \in Ordered!Bijection(Ordered!Under(X, s), Ordered!Under(Y, d)) :
               /\ g[s] = d
               /\ \A m \in Ordered!Under(X, s) :
                    /\ links'.kind[g[m]] = links.kind[m]
                    /\ Len(W[g[m]]) = Len(V[m])
                    /\ Y[g[m]] = [i \in DOMAIN X[m] |-> g[X[m][i]]]
  BY <1>3, <1>5 DEF ShapeCopied
<1>6. Shape(s, d) BY <1>5, Zenon DEF RoomToCopy
<1> HIDE DEF E, Shape
<1> QED BY <1>2, <1>4, <1>6

\* append_copy and the like copy the node with what is under it, into itself even.
LEMMA CopiesNode ==
  ASSUME TreeInv, NEW n \in Nodes, IsNode(links, n), CopyChild(n)
  PROVE  TreeInv' /\ Ordered!CopyNode
<1> DEFINE K == KidsIn(links)
           A == AttrsIn(links)
<1>1. Tree(links, K, A) BY DEF TreeInv
<1>2. PICK s \in Nodes, place \in Places(links.kids, n) :
        /\ IsNode(links, s) /\ allow_insert_child(links.kind[n], links.kind[s]) /\ SpareNodes(links) # {}
        /\ links' = CopyTree(WithNode(links, links.kind[s], n, place), Least(SpareNodes(links)), s)
  BY DEF CopyChild
<1>3. Place(K[n], place) BY <1>1, WhatIsListed, TreeTyped, PlaceIs
<1> HIDE DEF K, A
<1>4. links \in Trees /\ K \in [Nodes -> Seq(Nodes)] /\ A \in [Nodes -> Seq(Attributes)] BY <1>1, TreeTyped
<1>5. links.kind[s] \in NewKinds /\ s # Root
  <2>1. links.kind[s] \in Kinds BY <1>4 DEF Trees
  <2>2. links.kind[s] \notin {"document", "free"} BY <1>2 DEF allow_insert_child
  <2>3. \A m \in Nodes : links.kind[m] = "document" <=> m = Root BY <1>1 DEF Tree
  <2> QED BY <2>1, <2>2, <2>3 DEF Kinds
<1> DEFINE d == Least(SpareNodes(links))
           k == links.kind[s]
           t == WithNode(links, k, n, place)
<1>6. d \in Nodes /\ ~IsNode(links, d)
      /\ \E i : Grown(links, t, K, k, n, d, i) /\ Tree(t, [K EXCEPT ![n] = Ins(K[n], i, d)], A)
  <2> HIDE DEF k
  <2> QED BY <1>1, <1>2, <1>3, <1>5, WithNodeIs DEF k
<1>7. links' = CopyTree(t, d, s) BY <1>2
<1> HIDE DEF d, t
<1>8. PICK i : Grown(links, t, K, k, n, d, i) /\ Tree(t, [K EXCEPT ![n] = Ins(K[n], i, d)], A) BY <1>6
<1> DEFINE L == [K EXCEPT ![n] = Ins(K[n], i, d)]
           z == [t |-> t, kids |-> L, attrs |-> A, old |-> K, s |-> s, d |-> d]
<1>9. L[n] = Ins(K[n], i, d) /\ \A m \in Nodes : m # n => L[m] = K[m] BY <1>4
<1>10. Tree(t, L, A) /\ i \in 1 .. Len(K[n]) + 1 /\ t.kind = [links.kind EXCEPT ![d] = links.kind[s]] BY <1>8 DEF Grown
<1>11. L = [K EXCEPT ![n] = Ins(K[n], i, d)] OBVIOUS
<1> HIDE DEF L
<1>12. Job(z) BY <1>1, <1>2, <1>5, <1>6, <1>10, <1>11, JobStarts
<1>13. z.t = t /\ z.kids = L /\ z.attrs = A /\ z.old = K /\ z.s = s /\ z.d = d OBVIOUS
<1> HIDE DEF z
<1>14. \E D, B, f, V, M :
         Copying(z, CopyTree(z.t, z.d, z.s), D, B, f, HasCopy(f)) /\ Order(z, f, V, M) /\ Below(z, z.s, V, M)
  BY <1>12, CopyTreeEnds
<1>15. PICK D, B, f, V, M : Copying(z, links', D, B, f, HasCopy(f)) /\ Order(z, f, V, M) /\ Below(z, z.s, V, M)
  BY <1>7, <1>13, <1>14
<1>16. Tree(links', D, B) /\ Mapped(z, f) /\ Others(z, links', D, B) /\ Copies(z, links', f) BY <1>15 DEF Copying
<1>17. D = KidsIn(links') /\ B = AttrsIn(links') /\ K = KidsIn(links) /\ A = AttrsIn(links)
  <2>1. D = KidsIn(links') /\ B = AttrsIn(links') BY <1>16, TreeHolds
  <2> QED BY <2>1 DEF K, A
<1>18. TreeInv' BY <1>16, <1>17 DEF TreeInv
<1> DEFINE E == {m \in Nodes : Ordered!Exists(m)}
<1>19. \A m \in Nodes : m \in E <=> IsNode(links, m) BY DEF Ordered!Exists, IsNode
<1>20. links.kind \in [Nodes -> Kinds] BY <1>4 DEF Trees
<1>21. t.kind[d] = links.kind[s] /\ \A m \in Nodes : m # d => t.kind[m] = links.kind[m] BY <1>6, <1>10, <1>20
<1>22. Before(z) = E
  <2>1. \A m \in Nodes : m \in Before(z) <=> IsNode(t, m) /\ m # d BY <1>13 DEF Before
  <2>2. \A m \in Nodes : m # d => (IsNode(t, m) <=> IsNode(links, m)) BY <1>21 DEF IsNode
  <2>3. Before(z) \subseteq Nodes /\ E \subseteq Nodes BY DEF Before
  <2>4. \A m \in Nodes : m \in Before(z) <=> m \in E BY <1>6, <1>19, <2>1, <2>2
  <2> HIDE DEF E
  <2> QED BY <2>3, <2>4
<1>23. n \in E /\ s \in E /\ d \notin E BY <1>2, <1>6, <1>19
<1>24. \A m \in E : links'.kind[m] = links.kind[m] /\ B[m] = A[m] /\ D[m] = L[m]
  <2>1. \A m \in Before(z) : links'.kind[m] = z.t.kind[m] /\ B[m] = z.attrs[m] /\ D[m] = z.kids[m] BY <1>16 DEF Others
  <2>2. \A m \in E : m \in Nodes /\ m # d BY <1>23
  <2> HIDE DEF E
  <2> QED BY <2>1, <2>2, <1>13, <1>21, <1>22
<1>25. links'.kind[d] = links.kind[s]
  <2>1. z.s \in HasCopy(f) /\ f[z.s] = d
    <3>1. f[z.s] = d /\ z.s \in Nodes /\ d # Null BY <1>2, <1>6, <1>13, <1>16, RootIsNode DEF Mapped
    <3> QED BY <3>1 DEF HasCopy
  <2>2. links'.kind[d] = z.t.kind[z.s] BY <2>1, <1>16 DEF Copies
  <2>3. s # d BY <1>23
  <2> QED BY <2>2, <2>3, <1>13, <1>21
<1>26. Ordered!SameBut(D[n], K[n], {d}) /\ d \in Ordered!ToSet(D[n])
  <2>1. D[n] = Ins(K[n], i, d) /\ K[n] \in Seq(Nodes) BY <1>4, <1>9, <1>23, <1>24
  <2>2. Distinct(D[n]) BY <1>16, TreeTyped
  <2> DEFINE u == K[n]
  <2>3. u \in Seq(Nodes) /\ i \in 1 .. Len(u) + 1 /\ Distinct(Ins(u, i, d)) BY <2>1, <2>2, <1>10
  <2> HIDE DEF u
  <2>4. Ordered!SameBut(Ins(u, i, d), u, {d}) /\ d \in ToSet(Ins(u, i, d)) BY ONLY <2>3, <1>6, InsertedSame
  <2> QED BY <2>1, <2>4, SameMembers DEF u
<1>27. NodeCopied(K, A, D, B, n, s, d) BY <1>6, <1>9, <1>23, <1>24, <1>25, <1>26 DEF NodeCopied
<1>28. ASSUME RoomToCopy(K, A, s) PROVE \E g : ShapeCopied(K, A, D, B, s, d, g)
  <2> HIDE DEF E
  <2>1. Room(z)
    <3>1. /\ Ordered!Cardinality(E) + Ordered!Cardinality(Ordered!Under(z.old, z.s)) <= Ordered!Cardinality(Nodes)
          /\ Ordered!Cardinality(UNION {Ordered!ToSet(z.attrs[m]) : m \in E})
             + Ordered!Cardinality(UNION {Ordered!ToSet(z.attrs[m]) : m \in Ordered!Under(z.old, z.s)})
             <= Ordered!Cardinality(Attributes)
      BY <1>28, <1>13 DEF RoomToCopy, E
    <3> QED BY <3>1, <1>12, <1>22, RoomIs
  <2>2. HasCopy(f) = Down(z.old, z.s) BY <2>1, <1>12, <1>15, <1>16, AllCopied
  <2>3. PICK g : CopyOf(z, links', D, B, g) BY <2>1, <2>2, <1>12, <1>15, CopyHasShape
  <2> DEFINE S == Down(K, s)
  <2>4. /\ g \in Bijection(S, Down(D, d)) /\ g[s] = d
        /\ \A x \in S : /\ links'.kind[g[x]] = t.kind[x] /\ Len(B[g[x]]) = Len(A[x])
                        /\ D[g[x]] = [j \in DOMAIN K[x] |-> g[K[x][j]]]
    BY <2>3, <1>13 DEF CopyOf
  <2>5. Ordered!Under(K, s) = S /\ Ordered!Under(D, d) = Down(D, d)
    <3>1. D \in [Nodes -> Seq(Nodes)] BY <1>16, TreeTyped
    <3> QED BY <3>1, <1>4, <1>6, UnderIs
  <2>6. Bijection(S, Down(D, d)) = Ordered!Bijection(S, Down(D, d))
    BY DEF Ordered!Bijection, Bijection, Ordered!Injection, Injection, Ordered!Surjection, Surjection,
           Ordered!IsInjective, IsInjective
  <2>7. \A x \in S : x \in Nodes /\ x # d
    <3>1. S \subseteq Before(z) \union {s}
      <4>1. \A x \in HasCopy(f) : x \in Before(z) BY <1>16 DEF Mapped
      <4> QED BY <4>1, <2>2, <1>13
    <3>2. s # d BY <1>23
    <3> QED BY <3>1, <3>2, <1>13 DEF Before
  <2>8. \A x \in S : t.kind[x] = links.kind[x] BY <2>7, <1>21
  <2> HIDE DEF S
  <2>9. ShapeCopied(K, A, D, B, s, d, g) BY <2>4, <2>5, <2>6, <2>8 DEF ShapeCopied
  <2> QED BY <2>9
<1>29. Ordered!CopyNode BY <1>17, <1>27, <1>28, CopyNodeIs
<1> QED BY <1>18, <1>29

\* The document starts as a tree with nothing in it.
LEMMA TreeStarts ==
  ASSUME XmlTreeInit
  PROVE  TreeInv /\ Ordered!OrderedInit
<1> DEFINE K == [n \in Nodes |-> <<>>]
<1>1. /\ links \in Trees
      /\ \A n \in Nodes : links.kind[n] = IF n = Root THEN "document" ELSE "free"
      /\ links.kids = NoLists(Nodes, Nodes) /\ links.attrs = NoLists(Nodes, Attributes) /\ links.made = {}
  <2>1. NoLists(Nodes, Nodes) \in Lists(Nodes) /\ NoLists(Nodes, Attributes) \in Lists(Attributes) BY DEF NoLists, Lists
  <2> DEFINE l == NoLists(Nodes, Nodes)
             m == NoLists(Nodes, Attributes)
             k == [n \in Nodes |-> IF n = Root THEN "document" ELSE "free"]
             p == [n \in Nodes |-> Null]
  <2>2. k \in [Nodes -> Kinds] /\ p \in [Nodes -> Nodes \union {Null}] /\ \A n \in Nodes : k[n] = IF n = Root THEN "document" ELSE "free"
    BY DEF Kinds
  <2>3. links = [kind |-> k, parent |-> p, kids |-> l, made |-> {}, attrs |-> m] BY DEF XmlTreeInit
  <2> HIDE DEF k, p, l, m
  <2>4. l \in Lists(Nodes) /\ m \in Lists(Attributes) BY <2>1 DEF l, m
  <2> QED BY <2>2, <2>3, <2>4 DEF Trees, l, m
<1>2. ASSUME NEW M PROVE Held(NoLists(Nodes, M), M, K)
  <2>1. NoLists(Nodes, M) \in Lists(M) BY DEF NoLists, Lists
  <2>2. K \in [Nodes -> Seq(M)] /\ \A n \in Nodes : Len(K[n]) = 0 OBVIOUS
  <2>3. /\ \A o \in Nodes : NoLists(Nodes, M).first[o] = Null
        /\ \A x \in M : NoLists(Nodes, M).prev[x] = Null /\ NoLists(Nodes, M).next[x] = Null
    BY DEF NoLists
  <2> HIDE DEF K
  <2> QED BY <2>1, <2>2, <2>3 DEF Held, Chain
<1>3. \A n \in Nodes : K[n] = <<>> /\ Len(K[n]) = 0 OBVIOUS
<1>4. K = [n \in Nodes |-> <<>>] OBVIOUS
<1> HIDE DEF K
<1>5. \A n \in Nodes : IsNode(links, n) <=> n = Root BY <1>1 DEF IsNode
<1>6. Tree(links, K, K)
  <2>1. \A S \in SUBSET Nodes : Closed(K, Root, S) => \A n \in Nodes : IsNode(links, n) => n \in S BY <1>5 DEF Closed
  <2>2. Parents(links, K) BY <1>3, <1>5 DEF Parents
  <2>3. \A a \in Attributes : a \in links.made <=> \E n \in Nodes : Has(K[n], a) BY <1>1, <1>3 DEF Has
  <2>4. Held(links.kids, Nodes, K) /\ Held(links.attrs, Attributes, K) BY <1>1, <1>2
  <2> QED BY <1>1, <1>3, <2>1, <2>2, <2>3, <2>4 DEF Tree
<1>7. K = KidsIn(links) /\ K = AttrsIn(links) BY <1>6, TreeHolds
<1>8. TreeInv BY <1>6, <1>7 DEF TreeInv
<1>9. Ordered!OrderedInit
  <2>1. links.kind = [n \in Nodes |-> IF n = Root THEN "document" ELSE "free"] BY DEF XmlTreeInit
  <2> QED BY <2>1, <1>4, <1>7 DEF Ordered!OrderedInit, KidsIn, AttrsIn
<1> QED BY <1>8, <1>9

\* Pointers that hold sequences are linked both ways.
LEMMA ListIsLinked ==
  ASSUME NEW M, Listed(M), NEW l, NEW q, Held(l, M, q), NEW o \in Nodes
  PROVE  Linked(l, o)
<1>1. ListOf(l, o) = q[o] BY ListIs
<1> DEFINE s == q[o]
<1>2. s \in Seq(M) /\ Chain(l, o, s) /\ \A i, j \in 1 .. Len(s) : s[i] = s[j] => i = j BY DEF Held
<1>3. DOMAIN s = 1 .. Len(s) BY <1>2
<1> HIDE DEF s
<1>4. IsInjective(s) BY <1>2, <1>3 DEF IsInjective
<1>5. \A i \in 1 .. Len(s) : l.prev[s[i]] = IF i = 1 THEN s[Len(s)] ELSE s[i - 1] BY <1>2 DEF Chain
<1> QED BY <1>1, <1>4, <1>5 DEF Linked, s

\* A tree has its lists linked and all that exists in the document.
LEMMA TreeIsKept ==
  ASSUME TreeInv
  PROVE  ListsLinked /\ AllInDocument
<1> DEFINE K == KidsIn(links)
           A == AttrsIn(links)
<1>1. Tree(links, K, A) BY DEF TreeInv
<1> HIDE DEF K, A
<1>2. /\ Held(links.kids, Nodes, K) /\ Held(links.attrs, Attributes, A) /\ Listed(Nodes) /\ Listed(Attributes)
      /\ K \in [Nodes -> Seq(Nodes)] /\ A \in [Nodes -> Seq(Attributes)] /\ links \in Trees
  BY <1>1, WhatIsListed, TreeTyped
<1>3. ListsLinked BY <1>2, ListIsLinked DEF ListsLinked
<1>4. /\ Parents(links, K)
      /\ \A n \in Nodes : links.kind[n] = "document" <=> n = Root
      /\ \A n \in Nodes : ~IsNode(links, n) => Len(K[n]) = 0 /\ Len(A[n]) = 0
      /\ \A S \in SUBSET Nodes : Closed(K, Root, S) => \A n \in Nodes : IsNode(links, n) => n \in S
      /\ \A a \in Attributes : a \in links.made <=> \E n \in Nodes : Has(A[n], a)
  BY <1>1 DEF Tree
<1> DEFINE E == {n \in Nodes : IsNode(links, n)}
<1>5. Subtree(links, Root) = Down(K, Root) BY <1>2, RootIsNode, SubtreeIs
<1>6. E = Down(K, Root)
  <2>1. Closed(K, Root, E)
    <3>1. Root \in E BY <1>4, RootIsNode DEF IsNode
    <3>2. \A m \in E : \A i \in 1 .. Len(K[m]) : K[m][i] \in Nodes /\ IsNode(links, K[m][i])
      BY <1>2, <1>4, HasType DEF Parents
    <3> QED BY <3>1, <3>2 DEF Closed
  <2>2. E \in SUBSET Nodes OBVIOUS
  <2> HIDE DEF E
  <2>3. Down(K, Root) \subseteq E BY <1>2, <2>1, <2>2, RootIsNode, DownIsClosed
  <2>4. Down(K, Root) \in SUBSET Nodes /\ Closed(K, Root, Down(K, Root)) BY <1>2, RootIsNode, DownIsClosed DEF Down
  <2>5. \A n \in Nodes : IsNode(links, n) => n \in Down(K, Root) BY <1>4, <2>4
  <2>6. E \subseteq Down(K, Root) BY <2>5 DEF E
  <2> QED BY <2>3, <2>6
<1>7. /\ \A p \in Nodes : \A y : y \in Members(links.kids, p) <=> Has(K[p], y)
      /\ \A p \in Nodes : \A y : y \in Members(links.attrs, p) <=> Has(A[p], y)
  BY <1>2, MembersAre
<1>8. \A p \in Nodes : \A n \in Members(links.kids, p) : links.parent[n] = p BY <1>4, <1>7 DEF Parents, Has
<1>9. links.made = UNION {Members(links.attrs, n) : n \in E}
  <2>1. links.made \subseteq Attributes BY <1>2 DEF Trees
  <2>2. \A n \in Nodes : \A a : Has(A[n], a) => a \in Attributes BY <1>2, HasType
  <2>3. \A n \in Nodes : \A a : Has(A[n], a) => n \in E BY <1>4 DEF Has
  <2>4. \A n \in E : n \in Nodes OBVIOUS
  <2> DEFINE U == UNION {Members(links.attrs, n) : n \in E}
  <2>5. \A a : a \in U <=> \E n \in E : a \in Members(links.attrs, n) OBVIOUS
  <2> HIDE DEF U, E
  <2>6. \A a : a \in U <=> \E n \in Nodes : Has(A[n], a) BY <2>3, <2>4, <2>5, <1>7
  <2>7. \A a : (\E n \in Nodes : Has(A[n], a)) => a \in Attributes BY <2>2
  <2>8. \A a : a \in U <=> a \in links.made BY <2>1, <2>6, <2>7, <1>4
  <2>9. U = links.made BY <2>8
  <2> QED BY <2>9 DEF U
<1>10. AllInDocument BY <1>5, <1>6, <1>8, <1>9 DEF AllInDocument
<1> QED BY <1>3, <1>10

\* Every call leaves a tree, and does to it what OrderedTree says.
LEMMA TreeSteps ==
  ASSUME TreeInv, [XmlTreeNext]_links
  PROVE  TreeInv' /\ [Ordered!OrderedNext]_Ordered!treeVars
<1>1. CASE XmlTreeNext
  <2>1. PICK n \in Nodes :
          /\ IsNode(links, n)
          /\ \/ AddChild(n) \/ CopyChild(n) \/ MoveChild(n) \/ RemoveChild(n) \/ RemoveChildren(n)
             \/ AddAttribute(n) \/ CopyAttribute(n) \/ RemoveAttribute(n) \/ RemoveAttributes(n)
    BY <1>1 DEF XmlTreeNext
  <2>2. CASE AddChild(n) BY <2>1, <2>2, AddsNode DEF Ordered!OrderedNext
  <2>3. CASE CopyChild(n) BY <2>1, <2>3, CopiesNode DEF Ordered!OrderedNext
  <2>4. CASE MoveChild(n) BY <2>1, <2>4, MovesNode DEF Ordered!OrderedNext
  <2>5. CASE RemoveChild(n) BY <2>1, <2>5, DropsChild DEF Ordered!OrderedNext
  <2>6. CASE RemoveChildren(n) BY <2>1, <2>6, DropsChildren DEF Ordered!OrderedNext
  <2>7. CASE AddAttribute(n) BY <2>1, <2>7, AddsAttribute DEF Ordered!OrderedNext
  <2>8. CASE CopyAttribute(n)
    <3>1. AddAttribute(n) BY <2>8 DEF CopyAttribute
    <3> QED BY <3>1, <2>1, AddsAttribute DEF Ordered!OrderedNext
  <2>9. CASE RemoveAttribute(n) BY <2>1, <2>9, DropsAttribute DEF Ordered!OrderedNext
  <2>10. CASE RemoveAttributes(n) BY <2>1, <2>10, DropsAllAttributes DEF Ordered!OrderedNext
  <2> QED BY <2>1, <2>2, <2>3, <2>4, <2>5, <2>6, <2>7, <2>8, <2>9, <2>10
<1>2. CASE UNCHANGED links
  <2>1. TreeInv' BY <1>2 DEF TreeInv, KidsIn, AttrsIn
  <2>2. UNCHANGED Ordered!treeVars BY <1>2 DEF Ordered!treeVars
  <2> QED BY <2>1, <2>2
<1> QED BY <1>1, <1>2

\* The operations on the document (libs/pugixml, append_node to remove_attribute, and the
\* members of xml_node that use them) keep every list closed in both directions and every
\* node and attribute that is allocated in the document, and do to the children and the
\* attributes what OrderedTree says, whatever is called on whatever node: what is inserted
\* is in the one list it was meant for and nothing else changes its order, what is removed is
\* gone with what is under it, and a copy has the shape of the original when memory suffices.
THEOREM DocumentStaysKept == XmlTreeSpec => DocumentKept
<1>1. XmlTreeInit => TreeInv /\ Ordered!OrderedInit BY TreeStarts
<1>2. TreeInv /\ [XmlTreeNext]_links => TreeInv' /\ [Ordered!OrderedNext]_Ordered!treeVars BY TreeSteps
<1>3. TreeInv => ListsLinked /\ AllInDocument BY TreeIsKept
<1> QED BY <1>1, <1>2, <1>3, PTL DEF XmlTreeSpec, DocumentKept, KeepsOrder, Ordered!OrderedSpec
=============================================================================
