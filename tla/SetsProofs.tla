----------------------------- MODULE SetsProofs -----------------------------
(***************************************************************************)
(* Proofs about HashTable, for any nodes, keys, hash function and primes:  *)
(* the rehash in place leaves every node once and where it belongs, the    *)
(* counter bounds what the table holds, the loops that stop at the counter *)
(* reach every node, and the calls are those of a set of nodes.  Then,     *)
(* about Tree, for any items with any keys in any number of cells: the     *)
(* nodes stay one search tree and the calls are those of a set of items.   *)
(***************************************************************************)
EXTENDS MCSets, Ranking

TableAssumption == NodesAssumption /\ HashAssumption /\ PrimesAssumption

\* Tables of n buckets; chains and tables that have no node twice.
Tables(n) == [0 .. n - 1 -> Seq(Nodes)]
Apiece(chain) == \A x, y \in 1 .. Len(chain) : chain[x] = chain[y] => x = y
Apart(t, n) ==
    /\ \A i \in 0 .. n - 1 : Apiece(t[i])
    /\ \A i, j \in 0 .. n - 1 : i # j => Range(t[i]) \cap Range(t[j]) = {}

\* All nodes of bucket i are there because of their hash.
Home(t, i, n) == \A k \in Range(t[i]) : Index(k, n) = i
Content(t) == UNION {Range(t[i]) : i \in DOMAIN t}
-----------------------------------------------------------------------------
LEMMA Indices == ASSUME TableAssumption, NEW n \in Nat \ {0}, NEW k \in Nodes
                 PROVE  Index(k, n) \in 0 .. n - 1
<1>1. Key[k] \in Range(Key)
  <2>1. k \in DOMAIN Key BY DEF TableAssumption, HashAssumption
  <2> QED BY <2>1 DEF Range
<1>2. Hash[Key[k]] \in Nat BY <1>1 DEF TableAssumption, HashAssumption
<1>3. \A h \in Nat : h % n \in 0 .. n - 1 OBVIOUS
<1> QED BY <1>2, <1>3 DEF Index

\* What a chain has.
LEMMA Places == ASSUME NEW c \in Seq(Nodes)
                PROVE  /\ Len(c) \in Nat /\ DOMAIN c = 1 .. Len(c) /\ Range(c) \subseteq Nodes
                       /\ \A x \in 1 .. Len(c) : c[x] \in Nodes /\ c[x] \in Range(c)
                       /\ \A k : k \in Range(c) <=> \E x \in 1 .. Len(c) : c[x] = k
<1>1. Len(c) \in Nat /\ DOMAIN c = 1 .. Len(c) BY LenProperties
<1>2. \A x \in 1 .. Len(c) : c[x] \in Nodes BY ElementOfSeq
<1>3. \A k : k \in Range(c) <=> \E x \in 1 .. Len(c) : c[x] = k BY <1>1 DEF Range
<1> QED BY <1>1, <1>2, <1>3

\* Two chains without a node in common, one before the other.
LEMMA Joined == ASSUME NEW a \in Seq(Nodes), NEW b \in Seq(Nodes)
                PROVE  /\ a \o b \in Seq(Nodes)
                       /\ Range(a \o b) = Range(a) \cup Range(b)
                       /\ Apiece(a) /\ Apiece(b) /\ Range(a) \cap Range(b) = {}
                             => Apiece(a \o b)
<1> DEFINE c == a \o b
<1>1. /\ c \in Seq(Nodes) /\ Len(c) = Len(a) + Len(b)
      /\ \A x \in 1 .. Len(a) + Len(b) :
            c[x] = IF x <= Len(a) THEN a[x] ELSE b[x - Len(a)]
  BY ConcatProperties
<1>2. Range(c) = Range(a) \cup Range(b) BY RangeConcatenation
<1>3. Len(a) \in Nat /\ Len(b) \in Nat BY Places
<1> HIDE DEF c
<1>4. ASSUME NEW x \in 1 .. Len(a) + Len(b)
      PROVE  \/ x \in 1 .. Len(a) /\ c[x] = a[x] /\ c[x] \in Range(a)
             \/ /\ x - Len(a) \in 1 .. Len(b) /\ c[x] = b[x - Len(a)]
                /\ c[x] \in Range(b)
  <2>1. CASE x <= Len(a)
    <3>1. x \in 1 .. Len(a) /\ c[x] = a[x] BY <1>1, <1>3, <2>1
    <3> QED BY <3>1, Places
  <2>2. CASE ~(x <= Len(a))
    <3>1. x - Len(a) \in 1 .. Len(b) /\ c[x] = b[x - Len(a)] BY <1>1, <1>3, <2>2
    <3> QED BY <3>1, Places
  <2> QED BY <2>1, <2>2
<1>5. ASSUME Apiece(a), Apiece(b), Range(a) \cap Range(b) = {},
             NEW x \in 1 .. Len(a) + Len(b), NEW y \in 1 .. Len(a) + Len(b), c[x] = c[y]
      PROVE  x = y
  <2>1. CASE x \in 1 .. Len(a) /\ c[x] = a[x] /\ c[x] \in Range(a)
    <3>1. y \in 1 .. Len(a) /\ c[y] = a[y] BY <1>4, <1>5, <2>1
    <3> QED BY <1>5, <2>1, <3>1 DEF Apiece
  <2>2. CASE /\ x - Len(a) \in 1 .. Len(b) /\ c[x] = b[x - Len(a)]
             /\ c[x] \in Range(b)
    <3>1. y - Len(a) \in 1 .. Len(b) /\ c[y] = b[y - Len(a)] BY <1>4, <1>5, <2>2
    <3>2. x - Len(a) = y - Len(a) BY <1>5, <2>2, <3>1 DEF Apiece
    <3> QED BY <1>3, <3>2
  <2> QED BY <1>4, <2>1, <2>2
<1> QED BY <1>1, <1>2, <1>5 DEF c, Apiece
-----------------------------------------------------------------------------
\* The nodes at some places of a chain, however their places are numbered.
Takes(s, c, places) == /\ s \in Seq(Nodes) /\ Range(s) = {c[p] : p \in places}
                       /\ Apiece(c) => Apiece(s)
LEMMA Numbered ==
  ASSUME NEW c \in Seq(Nodes), NEW places \in SUBSET (1 .. Len(c)),
         NEW from, Ranked(places, from), NEW at \in [1 .. Cardinality(places) -> places],
         \A x \in 1 .. Cardinality(places) : Cardinality(from[at[x]]) = x,
         NEW s \in [1 .. Cardinality(places) -> Nodes],
         \A x \in 1 .. Cardinality(places) : s[x] = c[at[x]]
  PROVE  Takes(s, c, places)
<1> DEFINE n == Cardinality(places)
<1>1. /\ n \in Nat
      /\ \A p \in places : Cardinality(from[p]) \in 1 .. n
      /\ \A p, q \in places : Cardinality(from[p]) = Cardinality(from[q]) => p = q
  BY Zenon DEF Ranked
<1>2. \A x \in 1 .. n : at[x] \in places /\ Cardinality(from[at[x]]) = x /\ s[x] = c[at[x]]
  OBVIOUS
<1>3. \A p \in places : at[Cardinality(from[p])] = p
  BY <1>1, <1>2
<1> HIDE DEF n
<1>4. s \in Seq(Nodes) /\ Len(s) = n
  <2>1. s \in [1 .. n -> Nodes] BY DEF n
  <2> QED BY <1>1, <2>1
<1>5. Range(s) = {c[p] : p \in places}
  <2>1. \A k : k \in Range(s) <=> \E x \in 1 .. n : s[x] = k BY <1>4, Places
  <2>2. ASSUME NEW x \in 1 .. n PROVE s[x] \in {c[p] : p \in places} BY <1>2
  <2>3. ASSUME NEW p \in places PROVE \E x \in 1 .. n : s[x] = c[p] BY <1>1, <1>2, <1>3
  <2> QED BY <2>1, <2>2, <2>3
<1>6. ASSUME Apiece(c) PROVE Apiece(s)
  <2> SUFFICES ASSUME NEW x \in 1 .. n, NEW y \in 1 .. n, s[x] = s[y] PROVE x = y
    BY <1>4 DEF Apiece
  <2>1. at[x] \in 1 .. Len(c) /\ at[y] \in 1 .. Len(c) /\ c[at[x]] = c[at[y]] BY <1>2
  <2>2. at[x] = at[y] BY <1>6, <2>1 DEF Apiece
  <2> QED BY <1>2, <2>2
<1> QED BY <1>4, <1>5, <1>6 DEF Takes

LEMMA ForwardIs ==
  ASSUME NEW c \in Seq(Nodes), NEW places \in SUBSET (1 .. Len(c))
  PROVE  Takes(Forward(c, places), c, places)
<1> DEFINE n == Cardinality(places)
           from == [p \in places |-> {q \in places : q <= p}]
           at == [x \in 1 .. n |->
                     CHOOSE p \in places : Cardinality({q \in places : q <= p}) = x]
<1>1. /\ Len(c) \in Nat /\ IsFiniteSet(places)
      /\ \A p \in places : p \in Nat
  <2>1. Len(c) \in Nat BY Places
  <2>2. IsFiniteSet(1 .. Len(c)) BY <2>1, FS_Interval
  <2>3. IsFiniteSet(places) BY <2>2, FS_Subset
  <2> QED BY <2>1, <2>3
<1>2. Nested(places, from)
  <2>1. ASSUME NEW p \in places, NEW q \in places, p < q
        PROVE  from[p] \subseteq from[q] \ {q}
    <3>1. ASSUME NEW r \in places, r <= p PROVE r <= q /\ r # q
      <4>1. p \in Nat /\ q \in Nat /\ r \in Nat BY <1>1
      <4> QED BY <2>1, <3>1, <4>1
    <3> QED BY <3>1
  <2>2. \A p, q \in places : p # q => p < q \/ q < p BY <1>1
  <2>3. \A p \in places : from[p] \in SUBSET places /\ p \in from[p] BY <1>1
  <2> HIDE DEF from
  <2> QED BY <2>1, <2>2, <2>3 DEF Nested
<1>3. \A p \in places : Cardinality(from[p]) = Cardinality({q \in places : q <= p}) OBVIOUS
<1> HIDE DEF from
<1>4. Ranked(places, from) BY <1>1, <1>2, NestedRanks
<1>5. ASSUME NEW x \in 1 .. n PROVE at[x] \in places /\ Cardinality(from[at[x]]) = x
  <2>1. \E p \in places : Cardinality(from[p]) = x BY <1>4, Zenon DEF Ranked
  <2>2. \E p \in places : Cardinality({q \in places : q <= p}) = x BY <1>3, <2>1
  <2>3. at[x] = CHOOSE p \in places : Cardinality({q \in places : q <= p}) = x OBVIOUS
  <2> HIDE DEF at
  <2> QED BY <1>3, <2>2, <2>3
<1>6. at \in [1 .. n -> places] BY <1>5
<1> DEFINE s == Forward(c, places)
<1>7. s = [x \in 1 .. n |-> c[at[x]]] BY DEF Forward
<1> HIDE DEF at, s
<1>8. \A x \in 1 .. n : Cardinality(from[at[x]]) = x BY <1>5
<1>9. s \in [1 .. n -> Nodes] /\ \A x \in 1 .. n : s[x] = c[at[x]]
  <2>1. \A x \in 1 .. n : c[at[x]] \in Nodes BY <1>5, Places
  <2> QED BY <1>7, <2>1
<1>10. Takes(s, c, places) BY <1>4, <1>6, <1>8, <1>9, Numbered
<1> QED BY <1>10 DEF s

LEMMA BackwardIs ==
  ASSUME NEW c \in Seq(Nodes), NEW places \in SUBSET (1 .. Len(c))
  PROVE  Takes(Backward(c, places), c, places)
<1> DEFINE n == Cardinality(places)
           from == [p \in places |-> {q \in places : q >= p}]
           at == [x \in 1 .. n |->
                     CHOOSE p \in places : Cardinality({q \in places : q >= p}) = x]
<1>1. /\ Len(c) \in Nat /\ IsFiniteSet(places)
      /\ \A p \in places : p \in Nat
  <2>1. Len(c) \in Nat BY Places
  <2>2. IsFiniteSet(1 .. Len(c)) BY <2>1, FS_Interval
  <2>3. IsFiniteSet(places) BY <2>2, FS_Subset
  <2> QED BY <2>1, <2>3
<1>2. Nested(places, from)
  <2>1. ASSUME NEW p \in places, NEW q \in places, p < q
        PROVE  from[q] \subseteq from[p] \ {p}
    <3>1. ASSUME NEW r \in places, r >= q PROVE r >= p /\ r # p
      <4>1. p \in Nat /\ q \in Nat /\ r \in Nat BY <1>1
      <4> QED BY <2>1, <3>1, <4>1
    <3> QED BY <3>1
  <2>2. \A p, q \in places : p # q => p < q \/ q < p BY <1>1
  <2>3. \A p \in places : from[p] \in SUBSET places /\ p \in from[p] BY <1>1
  <2> HIDE DEF from
  <2> QED BY <2>1, <2>2, <2>3 DEF Nested
<1>3. \A p \in places : Cardinality(from[p]) = Cardinality({q \in places : q >= p}) OBVIOUS
<1> HIDE DEF from
<1>4. Ranked(places, from) BY <1>1, <1>2, NestedRanks
<1>5. ASSUME NEW x \in 1 .. n PROVE at[x] \in places /\ Cardinality(from[at[x]]) = x
  <2>1. \E p \in places : Cardinality(from[p]) = x BY <1>4, Zenon DEF Ranked
  <2>2. \E p \in places : Cardinality({q \in places : q >= p}) = x BY <1>3, <2>1
  <2>3. at[x] = CHOOSE p \in places : Cardinality({q \in places : q >= p}) = x OBVIOUS
  <2> HIDE DEF at
  <2> QED BY <1>3, <2>2, <2>3
<1>6. at \in [1 .. n -> places] BY <1>5
<1> DEFINE s == Backward(c, places)
<1>7. s = [x \in 1 .. n |-> c[at[x]]] BY DEF Backward
<1> HIDE DEF at, s
<1>8. \A x \in 1 .. n : Cardinality(from[at[x]]) = x BY <1>5
<1>9. s \in [1 .. n -> Nodes] /\ \A x \in 1 .. n : s[x] = c[at[x]]
  <2>1. \A x \in 1 .. n : c[at[x]] \in Nodes BY <1>5, Places
  <2> QED BY <1>7, <2>1
<1>10. Takes(s, c, places) BY <1>4, <1>6, <1>8, <1>9, Numbered
<1> QED BY <1>10 DEF s
-----------------------------------------------------------------------------
\* What the rehash leaves in each bucket when it has been through bucket i.
LEMMA SiftIs ==
  ASSUME NEW n \in Nat, NEW t \in Tables(n), Apart(t, n), NEW i \in 0 .. n - 1
  PROVE  /\ Sift(t, i, n) \in Tables(n) /\ Apart(Sift(t, i, n), n)
         /\ \A j \in 0 .. n - 1 : Range(Sift(t, i, n)[j]) =
               {k \in Range(t[i]) : Index(k, n) = j} \cup (IF j = i THEN {} ELSE Range(t[j]))
<1> DEFINE u == Sift(t, i, n)
           there(j) == {x \in DOMAIN t[i] : Index(t[i][x], n) = j}
           moved(j) == {k \in Range(t[i]) : Index(k, n) = j}
           rest(j) == IF j = i THEN {} ELSE Range(t[j])
<1>1. \A j \in 0 .. n - 1 : t[j] \in Seq(Nodes) BY DEF Tables
<1>2. ASSUME NEW j \in 0 .. n - 1
      PROVE  there(j) \in SUBSET (1 .. Len(t[i])) /\ {t[i][p] : p \in there(j)} = moved(j)
  <2>1. t[i] \in Seq(Nodes) BY <1>1
  <2> HIDE DEF u
  <2>2. /\ DOMAIN t[i] = 1 .. Len(t[i])
        /\ \A k : k \in Range(t[i]) <=> \E x \in 1 .. Len(t[i]) : t[i][x] = k
    BY <2>1, Places
  <2> QED BY <2>2
<1>3. u = [j \in 0 .. n - 1 |->
             IF j = i THEN Forward(t[i], there(j)) ELSE Backward(t[i], there(j)) \o t[j]]
  BY DEF Sift
<1> HIDE DEF u
<1>4. ASSUME NEW j \in 0 .. n - 1
      PROVE  u[j] \in Seq(Nodes) /\ Apiece(u[j]) /\ Range(u[j]) = moved(j) \cup rest(j)
  <2>1. there(j) \in SUBSET (1 .. Len(t[i])) /\ {t[i][p] : p \in there(j)} = moved(j)
    BY <1>2
  <2>2. t[i] \in Seq(Nodes) /\ Apiece(t[i]) /\ t[j] \in Seq(Nodes) /\ Apiece(t[j])
    BY <1>1 DEF Apart
  <2>3. u[j] = IF j = i THEN Forward(t[i], there(j)) ELSE Backward(t[i], there(j)) \o t[j]
    BY <1>3
  <2>4. moved(j) \subseteq Range(t[i]) OBVIOUS
  <2> HIDE DEF there, moved
  <2>5. CASE j = i
    <3>1. Takes(Forward(t[i], there(j)), t[i], there(j)) BY <2>1, <2>2, ForwardIs
    <3> QED BY <2>1, <2>2, <2>3, <2>5, <3>1 DEF Takes
  <2>6. CASE j # i
    <3> DEFINE b == Backward(t[i], there(j))
    <3>1. Takes(b, t[i], there(j)) BY <2>1, <2>2, BackwardIs
    <3> HIDE DEF b
    <3>2. b \in Seq(Nodes) /\ Apiece(b) /\ Range(b) = moved(j) BY <2>1, <2>2, <3>1 DEF Takes
    <3>3. Range(b) \cap Range(t[j]) = {} BY <2>4, <2>6, <3>2 DEF Apart
    <3>4. /\ b \o t[j] \in Seq(Nodes) /\ Apiece(b \o t[j])
          /\ Range(b \o t[j]) = Range(b) \cup Range(t[j])
      BY <2>2, <3>2, <3>3, Joined
    <3>5. u[j] = b \o t[j] BY <2>3, <2>6 DEF b
    <3> QED BY <2>6, <3>2, <3>4, <3>5
  <2> QED BY <2>5, <2>6
<1>5. u \in Tables(n)
  <2>1. u = [j \in 0 .. n - 1 |-> u[j]] BY <1>3
  <2> QED BY <1>4, <2>1 DEF Tables
<1>6. ASSUME NEW j \in 0 .. n - 1, NEW k \in 0 .. n - 1, j # k
      PROVE  Range(u[j]) \cap Range(u[k]) = {}
  <2>1. moved(j) \cap moved(k) = {} BY <1>6
  <2>2. rest(j) \cap rest(k) = {} BY <1>6 DEF Apart
  <2>3. \A l \in 0 .. n - 1 : Range(t[i]) \cap rest(l) = {} BY DEF Apart
  <2>4. moved(j) \subseteq Range(t[i]) /\ moved(k) \subseteq Range(t[i]) OBVIOUS
  <2>5. Range(u[j]) = moved(j) \cup rest(j) /\ Range(u[k]) = moved(k) \cup rest(k) BY <1>4
  <2> HIDE DEF moved, rest
  <2> QED BY <2>1, <2>2, <2>3, <2>4, <2>5
<1>7. Apart(u, n) BY <1>4, <1>6 DEF Apart
<1> QED BY <1>4, <1>5, <1>7 DEF u

\* The table after m buckets: it has the nodes it had, and those in the buckets that the
\* loop has passed, or has added, are where they belong.
Halfway(t, m, n) ==
    /\ t \in Tables(n) /\ Apart(t, n) /\ Content(t) = Held
    /\ \A j \in 0 .. n - 1 : j < m \/ j >= tablelen => Home(t, j, n)

LEMMA StepOn ==
  ASSUME TableAssumption, NEW n \in Nat \ {0}, tablelen \in Nat, tablelen <= n,
         NEW m \in Nat, m < tablelen, NEW t, Halfway(t, m, n)
  PROVE  Halfway(Sift(t, m, n), m + 1, n)
<1> DEFINE u == Sift(t, m, n)
           moved(j) == {k \in Range(t[m]) : Index(k, n) = j}
<1>1. m \in 0 .. n - 1 /\ t \in Tables(n) /\ Apart(t, n) /\ Content(t) = Held
  BY DEF Halfway
<1>2. /\ u \in Tables(n) /\ Apart(u, n)
      /\ \A j \in 0 .. n - 1 : Range(u[j]) = moved(j) \cup (IF j = m THEN {} ELSE Range(t[j]))
  BY <1>1, SiftIs
<1> HIDE DEF u
<1>3. /\ \A k : k \in Content(t) <=> \E j \in 0 .. n - 1 : k \in Range(t[j])
      /\ \A k : k \in Content(u) <=> \E j \in 0 .. n - 1 : k \in Range(u[j])
  <2>1. DOMAIN t = 0 .. n - 1 /\ DOMAIN u = 0 .. n - 1 BY <1>1, <1>2 DEF Tables
  <2> QED BY <2>1 DEF Content
<1>4. \A k \in Range(t[m]) : Index(k, n) \in 0 .. n - 1
  <2>1. t[m] \in Seq(Nodes) BY <1>1 DEF Tables
  <2> QED BY <2>1, Places, Indices
<1>5. Content(u) = Content(t)
  <2>1. ASSUME NEW k \in Content(u) PROVE k \in Content(t)
    <3>1. PICK j \in 0 .. n - 1 : k \in Range(u[j]) BY <1>3
    <3>2. k \in Range(t[m]) \/ k \in Range(t[j]) BY <1>2, <3>1
    <3> QED BY <1>1, <1>3, <3>2
  <2>2. ASSUME NEW k \in Content(t) PROVE k \in Content(u)
    <3>1. PICK j \in 0 .. n - 1 : k \in Range(t[j]) BY <1>3
    <3>2. CASE j = m
      <4>1. k \in moved(Index(k, n)) /\ Index(k, n) \in 0 .. n - 1 BY <1>4, <3>1, <3>2
      <4> HIDE DEF moved
      <4>2. k \in Range(u[Index(k, n)]) BY <1>2, <4>1
      <4> QED BY <1>3, <4>1, <4>2
    <3>3. CASE j # m
      <4>1. k \in Range(u[j]) BY <1>2, <3>1, <3>3
      <4> QED BY <1>3, <4>1
    <3> QED BY <3>2, <3>3
  <2> QED BY <2>1, <2>2
<1>6. ASSUME NEW j \in 0 .. n - 1, j < m + 1 \/ j >= tablelen PROVE Home(u, j, n)
  <2>1. \A k \in moved(j) : Index(k, n) = j OBVIOUS
  <2>2. CASE j = m
    <3>1. Range(u[j]) = moved(j) BY <1>2, <2>2
    <3> QED BY <2>1, <3>1 DEF Home
  <2>3. CASE j # m
    <3>1. j < m \/ j >= tablelen BY <1>6, <2>3
    <3>2. Home(t, j, n) BY <3>1 DEF Halfway
    <3>3. Range(u[j]) = moved(j) \cup Range(t[j]) BY <1>2, <2>3
    <3> QED BY <2>1, <3>2, <3>3 DEF Home
  <2> QED BY <2>2, <2>3
<1> QED BY <1>1, <1>2, <1>5, <1>6 DEF Halfway, u
-----------------------------------------------------------------------------
\* One round of the loop, when there is one more.
Round(len, t, i) == IF i < tablelen THEN Sift(t, i, len) ELSE t

\* The loop runs through the buckets of the table that grows.
LEMMA ExpandedIs ==
  ASSUME TableAssumption, TypeOK, Apart(table, tablelen), NEW n \in Nat \ {0}, tablelen < n,
         \A i \in 0 .. tablelen - 1 : Home(table, i, tablelen)
  PROVE  Halfway(Expanded(n), tablelen, n)
<1> DEFINE S == {t \in Tables(n) : Apart(t, n)}
           m == tablelen
           step == [p \in S \X Nat |-> Round(n, p[1], p[2])]
           body(f) == [i \in 0 .. m |-> IF i = 0 THEN Longer(n) ELSE Sift(f[i - 1], i - 1, n)]
<1>1. /\ m \in Nat \ {0} /\ table \in Tables(m)
      /\ \A i \in 0 .. m - 1 : table[i] \in Seq(Nodes)
  BY ElementOfSeq DEF TypeOK, Tables, TableAssumption, PrimesAssumption
<1>2. Halfway(Longer(n), 0, n)
  <2> DEFINE u == Longer(n)
  <2>1. u = [j \in 0 .. n - 1 |-> IF j < m THEN table[j] ELSE <<>>] BY DEF Longer
  <2>2. <<>> \in Seq(Nodes) /\ Len(<<>>) = 0 /\ Range(<<>>) = {}
    BY EmptySeq, Places DEF Range
  <2> HIDE DEF u
  <2>3. ASSUME NEW j \in 0 .. n - 1
        PROVE  \/ j \in 0 .. m - 1 /\ u[j] = table[j]
               \/ j >= m /\ u[j] = <<>> /\ Range(u[j]) = {}
    BY <1>1, <2>1, <2>2
  <2>4. u \in Tables(n)
    <3>1. \A j \in 0 .. n - 1 : u[j] \in Seq(Nodes) BY <1>1, <2>2, <2>3
    <3> QED BY <2>1, <3>1 DEF Tables
  <2>5. Apart(u, n)
    <3>1. ASSUME NEW j \in 0 .. n - 1 PROVE Apiece(u[j])
      <4>1. Apiece(<<>>) BY <2>2 DEF Apiece
      <4> QED BY <2>3, <4>1 DEF Apart
    <3>2. ASSUME NEW j \in 0 .. n - 1, NEW k \in 0 .. n - 1, j # k
          PROVE  Range(u[j]) \cap Range(u[k]) = {}
      BY <2>3, <3>2 DEF Apart
    <3> QED BY <3>1, <3>2 DEF Apart
  <2>6. Content(u) = Held
    <3>1. DOMAIN u = 0 .. n - 1 /\ DOMAIN table = 0 .. m - 1 BY <1>1, <2>1 DEF Tables
    <3>2. \A j \in 0 .. m - 1 : j \in 0 .. n - 1 /\ u[j] = table[j] BY <1>1, <2>1
    <3>3. \A k : k \in Content(u) <=> \E j \in 0 .. n - 1 : k \in Range(u[j])
      BY <3>1 DEF Content
    <3>4. \A k : k \in Held <=> \E j \in 0 .. m - 1 : k \in Range(table[j])
      BY <3>1 DEF Held
    <3> QED BY <2>3, <3>2, <3>3, <3>4
  <2>7. \A j \in 0 .. n - 1 : j < 0 \/ j >= m => Home(u, j, n)
    <3>1. ASSUME NEW j \in 0 .. n - 1, j < 0 \/ j >= m PROVE Range(u[j]) = {}
      <4>1. j \in Nat /\ ~(j \in 0 .. m - 1) BY <1>1, <3>1
      <4> QED BY <2>3, <4>1
    <3> QED BY <3>1 DEF Home
  <2> QED BY <2>4, <2>5, <2>6, <2>7 DEF Halfway, u
<1>3. step \in [S \X Nat -> S]
  <2>1. ASSUME NEW t \in S, NEW i \in Nat PROVE Round(n, t, i) \in S
    <3>1. CASE i < m
      <4>1. i \in 0 .. n - 1 BY <1>1, <3>1
      <4>2. Sift(t, i, n) \in Tables(n) /\ Apart(Sift(t, i, n), n) BY <4>1, SiftIs
      <4> QED BY <3>1, <4>2 DEF Round
    <3>2. CASE ~(i < m) BY <3>2 DEF Round
    <3> QED BY <3>1, <3>2
  <2>2. \A p \in S \X Nat : p[1] \in S /\ p[2] \in Nat OBVIOUS
  <2> HIDE DEF S
  <2> QED BY <2>1, <2>2
<1>4. Longer(n) \in S BY <1>2 DEF Halfway
<1>5. PICK g \in [Nat -> S] : /\ g[0] = Longer(n)
                              /\ \A i \in Nat : g[i + 1] = step[<<g[i], i>>]
  <2> HIDE DEF S, step
  <2>1. \E g : Iterates(g, S, Longer(n), step) BY <1>3, <1>4, Iterate
  <2> QED BY <2>1 DEF Iterates
<1>6. \A i \in Nat : g[i + 1] = Round(n, g[i], i)
  <2>1. ASSUME NEW i \in Nat PROVE step[<<g[i], i>>] = Round(n, g[i], i)
    <3>1. <<g[i], i>> \in S \X Nat OBVIOUS
    <3> QED BY <3>1
  <2> QED BY <1>5, <2>1
<1> HIDE DEF step, S
<1> DEFINE f == [i \in 0 .. m |-> g[i]]
<1>7. f = body(f)
  <2>1. ASSUME NEW i \in 0 .. m PROVE f[i] = body(f)[i]
    <3>1. CASE i = 0 BY <1>5, <3>1
    <3>2. CASE i # 0
      <4>1. /\ i - 1 \in Nat /\ (i - 1) + 1 = i /\ i - 1 < m /\ i - 1 \in 0 .. m
        BY <1>1, <3>2
      <4>2. g[(i - 1) + 1] = Sift(g[i - 1], i - 1, n) BY <1>6, <4>1 DEF Round
      <4>3. f[i - 1] = g[i - 1] /\ f[i] = g[i] BY <4>1
      <4>4. body(f)[i] = Sift(f[i - 1], i - 1, n) BY <3>2
      <4> HIDE DEF f, body
      <4> QED BY <4>1, <4>2, <4>3, <4>4
    <3> QED BY <3>1, <3>2
  <2>2. body(f) = [i \in 0 .. m |-> body(f)[i]] OBVIOUS
  <2>3. f = [i \in 0 .. m |-> f[i]] OBVIOUS
  <2> HIDE DEF body, f
  <2> QED BY <2>1, <2>2, <2>3
<1> DEFINE after == CHOOSE h : h = body(h)
<1>8. after = body(after)
  <2>1. \E h : h = body(h) BY <1>7
  <2> HIDE DEF body, f
  <2> QED BY <2>1
<1>9. Expanded(n) = after[m]
  BY DEF Expanded, After
<1> HIDE DEF after, f
<1>10. /\ after[0] = Longer(n)
       /\ \A i \in Nat : i < m => after[i + 1] = Sift(after[i], i, n)
  <2>1. \A i \in 0 .. m : after[i] = body(after)[i] BY <1>8
  <2>2. ASSUME NEW i \in Nat, i < m PROVE after[i + 1] = Sift(after[i], i, n)
    <3>1. i + 1 \in 0 .. m /\ i + 1 # 0 /\ (i + 1) - 1 = i BY <1>1, <2>2
    <3>2. body(after)[i + 1] = Sift(after[(i + 1) - 1], (i + 1) - 1, n) BY <3>1
    <3> HIDE DEF body
    <3> QED BY <2>1, <3>1, <3>2
  <2>3. body(after)[0] = Longer(n) BY <1>1
  <2>4. 0 \in 0 .. m BY <1>1
  <2> HIDE DEF body
  <2> QED BY <2>1, <2>2, <2>3, <2>4
<1> HIDE DEF body
<1> DEFINE D == {i \in Nat : i <= m => Halfway(after[i], i, n)}
<1>11. D = Nat
  <2>1. 0 \in D BY <1>2, <1>10
  <2>2. ASSUME NEW i \in D PROVE i + 1 \in D
    <3>1. CASE i < m
      <4>1. i \in Nat /\ Halfway(after[i], i, n) /\ after[i + 1] = Sift(after[i], i, n)
        BY <1>1, <1>10, <3>1
      <4>2. Halfway(after[i + 1], i + 1, n) BY <1>1, <3>1, <4>1, StepOn
      <4> QED BY <4>1, <4>2
    <3>2. CASE ~(i < m) BY <1>1, <3>2
    <3> QED BY <3>1, <3>2
  <2>3. D \in SUBSET Nat OBVIOUS
  <2> HIDE DEF D
  <2> QED BY <2>1, <2>2, <2>3, Induct
<1>12. m \in D /\ m <= m BY <1>1, <1>11
<1> QED BY <1>9, <1>12
-----------------------------------------------------------------------------
\* Every node in its bucket, once.
Sound(t, n) == /\ t \in Tables(n) /\ Apart(t, n)
               /\ \A i \in 0 .. n - 1 : Home(t, i, n)

LEMMA InBuckets ==
  ASSUME NEW n \in Nat, NEW t \in Tables(n)
  PROVE  /\ \A k : k \in Content(t) <=> \E i \in 0 .. n - 1 : k \in Range(t[i])
         /\ \A i \in 0 .. n - 1 : t[i] \in Seq(Nodes) /\ Range(t[i]) \subseteq Nodes
         /\ Content(t) \subseteq Nodes
<1>1. DOMAIN t = 0 .. n - 1 /\ \A i \in 0 .. n - 1 : t[i] \in Seq(Nodes) BY DEF Tables
<1>2. \A i \in 0 .. n - 1 : Range(t[i]) \subseteq Nodes BY <1>1, Places
<1>3. \A k : k \in Content(t) <=> \E i \in 0 .. n - 1 : k \in Range(t[i])
  BY <1>1 DEF Content
<1> QED BY <1>1, <1>2, <1>3

\* One bucket gets another chain, of nodes that belong in it and are in no other.
Swapped(t, i, c) == [t EXCEPT ![i] = c]
LEMMA SwappedIs ==
  ASSUME NEW n \in Nat, NEW t, Sound(t, n), NEW i \in 0 .. n - 1,
         NEW c \in Seq(Nodes), Apiece(c),
         \A k \in Range(c) : /\ Index(k, n) = i
                             /\ \A j \in 0 .. n - 1 : j # i => k \notin Range(t[j])
  PROVE  /\ Sound(Swapped(t, i, c), n)
         /\ Content(Swapped(t, i, c)) = (Content(t) \ Range(t[i])) \cup Range(c)
<1> DEFINE u == Swapped(t, i, c)
<1>1. /\ t \in Tables(n) /\ Apart(t, n) /\ \A j \in 0 .. n - 1 : Home(t, j, n)
      /\ \A j \in 0 .. n - 1 : t[j] \in Seq(Nodes)
  BY InBuckets DEF Sound
<1>2. u \in Tables(n) /\ \A j \in 0 .. n - 1 : u[j] = IF j = i THEN c ELSE t[j]
  BY <1>1 DEF Tables, Swapped
<1> HIDE DEF u
<1>3. Apart(u, n)
  <2>1. ASSUME NEW j \in 0 .. n - 1 PROVE Apiece(u[j])
    BY <1>1, <1>2 DEF Apart
  <2>2. ASSUME NEW j \in 0 .. n - 1, NEW k \in 0 .. n - 1, j # k
        PROVE  Range(u[j]) \cap Range(u[k]) = {}
    <3>1. CASE j = i BY <1>2, <2>2, <3>1
    <3>2. CASE k = i BY <1>2, <2>2, <3>2
    <3>3. CASE j # i /\ k # i BY <1>1, <1>2, <2>2, <3>3 DEF Apart
    <3> QED BY <3>1, <3>2, <3>3
  <2> QED BY <2>1, <2>2 DEF Apart
<1>4. ASSUME NEW j \in 0 .. n - 1 PROVE Home(u, j, n)
  BY <1>1, <1>2 DEF Home
<1>5. Content(u) = (Content(t) \ Range(t[i])) \cup Range(c)
  <2>1. /\ \A k : k \in Content(t) <=> \E j \in 0 .. n - 1 : k \in Range(t[j])
        /\ \A k : k \in Content(u) <=> \E j \in 0 .. n - 1 : k \in Range(u[j])
    BY <1>1, <1>2, InBuckets
  <2>2. \A j \in 0 .. n - 1 : j # i => Range(t[j]) \cap Range(t[i]) = {}
    BY <1>1 DEF Apart
  <2>3. ASSUME NEW k PROVE k \in Content(u) <=> k \in (Content(t) \ Range(t[i])) \cup Range(c)
    <3>1. CASE k \in Range(c) BY <1>2, <2>1, <3>1
    <3>2. CASE k \notin Range(c)
      <4>1. ASSUME k \in Content(u) PROVE k \in Content(t) \ Range(t[i])
        <5>1. PICK j \in 0 .. n - 1 : k \in Range(u[j]) BY <2>1, <4>1
        <5>2. j # i /\ k \in Range(t[j]) BY <1>2, <3>2, <5>1
        <5> QED BY <2>1, <2>2, <5>2
      <4>2. ASSUME k \in Content(t) \ Range(t[i]) PROVE k \in Content(u)
        <5>1. PICK j \in 0 .. n - 1 : k \in Range(t[j]) BY <2>1, <4>2
        <5>2. j # i /\ k \in Range(u[j]) BY <1>2, <4>2, <5>1
        <5> QED BY <2>1, <5>2
      <4> QED BY <3>2, <4>1, <4>2
    <3> QED BY <3>1, <3>2
  <2> QED BY <2>3
<1> QED BY <1>2, <1>3, <1>4, <1>5 DEF Sound, u

LEMMA PushedIs ==
  ASSUME TableAssumption, NEW n \in Nat \ {0}, NEW t, Sound(t, n),
         NEW k \in Nodes, k \notin Content(t)
  PROVE  Sound(Pushed(t, k, n), n) /\ Content(Pushed(t, k, n)) = Content(t) \cup {k}
<1> DEFINE i == Index(k, n)
           c == <<k>> \o t[i]
<1>1. i \in 0 .. n - 1 BY Indices
<1>2. /\ t \in Tables(n) /\ t[i] \in Seq(Nodes) /\ Apiece(t[i]) /\ Home(t, i, n)
      /\ \A j \in 0 .. n - 1 : k \notin Range(t[j])
      /\ Range(t[i]) \subseteq Content(t)
  BY <1>1, InBuckets DEF Sound, Apart
<1>3. <<k>> \in Seq(Nodes) /\ Apiece(<<k>>) /\ Range(<<k>>) = {k}
  <2>1. <<k>> \in Seq(Nodes) /\ Len(<<k>>) = 1 /\ <<k>>[1] = k OBVIOUS
  <2>2. \A x : x \in Range(<<k>>) <=> \E y \in 1 .. 1 : <<k>>[y] = x BY <2>1, Places
  <2> QED BY <2>1, <2>2 DEF Apiece
<1>4. /\ c \in Seq(Nodes) /\ Apiece(c) /\ Range(c) = {k} \cup Range(t[i])
  <2>1. Range(<<k>>) \cap Range(t[i]) = {} BY <1>1, <1>2, <1>3
  <2> QED BY <1>2, <1>3, <2>1, Joined
<1>5. Pushed(t, k, n) = Swapped(t, i, c) BY <1>1, <1>2 DEF Pushed, Swapped, Tables
<1> HIDE DEF c
<1>6. ASSUME NEW l \in Range(c)
      PROVE  Index(l, n) = i /\ \A j \in 0 .. n - 1 : j # i => l \notin Range(t[j])
  <2>1. CASE l = k BY <1>2, <2>1
  <2>2. CASE l \in Range(t[i])
    <3>1. Index(l, n) = i BY <1>2, <2>2 DEF Home
    <3>2. \A j \in 0 .. n - 1 : j # i => Range(t[j]) \cap Range(t[i]) = {}
      BY <1>1 DEF Sound, Apart
    <3> QED BY <2>2, <3>1, <3>2
  <2> QED BY <1>4, <2>1, <2>2
<1> HIDE DEF i
<1>7. /\ Sound(Swapped(t, i, c), n)
      /\ Content(Swapped(t, i, c)) = (Content(t) \ Range(t[i])) \cup Range(c)
  BY <1>1, <1>4, <1>6, SwappedIs
<1> QED BY <1>2, <1>4, <1>5, <1>7

\* A chain without one of its nodes.
LEMMA WithoutIs ==
  ASSUME NEW s \in Seq(Nodes), Apiece(s), NEW k \in Range(s)
  PROVE  /\ Without(s, k) \in Seq(Nodes) /\ Apiece(Without(s, k))
         /\ Range(Without(s, k)) = Range(s) \ {k}
<1>1. PICK i \in 1 .. Len(s) : s[i] = k BY Places
<1> DEFINE a == SubSeq(s, 1, i - 1)
           b == SubSeq(s, i + 1, Len(s))
<1>2. Len(s) \in Nat /\ i \in Nat /\ \A x \in 1 .. Len(s) : s[x] \in Nodes
  BY LenProperties, ElementOfSeq
<1>3. Without(s, k) = a \o b
  <2>1. (CHOOSE x \in DOMAIN s : s[x] = k) = i
    <3>1. \A x \in DOMAIN s : s[x] = k <=> x = i BY <1>1, Places DEF Apiece
    <3>2. i \in DOMAIN s BY Places
    <3> QED BY <3>1, <3>2
  <2> QED BY <2>1 DEF Without, RemoveAt
<1>4. /\ a \in Seq(Nodes) /\ Len(a) = i - 1
      /\ \A x \in 1 .. i - 1 : a[x] = s[x]
  <2>1. a \in Seq(Nodes) /\ Len(a) = i - 1 BY <1>2, SubSeqProperties
  <2>2. \A x \in 1 .. i - 1 : a[x] = s[1 + x - 1] BY <1>2, SubSeqProperties
  <2>3. \A x \in 1 .. i - 1 : 1 + x - 1 = x OBVIOUS
  <2> HIDE DEF a
  <2> QED BY <2>1, <2>2, <2>3
<1>5. /\ b \in Seq(Nodes) /\ Len(b) = Len(s) - i
      /\ \A x \in 1 .. Len(s) - i : b[x] = s[i + x]
  <2>1. b \in Seq(Nodes) /\ Len(b) = Len(s) - i BY <1>2, SubSeqProperties
  <2>2. \A x \in 1 .. Len(s) - i : b[x] = s[i + 1 + x - 1] BY <1>2, SubSeqProperties
  <2>3. \A x \in 1 .. Len(s) - i : i + 1 + x - 1 = i + x BY <1>2
  <2> HIDE DEF b
  <2> QED BY <2>1, <2>2, <2>3
<1> HIDE DEF a, b
<1>6. /\ \A l : l \in Range(a) <=> \E x \in 1 .. i - 1 : a[x] = l
      /\ \A l : l \in Range(b) <=> \E x \in 1 .. Len(s) - i : b[x] = l
      /\ \A l : l \in Range(s) <=> \E x \in 1 .. Len(s) : s[x] = l
  <2>1. \A l : l \in Range(a) <=> \E x \in 1 .. i - 1 : a[x] = l BY <1>4, Places
  <2>2. \A l : l \in Range(b) <=> \E x \in 1 .. Len(s) - i : b[x] = l BY <1>5, Places
  <2>3. \A l : l \in Range(s) <=> \E x \in 1 .. Len(s) : s[x] = l BY Places
  <2> QED BY <2>1, <2>2, <2>3
<1>7. /\ \A l : l \in Range(a) <=> \E x \in 1 .. Len(s) : x < i /\ s[x] = l
      /\ \A l : l \in Range(b) <=> \E x \in 1 .. Len(s) : x > i /\ s[x] = l
  <2>1. ASSUME NEW l \in Range(a) PROVE \E x \in 1 .. Len(s) : x < i /\ s[x] = l
    <3>1. PICK x \in 1 .. i - 1 : a[x] = l BY <1>6
    <3>2. x \in 1 .. Len(s) /\ x < i /\ s[x] = l BY <1>2, <1>4, <3>1
    <3> QED BY <3>2
  <2>2. ASSUME NEW l \in Range(b) PROVE \E x \in 1 .. Len(s) : x > i /\ s[x] = l
    <3>1. PICK x \in 1 .. Len(s) - i : b[x] = l BY <1>6
    <3>2. i + x \in 1 .. Len(s) /\ i + x > i /\ s[i + x] = l BY <1>2, <1>5, <3>1
    <3> QED BY <3>2
  <2>3. ASSUME NEW x \in 1 .. Len(s), x < i PROVE s[x] \in Range(a)
    <3>1. x \in 1 .. i - 1 BY <1>2, <2>3
    <3> QED BY <1>4, <1>6, <3>1
  <2>4. ASSUME NEW x \in 1 .. Len(s), x > i PROVE s[x] \in Range(b)
    <3>1. x - i \in 1 .. Len(s) - i /\ i + (x - i) = x BY <1>2, <2>4
    <3>2. b[x - i] = s[x] BY <1>5, <3>1
    <3> QED BY <1>6, <3>1, <3>2
  <2> QED BY <2>1, <2>2, <2>3, <2>4
<1>8. /\ a \o b \in Seq(Nodes) /\ Range(a \o b) = Range(a) \cup Range(b)
      /\ Apiece(a \o b)
  <2>1. Apiece(a)
    <3>1. \A x \in 1 .. i - 1 : x \in 1 .. Len(s) BY <1>2
    <3> QED BY <1>4, <3>1 DEF Apiece
  <2>2. Apiece(b)
    <3> SUFFICES ASSUME NEW x \in 1 .. Len(s) - i, NEW y \in 1 .. Len(s) - i, b[x] = b[y]
                 PROVE  x = y
      BY <1>5 DEF Apiece
    <3>1. i + x \in 1 .. Len(s) /\ i + y \in 1 .. Len(s) BY <1>2
    <3>2. s[i + x] = s[i + y] BY <1>5
    <3>3. i + x = i + y BY <3>1, <3>2 DEF Apiece
    <3> QED BY <1>2, <3>3
  <2>3. Range(a) \cap Range(b) = {}
    <3> SUFFICES ASSUME NEW l \in Range(a), l \in Range(b) PROVE FALSE
      OBVIOUS
    <3>1. PICK x \in 1 .. Len(s) : x < i /\ s[x] = l BY <1>7
    <3>2. PICK y \in 1 .. Len(s) : y > i /\ s[y] = l BY <1>7
    <3>3. x = y BY <3>1, <3>2 DEF Apiece
    <3> QED BY <1>2, <3>1, <3>2, <3>3
  <2> QED BY <1>4, <1>5, <2>1, <2>2, <2>3, Joined
<1>9. Range(a) \cup Range(b) = Range(s) \ {k}
  <2>1. \A x \in 1 .. Len(s) : x # i <=> s[x] # k BY <1>1 DEF Apiece
  <2>2. \A x \in 1 .. Len(s) : x # i <=> x < i \/ x > i BY <1>2
  <2> QED BY <1>6, <1>7, <2>1, <2>2
<1> QED BY <1>3, <1>8, <1>9
-----------------------------------------------------------------------------
\* Where a key's bucket is, what the search of it returns.
LEMMA Chains ==
  ASSUME TableAssumption, NEW n \in Nat \ {0}, NEW k \in Nodes
  PROVE  Hash[Key[k]] % n = Index(k, n) /\ Index(k, n) \in 0 .. n - 1
BY Indices DEF Index

LEMMA LookupIs ==
  ASSUME TableAssumption, tablelen \in Nat \ {0}, Sound(table, tablelen), NEW n \in Nodes
  PROVE  \/ /\ Lookup(Key[n]) = None
            /\ \A k \in Held : Key[k] # Key[n]
         \/ /\ Lookup(Key[n]) # None /\ Lookup(Key[n]) \in Held
            /\ Lookup(Key[n]) \in Nodes /\ Key[Lookup(Key[n])] = Key[n]
            /\ Lookup(Key[n]) \in Range(table[Index(n, tablelen)])
<1> DEFINE i == Index(n, tablelen)
           c == table[i]
           equal == {x \in DOMAIN c : Key[c[x]] = Key[n]}
           least == CHOOSE x \in equal : \A y \in equal : x <= y
<1>1. /\ i \in 0 .. tablelen - 1 /\ c \in Seq(Nodes) /\ Range(c) \subseteq Nodes
      /\ \A k : k \in Held <=> \E j \in 0 .. tablelen - 1 : k \in Range(table[j])
  BY Chains, InBuckets DEF Sound, Content, Held
<1>2. Lookup(Key[n]) = IF equal = {} THEN None ELSE c[least]
  <2>1. Hash[Key[n]] % tablelen = i BY Chains
  <2>2. Lookup(Key[n]) = First(Key[n], c) BY <2>1 DEF Lookup
  <2> QED BY <2>2 DEF First
<1>3. DOMAIN c = 1 .. Len(c) /\ \A x \in 1 .. Len(c) : c[x] \in Nodes /\ c[x] \in Range(c)
  BY <1>1, Places
<1>4. CASE equal = {}
  <2>1. \A x \in 1 .. Len(c) : Key[c[x]] # Key[n] BY <1>3, <1>4
  <2>2. ASSUME NEW k \in Held, Key[k] = Key[n] PROVE FALSE
    <3>1. PICK j \in 0 .. tablelen - 1 : k \in Range(table[j]) BY <1>1
    <3>2. Index(k, tablelen) = j BY <3>1 DEF Sound, Home
    <3>3. Index(k, tablelen) = i BY <2>2 DEF Index
    <3>4. k \in Range(c) BY <3>1, <3>2, <3>3
    <3>5. PICK x \in 1 .. Len(c) : c[x] = k BY <1>1, <3>4, Places
    <3> QED BY <2>1, <2>2, <3>5
  <2> QED BY <1>2, <1>4, <2>2
<1>5. CASE equal # {}
  <2>1. equal \in SUBSET Nat BY <1>3
  <2>2. least \in equal
    <3>1. \E x \in equal : \A y \in equal : x <= y
      <4> HIDE DEF equal
      <4> QED BY <1>5, <2>1, HasLeast
    <3> HIDE DEF equal
    <3> QED BY <3>1
  <2>3. Lookup(Key[n]) = c[least] BY <1>2, <1>5
  <2>4. least \in 1 .. Len(c) /\ Key[c[least]] = Key[n] BY <1>3, <2>2
  <2> HIDE DEF least, equal, c, i
  <2>5. c[least] \in Nodes /\ c[least] \in Range(c) BY <1>3, <2>4
  <2>6. c[least] \in Held BY <1>1, <2>5 DEF c
  <2>7. None \notin Nodes BY DEF TableAssumption, NodesAssumption
  <2> QED BY <2>3, <2>4, <2>5, <2>6, <2>7 DEF c, i
<1> QED BY <1>4, <1>5
-----------------------------------------------------------------------------
\* A chain without repetitions is as long as it has nodes.
LEMMA LengthIsSize == ASSUME NEW s \in Seq(Nodes), Apiece(s)
                      PROVE  IsFiniteSet(Range(s)) /\ Cardinality(Range(s)) = Len(s)
<1>1. Len(s) \in Nat /\ s \in [1 .. Len(s) -> Nodes] /\ Range(s) \subseteq Nodes
  BY LenProperties, RangeOfSeq
<1>2. IsFiniteSet(1 .. Len(s)) /\ Cardinality(1 .. Len(s)) = Len(s)
  BY <1>1, FS_Interval
<1>3. s \in Bijection(1 .. Len(s), Range(s))
  BY <1>1 DEF Bijection, Injection, Surjection, IsInjective, Range, Apiece
<1>4. ExistsBijection(1 .. Len(s), Range(s)) BY <1>3 DEF ExistsBijection
<1> QED BY <1>2, <1>4, FS_Bijection

\* A count that is no less than what the table holds stops no loop too early.
Size(i) == IF i < tablelen THEN Len(table[i]) ELSE 0
LEMMA VisitedIs ==
  ASSUME TableAssumption, tablelen \in Nat \ {0}, Sound(table, tablelen),
         NEW c \in Nat, c >= Cardinality(Held)
  PROVE  VisitedNodes(c) = Held
<1> DEFINE m == tablelen
           step == [p \in Nat \X Nat |-> p[1] + Size(p[2])]
           body(f) == [i \in 0 .. m |-> IF i = 0 THEN 0 ELSE f[i - 1] + Len(table[i - 1])]
           upto(k) == {l \in Held : \E i \in 0 .. m - 1 : i < k /\ l \in Range(table[i])}
<1>1. /\ \A k : k \in Held <=> \E i \in 0 .. m - 1 : k \in Range(table[i])
      /\ \A i \in 0 .. m - 1 : /\ table[i] \in Seq(Nodes) /\ Apiece(table[i])
                               /\ Len(table[i]) \in Nat
      /\ \A i, j \in 0 .. m - 1 : i # j => Range(table[i]) \cap Range(table[j]) = {}
      /\ IsFiniteSet(Held)
  <2>1. /\ \A k : k \in Held <=> \E i \in 0 .. m - 1 : k \in Range(table[i])
        /\ \A i \in 0 .. m - 1 : table[i] \in Seq(Nodes)
        /\ Held \subseteq Nodes
    BY InBuckets DEF Sound, Content, Held
  <2>2. IsFiniteSet(Held) BY <2>1, FS_Subset DEF TableAssumption, NodesAssumption
  <2>3. \A i \in 0 .. m - 1 : Len(table[i]) \in Nat BY <2>1, Places
  <2> QED BY <2>1, <2>2, <2>3 DEF Sound, Apart
<1>2. \A i \in Nat : Size(i) \in Nat
  <2>1. \A i \in Nat : i < m => i \in 0 .. m - 1 OBVIOUS
  <2> QED BY <1>1, <2>1 DEF Size
<1>3. step \in [Nat \X Nat -> Nat] BY <1>2
<1>4. PICK g \in [Nat -> Nat] : g[0] = 0 /\ \A i \in Nat : g[i + 1] = step[<<g[i], i>>]
  <2> HIDE DEF step
  <2>1. \E g : Iterates(g, Nat, 0, step) BY <1>3, Iterate
  <2> QED BY <2>1 DEF Iterates
<1>5. \A i \in Nat : g[i + 1] = g[i] + Size(i)
  <2>1. ASSUME NEW i \in Nat PROVE step[<<g[i], i>>] = g[i] + Size(i)
    <3>1. <<g[i], i>> \in Nat \X Nat OBVIOUS
    <3> QED BY <3>1
  <2> QED BY <1>4, <2>1
<1> HIDE DEF step
<1> DEFINE f == [i \in 0 .. m |-> g[i]]
<1>6. f = body(f)
  <2>1. ASSUME NEW i \in 0 .. m PROVE f[i] = body(f)[i]
    <3>1. CASE i = 0 BY <1>4, <3>1
    <3>2. CASE i # 0
      <4>1. /\ i - 1 \in Nat /\ (i - 1) + 1 = i /\ i - 1 < m /\ i - 1 \in 0 .. m
        BY <3>2
      <4>2. g[(i - 1) + 1] = g[i - 1] + Len(table[i - 1]) BY <1>5, <4>1 DEF Size
      <4>3. f[i - 1] = g[i - 1] /\ f[i] = g[i] BY <4>1
      <4>4. body(f)[i] = f[i - 1] + Len(table[i - 1]) BY <3>2
      <4> HIDE DEF f, body
      <4> QED BY <4>1, <4>2, <4>3, <4>4
    <3> QED BY <3>1, <3>2
  <2>2. body(f) = [i \in 0 .. m |-> body(f)[i]] OBVIOUS
  <2>3. f = [i \in 0 .. m |-> f[i]] OBVIOUS
  <2> HIDE DEF body, f
  <2> QED BY <2>1, <2>2, <2>3
<1> DEFINE before == CHOOSE h : h = body(h)
<1>7. before = body(before)
  <2>1. \E h : h = body(h) BY <1>6
  <2> HIDE DEF body, f
  <2> QED BY <2>1
<1>8. Visited(c) = {i \in 0 .. m - 1 : \A j \in 0 .. i : before[j] # c}
  BY DEF Visited
<1> HIDE DEF before, f
<1>9. before[0] = 0 /\ \A i \in Nat : i < m => before[i + 1] = before[i] + Len(table[i])
  <2>1. \A i \in 0 .. m : before[i] = body(before)[i] BY <1>7
  <2>2. ASSUME NEW i \in Nat, i < m PROVE before[i + 1] = before[i] + Len(table[i])
    <3>1. i + 1 \in 0 .. m /\ i + 1 # 0 /\ (i + 1) - 1 = i BY <2>2
    <3>2. body(before)[i + 1] = before[(i + 1) - 1] + Len(table[(i + 1) - 1]) BY <3>1
    <3> HIDE DEF body
    <3> QED BY <2>1, <3>1, <3>2
  <2>3. body(before)[0] = 0 /\ 0 \in 0 .. m OBVIOUS
  <2> HIDE DEF body
  <2> QED BY <2>1, <2>2, <2>3
<1> HIDE DEF body
<1> DEFINE D == {k \in Nat : k <= m => Cardinality(upto(k)) = before[k]}
<1>10. \A k \in Nat : /\ upto(k) \subseteq Held /\ IsFiniteSet(upto(k))
                      /\ Cardinality(upto(k)) \in Nat
  BY <1>1, FS_Subset, FS_CardinalityType
<1>11. D = Nat
  <2>1. 0 \in D
    <3>1. upto(0) = {} OBVIOUS
    <3> HIDE DEF upto
    <3> QED BY <1>9, <3>1, FS_EmptySet
  <2>2. ASSUME NEW k \in D, k < m PROVE k + 1 \in D
    <3>1. /\ k \in Nat /\ k \in 0 .. m - 1 /\ Cardinality(upto(k)) = before[k]
          /\ before[k + 1] = before[k] + Len(table[k])
      BY <1>9, <2>2
    <3>0. /\ k + 1 \in Nat
          /\ Cardinality(upto(k + 1)) = before[k + 1] => k + 1 \in D
      <4> HIDE DEF upto
      <4>1. k + 1 \in Nat BY <3>1
      <4> QED BY <4>1
    <3> HIDE DEF D
    <3>2. upto(k + 1) = upto(k) \cup Range(table[k])
      <4>1. ASSUME NEW i \in 0 .. m - 1 PROVE i < k + 1 <=> (i < k \/ i = k)
        <5>1. i \in Int /\ k \in Int BY <3>1
        <5> QED BY <5>1
      <4>2. \A l : l \in upto(k + 1) <=>
                     l \in Held /\ \E i \in 0 .. m - 1 : i < k + 1 /\ l \in Range(table[i])
        OBVIOUS
      <4>3. \A l : l \in upto(k) <=>
                     l \in Held /\ \E i \in 0 .. m - 1 : i < k /\ l \in Range(table[i])
        OBVIOUS
      <4> HIDE DEF upto
      <4> QED BY <1>1, <3>1, <4>1, <4>2, <4>3
    <3>3. upto(k) \cap Range(table[k]) = {}
      <4>1. ASSUME NEW i \in 0 .. m - 1, i < k PROVE Range(table[i]) \cap Range(table[k]) = {}
        <5>1. i # k BY <3>1, <4>1
        <5> QED BY <1>1, <3>1, <5>1
      <4> QED BY <4>1
    <3>4. IsFiniteSet(Range(table[k])) /\ Cardinality(Range(table[k])) = Len(table[k])
      BY <1>1, <3>1, LengthIsSize
    <3>5. IsFiniteSet(upto(k)) /\ Cardinality(upto(k)) \in Nat BY <1>10, <3>1
    <3>6. Len(table[k]) \in Nat BY <1>1, <3>1
    <3> DEFINE old == upto(k)
               new == Range(table[k])
    <3> HIDE DEF upto, old, new
    <3>7. Cardinality(old \cup new) = Cardinality(old) + Cardinality(new) - Cardinality({})
      <4>1. IsFiniteSet(old) /\ IsFiniteSet(new) /\ old \cap new = {}
        BY <3>3, <3>4, <3>5 DEF old, new
      <4> QED BY <4>1, FS_Union
    <3>8. Cardinality({}) = 0 BY FS_EmptySet
    <3>9. Cardinality(upto(k + 1)) = before[k + 1]
      <4>1. Cardinality(old) = before[k] /\ Cardinality(new) = Len(table[k])
        BY <3>1, <3>4 DEF old, new
      <4>2. upto(k + 1) = old \cup new BY <3>2 DEF old, new
      <4>3. before[k] \in Nat BY <3>1, <3>5
      <4>4. before[k] + Len(table[k]) - 0 = before[k] + Len(table[k]) BY <3>6, <4>3
      <4> QED BY <3>1, <3>7, <3>8, <4>1, <4>2, <4>4, Zenon
    <3> QED BY <3>9, <3>0
  <2>3. \A k \in D : k + 1 \in D
    <3>1. ASSUME NEW k \in D, ~(k < m) PROVE k + 1 \in D
      <4>1. k \in Nat /\ ~(k + 1 <= m) BY <3>1
      <4> QED BY <4>1
    <3> HIDE DEF D
    <3> QED BY <2>2, <3>1
  <2>4. D \in SUBSET Nat OBVIOUS
  <2> HIDE DEF D
  <2> QED BY <2>1, <2>3, <2>4, Induct
<1>12. ASSUME NEW i \in 0 .. m - 1, i \notin Visited(c) PROVE Range(table[i]) = {}
  <2>1. PICK j \in 0 .. i : before[j] = c BY <1>8, <1>12
  <2>2. j \in Nat /\ j <= m /\ j <= i OBVIOUS
  <2>3. Cardinality(upto(j)) = c
    <3>1. j \in D BY <1>11, <2>2
    <3> QED BY <2>1, <2>2, <3>1
  <2>4. upto(j) \subseteq Held /\ Cardinality(upto(j)) <= Cardinality(Held)
    BY <1>1, <1>10, <2>2, FS_Subset
  <2>5. Cardinality(Held) \in Nat BY <1>1, FS_CardinalityType
  <2>6. Cardinality(Held) = Cardinality(upto(j)) BY <2>3, <2>4, <2>5
  <2>7. Held = upto(j)
    <3> HIDE DEF upto
    <3> QED BY <1>1, <2>4, <2>6, FS_Subset
  <2>8. ASSUME NEW l \in Range(table[i]) PROVE FALSE
    <3>1. l \in Held BY <1>1, <2>8
    <3>2. PICK k \in 0 .. m - 1 : k < j /\ l \in Range(table[k]) BY <2>7, <3>1
    <3>3. k # i BY <2>2, <3>2
    <3> QED BY <1>1, <2>8, <3>2, <3>3
  <2> QED BY <2>8
<1>13. \A l : l \in VisitedNodes(c) <=> \E i \in Visited(c) : l \in Range(table[i])
  BY DEF VisitedNodes
<1>14. Visited(c) \subseteq 0 .. m - 1 BY <1>8
<1>15. ASSUME NEW l PROVE l \in VisitedNodes(c) <=> l \in Held
  BY <1>1, <1>12, <1>13, <1>14
<1> QED BY <1>15
-----------------------------------------------------------------------------
(***************************************************************************)
(* The inductive invariant: every node in its bucket, once; the counter at *)
(* what the table holds and the refusals; and, so that hashtable_free does *)
(* end with every node, no node lost.                                      *)
(***************************************************************************)
IInv == /\ TypeOK
        /\ Sound(table, tablelen)
        /\ nodecount = Cardinality(Held) + refused
        /\ lost = {}

LEMMA Lengths ==
  ASSUME TableAssumption, TypeOK
  PROVE  /\ tablelen \in Nat \ {0} /\ primes[1] \in Nat \ {0} /\ 1 \in 1 .. Len(primes)
         /\ primeindex < Len(primes) => /\ primeindex + 1 \in 1 .. Len(primes)
                                        /\ primes[primeindex + 1] \in Nat \ {0}
                                        /\ tablelen < primes[primeindex + 1]
<1>1. /\ primes \in Seq(Nat \ {0}) /\ Len(primes) \in Nat /\ Len(primes) # 0
      /\ \A i \in 2 .. Len(primes) : primes[i - 1] < primes[i]
  BY EmptySeq, LenProperties DEF TableAssumption, PrimesAssumption
<1>2. \A i \in 1 .. Len(primes) : primes[i] \in Nat \ {0} BY <1>1, ElementOfSeq
<1>3. primeindex \in 1 .. Len(primes) /\ tablelen = primes[primeindex] BY DEF TypeOK
<1>4. ASSUME primeindex < Len(primes) PROVE tablelen < primes[primeindex + 1]
  <2>1. primeindex + 1 \in 2 .. Len(primes) /\ (primeindex + 1) - 1 = primeindex
    BY <1>1, <1>3, <1>4
  <2>2. primes[(primeindex + 1) - 1] < primes[primeindex + 1] BY <1>1, <2>1
  <2> QED BY <1>3, <2>1, <2>2
<1>5. primeindex < Len(primes) => primeindex + 1 \in 1 .. Len(primes) BY <1>1, <1>3
<1> QED BY <1>1, <1>2, <1>3, <1>4, <1>5

LEMMA HeldIs ==
  ASSUME TableAssumption, IInv
  PROVE  /\ Held \subseteq Nodes /\ IsFiniteSet(Held) /\ Cardinality(Held) \in Nat
         /\ Held = Content(table)
         /\ nodecount >= Cardinality(Held) /\ nodecount \in Nat
         /\ VisitedNodes(nodecount) = Held
<1>1. tablelen \in Nat \ {0} /\ Sound(table, tablelen) /\ refused \in Nat
  BY Lengths DEF IInv, TypeOK
<1>2. Held = Content(table) /\ Held \subseteq Nodes
  BY <1>1, InBuckets DEF Sound, Content, Held
<1>3. IsFiniteSet(Held) /\ Cardinality(Held) \in Nat
  BY <1>2, FS_Subset, FS_CardinalityType DEF TableAssumption, NodesAssumption
<1>4. nodecount >= Cardinality(Held) /\ nodecount \in Nat BY <1>1, <1>3 DEF IInv
<1>5. VisitedNodes(nodecount) = Held BY <1>1, <1>4, VisitedIs
<1> QED BY <1>2, <1>3, <1>4, <1>5

\* An empty table.
LEMMA EmptyIs == ASSUME NEW n \in Nat \ {0}
                 PROVE  Sound(Empty(n), n) /\ Content(Empty(n)) = {}
<1> DEFINE t == Empty(n)
<1>1. <<>> \in Seq(Nodes) /\ Len(<<>>) = 0 /\ Range(<<>>) = {}
  BY EmptySeq, Places DEF Range
<1>2. t \in Tables(n) /\ \A i \in 0 .. n - 1 : t[i] = <<>> BY <1>1 DEF Tables, Empty
<1> HIDE DEF t
<1>3. Apiece(<<>>) BY <1>1 DEF Apiece
<1>4. Apart(t, n) BY <1>1, <1>2, <1>3 DEF Apart
<1>5. \A i \in 0 .. n - 1 : Home(t, i, n) BY <1>1, <1>2 DEF Home
<1>6. Content(t) = {} BY <1>1, <1>2, InBuckets
<1> QED BY <1>2, <1>4, <1>5, <1>6 DEF Sound, t

\* The sizes of a table that does not grow.
Sized == /\ primeindex \in 1 .. Len(primes) /\ tablelen = primes[primeindex]
         /\ loadlimit = LoadLimit(tablelen)
LEMMA SizedStays == ASSUME TypeOK, UNCHANGED <<tablelen, loadlimit, primeindex>> PROVE Sized'
<1>1. Sized BY DEF TypeOK, Sized
<1>2. LoadLimit(tablelen') = LoadLimit(tablelen) OBVIOUS
<1>3. loadlimit' = LoadLimit(tablelen') BY <1>1, <1>2 DEF Sized
<1>4. primeindex' \in 1 .. Len(primes) /\ tablelen' = primes[primeindex'] BY <1>1 DEF Sized
<1>5. LoadLimit(tablelen') = LoadLimit(tablelen)' BY DEF LoadLimit
<1> QED BY <1>3, <1>4, <1>5 DEF Sized

LEMMA StepInit == ASSUME TableAssumption, Init PROVE IInv /\ Held = {}
<1>1. primes \in Seq(Nat \ {0}) /\ Len(primes) \in Nat /\ Len(primes) # 0
  BY EmptySeq, LenProperties DEF TableAssumption, PrimesAssumption
<1>2. 1 \in 1 .. Len(primes) /\ primes[1] \in Nat \ {0} BY <1>1, ElementOfSeq
<1>3. Sound(table, tablelen) /\ Content(table) = {} BY <1>2, EmptyIs DEF Init
<1>4. Held = {} BY <1>3 DEF Held, Content
<1>5. TypeOK
  <2>1. table \in [0 .. tablelen - 1 -> Seq(Nodes)] BY <1>3 DEF Sound, Tables
  <2> QED BY <1>2, <2>1 DEF Init, TypeOK, Call
<1>6. Cardinality(Held) = 0 BY <1>4, FS_EmptySet
<1>7. nodecount = Cardinality(Held) + refused
  <2>1. nodecount = 0 /\ refused = 0 BY DEF Init
  <2> QED BY <1>6, <2>1
<1> QED BY <1>3, <1>4, <1>5, <1>7 DEF Init, IInv

\* An insert that finds room, before or after the table has grown.
LEMMA StepInserted ==
  ASSUME TableAssumption, IInv, NEW n \in Nodes,
         hashtable_insert(n) \/ InsertInRoom(n) \/ InsertExpanding(n)
  PROVE  /\ IInv' /\ n \notin Held /\ Held' = Held \cup {n}
         /\ call' = Call("insert", <<n, TRUE>>, "ok")
<1>0. /\ Held \subseteq Nodes /\ IsFiniteSet(Held) /\ Cardinality(Held) \in Nat
      /\ Held = Content(table) /\ nodecount \in Nat /\ Sound(table, tablelen)
      /\ tablelen \in Nat \ {0} /\ TypeOK
  BY HeldIs, Lengths DEF IInv
<1>1. /\ n \notin Held /\ nodecount' = nodecount + 1
      /\ call' = Call("insert", <<n, TRUE>>, "ok")
      /\ UNCHANGED <<lost, refused, seen>>
  BY DEF hashtable_insert, InsertInRoom, InsertExpanding, Insertable
<1>2. /\ primeindex' \in 1 .. Len(primes) /\ tablelen' = primes[primeindex']
      /\ loadlimit' = LoadLimit(tablelen')
      /\ Sound(table', tablelen') /\ Content(table') = Held \cup {n}
  <2>1. CASE hashtable_insert(n) \/ InsertInRoom(n)
    <3>1. table' = Pushed(table, n, tablelen) /\ UNCHANGED <<tablelen, loadlimit, primeindex>>
      BY <2>1 DEF hashtable_insert, InsertInRoom
    <3>2. /\ Sound(Pushed(table, n, tablelen), tablelen)
          /\ Content(Pushed(table, n, tablelen)) = Content(table) \cup {n}
      BY <1>0, <1>1, PushedIs
    <3>3. /\ primeindex' \in 1 .. Len(primes) /\ tablelen' = primes[primeindex']
          /\ loadlimit' = LoadLimit(tablelen')
      <4>1. Sized' BY <1>0, <3>1, SizedStays
      <4> QED BY <4>1 DEF Sized, LoadLimit
    <3> QED BY <1>0, <3>1, <3>2, <3>3
  <2>2. CASE InsertExpanding(n)
    <3> DEFINE m == tablelen'
               t == Expanded(m)
    <3>1. /\ primeindex < Len(primes) /\ primeindex' = primeindex + 1
          /\ tablelen' = primes[primeindex'] /\ loadlimit' = LoadLimit(tablelen')
          /\ table' = Pushed(Expanded(tablelen'), n, tablelen')
      BY <2>2 DEF InsertExpanding, NewLimit
    <3>2. /\ primeindex' \in 1 .. Len(primes) /\ m \in Nat \ {0} /\ tablelen < m
      BY <1>0, <3>1, Lengths
    <3> HIDE DEF m
    <3>3. Halfway(t, tablelen, m)
      <4>1. /\ Apart(table, tablelen)
            /\ \A i \in 0 .. tablelen - 1 : Home(table, i, tablelen)
        BY <1>0 DEF Sound
      <4> QED BY <1>0, <3>2, <4>1, ExpandedIs
    <3> HIDE DEF t
    <3>4. Sound(t, m) /\ Content(t) = Held
      <4>1. \A i \in 0 .. m - 1 : i < tablelen \/ i >= tablelen BY <1>0
      <4> QED BY <3>3, <4>1 DEF Halfway, Sound
    <3>5. Sound(Pushed(t, n, m), m) /\ Content(Pushed(t, n, m)) = Content(t) \cup {n}
      BY <1>1, <3>2, <3>4, PushedIs
    <3> QED BY <3>1, <3>2, <3>4, <3>5 DEF m, t
  <2> QED BY <2>1, <2>2
<1>3. Held' = Held \cup {n} BY <1>2 DEF Held, Content
<1>4. nodecount' = Cardinality(Held)' + refused'
  <2>1. Cardinality(Held \cup {n}) = Cardinality(Held) + 1
    <3> HIDE DEF Held
    <3> QED BY <1>0, <1>1, FS_AddElement
  <2>2. nodecount = Cardinality(Held) + refused /\ refused \in Nat BY <1>0 DEF IInv, TypeOK
  <2>3. Cardinality(Held)' = Cardinality(Held) + 1 BY <1>3, <2>1
  <2> QED BY <1>0, <1>1, <2>2, <2>3
<1>5. TypeOK'
  <2>1. table' \in [0 .. tablelen' - 1 -> Seq(Nodes)] BY <1>2 DEF Sound, Tables
  <2>2. nodecount' \in Nat BY <1>0, <1>1
  <2>3. Sized'
    <3> HIDE DEF IInv
    <3> QED BY <1>2 DEF Sized, LoadLimit
  <2>4. lost \subseteq Nodes /\ refused \in Nat /\ seen \subseteq Nodes BY <1>0 DEF IInv, TypeOK
  <2>5. /\ lost' = lost /\ refused' = refused /\ seen' = seen
        /\ call'.ret \in {"ok", "err", None} \cup Nodes
    BY <1>0, <1>1 DEF TypeOK, Call
  <2> QED BY <2>1, <2>2, <2>3, <2>4, <2>5 DEF TypeOK, Sized
<1>6. lost' = {} BY <1>1 DEF IInv
<1>7. Sound(table, tablelen)' BY <1>2 DEF Sound, Tables, Apart, Apiece, Home, Index
<1>8. IInv' BY <1>4, <1>5, <1>6, <1>7 DEF IInv
<1> QED BY <1>1, <1>3, <1>8

LEMMA StepRefused ==
  ASSUME TableAssumption, IInv, NEW n \in Nodes, InsertRefused(n)
  PROVE  IInv' /\ Held' = Held /\ call' = Call("insert", <<n, FALSE>>, "err")
<1>1. /\ nodecount' = nodecount + 1 /\ refused' = refused + 1
      /\ call' = Call("insert", <<n, FALSE>>, "err")
      /\ UNCHANGED <<tablelen, loadlimit, primeindex, table, lost, seen>>
  BY DEF InsertRefused
<1>2. Held' = Held BY <1>1 DEF Held
<1>3. nodecount' = Cardinality(Held)' + refused'
  <2>1. nodecount = Cardinality(Held) + refused /\ refused \in Nat /\ Cardinality(Held) \in Nat
    BY HeldIs DEF IInv, TypeOK
  <2> QED BY <1>1, <1>2, <2>1
<1>4. TypeOK'
  <2>1. Sized' /\ TypeOK BY <1>1, SizedStays DEF IInv
  <2> QED BY <1>1, <2>1 DEF TypeOK, Sized, Call
<1>5. Sound(table, tablelen)' BY <1>1 DEF IInv, Sound, Tables, Apart, Apiece, Home, Index
<1> QED BY <1>1, <1>2, <1>3, <1>4, <1>5 DEF IInv

LEMMA StepRemove ==
  ASSUME TableAssumption, IInv, NEW n \in Nodes, hashtable_remove(Key[n])
  PROVE  /\ IInv'
         /\ \/ /\ call' = Call("remove", Key[n], "ok")
               /\ \E k \in Held : Key[k] = Key[n] /\ Held' = Held \ {k}
            \/ /\ call' = Call("remove", Key[n], "err") /\ Held' = Held
               /\ \A k \in Held : Key[k] # Key[n]
<1> DEFINE i == Index(n, tablelen)
           k == Lookup(Key[n])
<1>0. /\ IsFiniteSet(Held) /\ Cardinality(Held) \in Nat
      /\ Held = Content(table) /\ nodecount \in Nat /\ Sound(table, tablelen)
      /\ tablelen \in Nat \ {0} /\ TypeOK
  BY HeldIs, Lengths DEF IInv
<1>1. /\ UNCHANGED <<tablelen, loadlimit, primeindex, lost, refused, seen>>
      /\ Hash[Key[n]] % tablelen = i /\ i \in 0 .. tablelen - 1
  BY <1>0, Chains DEF hashtable_remove
<1>2. CASE k # None
  <2>1. /\ table' = [table EXCEPT ![i] = Without(@, k)]
        /\ nodecount' = nodecount - 1 /\ call' = Call("remove", Key[n], "ok")
    BY <1>1, <1>2 DEF hashtable_remove, Uncount
  <2>2. k \in Held /\ k \in Nodes /\ Key[k] = Key[n] /\ k \in Range(table[i])
    BY <1>0, <1>2, LookupIs
  <2> HIDE DEF k
  <2>3. table[i] \in Seq(Nodes) /\ Apiece(table[i])
    BY <1>0, <1>1, InBuckets DEF Sound, Apart
  <2> DEFINE c == Without(table[i], k)
  <2>4. c \in Seq(Nodes) /\ Apiece(c) /\ Range(c) = Range(table[i]) \ {k}
    BY <2>2, <2>3, WithoutIs
  <2> HIDE DEF c
  <2>5. table' = Swapped(table, i, c) BY <2>1 DEF Swapped, c
  <2>6. ASSUME NEW l \in Range(c)
        PROVE  /\ Index(l, tablelen) = i
               /\ \A j \in 0 .. tablelen - 1 : j # i => l \notin Range(table[j])
    <3>1. l \in Range(table[i]) BY <2>4
    <3>2. Index(l, tablelen) = i BY <1>0, <1>1, <3>1 DEF Sound, Home
    <3>3. \A j \in 0 .. tablelen - 1 : j # i => Range(table[j]) \cap Range(table[i]) = {}
      BY <1>0, <1>1 DEF Sound, Apart
    <3> QED BY <3>1, <3>2, <3>3
  <2> HIDE DEF i
  <2>7. /\ Sound(table', tablelen)
        /\ Content(table') = (Content(table) \ Range(table[i])) \cup Range(c)
    BY <1>0, <1>1, <2>4, <2>5, <2>6, SwappedIs
  <2>8. Held' = Held \ {k}
    <3>1. Range(table[i]) \subseteq Content(table) BY <1>0, <1>1, InBuckets DEF Sound
    <3>2. \A l : l \in Content(table) /\ l \in Range(table[i]) => l = k \/ l \in Range(c)
      BY <2>4
    <3>3. Content(table') = Content(table) \ {k} BY <2>2, <2>4, <2>7, <3>1
    <3> QED BY <1>0, <3>3 DEF Held, Content
  <2>9. nodecount' = Cardinality(Held)' + refused' /\ nodecount' \in Nat
    <3>1. Cardinality(Held \ {k}) = Cardinality(Held) - 1 /\ IsFiniteSet(Held \ {k})
      <4> HIDE DEF Held
      <4> QED BY <1>0, <2>2, FS_RemoveElement
    <3>2. Cardinality(Held \ {k}) \in Nat BY <3>1, FS_CardinalityType
    <3>3. nodecount = Cardinality(Held) + refused /\ refused \in Nat BY <1>0 DEF IInv, TypeOK
    <3>4. Cardinality(Held)' = Cardinality(Held) - 1 BY <2>8, <3>1
    <3>5. Cardinality(Held)' \in Nat BY <2>8, <3>2
    <3> QED BY <1>0, <1>1, <2>1, <3>3, <3>4, <3>5
  <2>10. TypeOK'
    <3>1. table' \in [0 .. tablelen' - 1 -> Seq(Nodes)] BY <1>1, <2>7 DEF Sound, Tables
    <3>2. Sized' BY <1>0, <1>1, SizedStays
    <3> QED BY <1>0, <1>1, <2>1, <2>9, <3>1, <3>2 DEF TypeOK, Sized, Call
  <2>11. Sound(table, tablelen)'
    BY <1>1, <2>7 DEF Sound, Tables, Apart, Apiece, Home, Index
  <2>12. IInv' BY <1>1, <2>9, <2>10, <2>11 DEF IInv
  <2> QED BY <2>1, <2>2, <2>8, <2>12
<1>3. CASE k = None
  <2>1. UNCHANGED <<table, nodecount>> /\ call' = Call("remove", Key[n], "err")
    BY <1>3 DEF hashtable_remove
  <2>2. \A l \in Held : Key[l] # Key[n] BY <1>0, <1>3, LookupIs
  <2>3. Held' = Held BY <2>1 DEF Held
  <2>4. TypeOK'
    <3>1. Sized' BY <1>0, <1>1, SizedStays
    <3> QED BY <1>0, <1>1, <2>1, <3>1 DEF TypeOK, Sized, Call
  <2>5. Sound(table, tablelen)'
    BY <1>0, <1>1, <2>1 DEF Sound, Tables, Apart, Apiece, Home, Index
  <2>6. IInv' BY <1>1, <2>1, <2>3, <2>4, <2>5 DEF IInv
  <2> QED BY <2>1, <2>2, <2>3, <2>6
<1> QED BY <1>2, <1>3

LEMMA StepSearch ==
  ASSUME TableAssumption, IInv, NEW n \in Nodes, hashtable_search(Key[n])
  PROVE  /\ IInv' /\ Held' = Held
         /\ call' = Call("search", Key[n], Lookup(Key[n]))
         /\ \/ Lookup(Key[n]) \in Held /\ Key[Lookup(Key[n])] = Key[n]
            \/ Lookup(Key[n]) = None /\ \A k \in Held : Key[k] # Key[n]
<1>1. /\ call' = Call("search", Key[n], Lookup(Key[n])) /\ tablelen \in Nat \ {0} /\ Sound(table, tablelen)
      /\ UNCHANGED <<tablelen, nodecount, loadlimit, primeindex, table, lost, refused, seen>>
  BY Lengths DEF IInv, hashtable_search
<1>2. Held' = Held BY <1>1 DEF Held
<1>3. LET l == Lookup(Key[n])
      IN  \/ l \in Held /\ l \in Nodes /\ Key[l] = Key[n]
          \/ l = None /\ \A k \in Held : Key[k] # Key[n]
  BY <1>1, LookupIs
<1>4. TypeOK'
  <2>1. Sized' /\ TypeOK BY <1>1, SizedStays DEF IInv
  <2> QED BY <1>1, <1>3, <2>1 DEF TypeOK, Sized, Call
<1>5. Sound(table, tablelen)' BY <1>1 DEF IInv, Sound, Tables, Apart, Apiece, Home, Index
<1>6. IInv' BY <1>1, <1>2, <1>4, <1>5 DEF IInv
<1> QED BY <1>1, <1>2, <1>3, <1>6

LEMMA StepTraverse ==
  ASSUME TableAssumption, IInv, hashtable_traverse
  PROVE  IInv' /\ Held' = Held /\ UNCHANGED call /\ seen' = Held
<1>1. /\ seen' = Held
      /\ UNCHANGED <<tablelen, nodecount, loadlimit, primeindex, table, lost, refused, call>>
  BY HeldIs DEF hashtable_traverse
<1>2. Held' = Held BY <1>1 DEF Held
<1>3. seen' \subseteq Nodes BY <1>1, HeldIs
<1>4. TypeOK'
  <2>1. Sized' /\ TypeOK BY <1>1, SizedStays DEF IInv
  <2> QED BY <1>1, <1>3, <2>1 DEF TypeOK, Sized
<1>5. Sound(table, tablelen)' BY <1>1 DEF IInv, Sound, Tables, Apart, Apiece, Home, Index
<1> QED BY <1>1, <1>2, <1>4, <1>5 DEF IInv

LEMMA StepCleared ==
  ASSUME TableAssumption, IInv, hashtable_init \/ hashtable_free
  PROVE  IInv' /\ Held' = {} /\ call' = Call("clear", None, "ok")
<1>1. /\ nodecount' = 0 /\ refused' = 0 /\ call' = Call("clear", None, "ok")
      /\ UNCHANGED seen
  BY DEF hashtable_init, hashtable_free
<1>2. /\ primeindex' \in 1 .. Len(primes) /\ tablelen' = primes[primeindex']
      /\ loadlimit' = LoadLimit(tablelen') /\ tablelen' \in Nat \ {0}
      /\ table' = Empty(tablelen')
  <2>1. CASE hashtable_init
    <3>1. /\ UNCHANGED <<tablelen, loadlimit, primeindex>>
          /\ table' = Empty(tablelen)
      BY <2>1 DEF hashtable_init
    <3>2. /\ primeindex \in 1 .. Len(primes) /\ tablelen = primes[primeindex]
          /\ loadlimit = LoadLimit(tablelen) /\ tablelen \in Nat \ {0}
      BY Lengths DEF IInv, TypeOK
    <3>3. Empty(tablelen') = Empty(tablelen) /\ LoadLimit(tablelen') = LoadLimit(tablelen)
      BY <3>1
    <3> QED BY <3>1, <3>2, <3>3
  <2>2. CASE hashtable_free
    <3>1. /\ primeindex' = 1 /\ tablelen' = primes[1] /\ loadlimit' = LoadLimit(primes[1])
          /\ table' = Empty(primes[1])
      BY <2>2 DEF hashtable_free
    <3> QED BY <3>1, Lengths DEF IInv
  <2> QED BY <2>1, <2>2
<1>3. lost' = {}
  <2>1. lost = {} BY DEF IInv
  <2>2. hashtable_free => lost' = lost \cup (Held \ Held) BY HeldIs DEF hashtable_free
  <2>3. hashtable_init => lost' = lost BY DEF hashtable_init
  <2> QED BY <2>1, <2>2, <2>3
<1>4. Sound(table', tablelen') /\ Content(table') = {} BY <1>2, EmptyIs
<1>5. Held' = {} BY <1>4 DEF Held, Content
<1>6. nodecount' = Cardinality(Held)' + refused' BY <1>1, <1>5, FS_EmptySet
<1>7. TypeOK'
  <2>1. table' \in [0 .. tablelen' - 1 -> Seq(Nodes)] BY <1>4 DEF Sound, Tables
  <2>2. Sized'
    <3> HIDE DEF IInv
    <3> QED BY <1>2 DEF Sized, LoadLimit
  <2>3. seen \subseteq Nodes BY DEF IInv, TypeOK
  <2> QED BY <1>1, <1>3, <2>1, <2>2, <2>3 DEF TypeOK, Sized, Call
<1>8. Sound(table, tablelen)' BY <1>4 DEF Sound, Tables, Apart, Apiece, Home, Index
<1> QED BY <1>1, <1>3, <1>5, <1>6, <1>7, <1>8 DEF IInv
-----------------------------------------------------------------------------
LEMMA StepNext == ASSUME TableAssumption, IInv, [Next]_vars PROVE IInv'
<1>1. ASSUME NEW n \in Nodes, hashtable_insert(n) \/ hashtable_insert_ex(n) PROVE IInv'
  BY <1>1, StepInserted, StepRefused DEF hashtable_insert_ex
<1>2. ASSUME NEW n \in Nodes, hashtable_remove(Key[n]) \/ hashtable_search(Key[n]) PROVE IInv'
  BY <1>2, StepRemove, StepSearch
<1>3. CASE hashtable_traverse BY <1>3, StepTraverse
<1>4. CASE hashtable_init \/ hashtable_free BY <1>4, StepCleared
<1>5. CASE UNCHANGED vars
  <2>1. TypeOK'
    <3>1. Sized' /\ TypeOK BY <1>5, SizedStays DEF vars, IInv
    <3> QED BY <1>5, <3>1 DEF vars, TypeOK, Sized
  <2>2. Sound(table, tablelen)'
    BY <1>5 DEF vars, IInv, Sound, Tables, Apart, Apiece, Home, Index
  <2>3. Held' = Held BY <1>5 DEF vars, Held
  <2> QED BY <1>5, <2>1, <2>2, <2>3 DEF vars, IInv
<1> QED BY <1>1, <1>2, <1>3, <1>4, <1>5 DEF Next

LEMMA Invariance == ASSUME TableAssumption PROVE Spec => []IInv
<1>1. Init => IInv BY StepInit
<1>2. IInv /\ [Next]_vars => IInv' BY StepNext
<1> QED BY <1>1, <1>2, PTL DEF Spec

\* Every variable of the table has the values its code expects.
THEOREM HashTableTypeCorrect == ASSUME TableAssumption PROVE Spec => []TypeOK
<1>1. IInv => TypeOK BY DEF IInv
<1> QED BY <1>1, Invariance, PTL

\* However often the table has grown, hashtable_expand has left each node once and
\* in the bucket its hash calls for; nodecount is the nodes held and the refusals.
THEOREM NodesWellPlaced == ASSUME TableAssumption PROVE Spec => []TableWellPlaced
<1>1. IInv => TableWellPlaced
  <2> SUFFICES ASSUME IInv, NEW i \in DOMAIN table, NEW j \in DOMAIN table,
                      NEW x \in 1 .. Len(table[i]), NEW y \in 1 .. Len(table[j])
               PROVE  /\ Index(table[i][x], tablelen) = i
                      /\ table[i][x] = table[j][y] => i = j /\ x = y
    BY DEF IInv, TableWellPlaced
  <2>1. /\ i \in 0 .. tablelen - 1 /\ j \in 0 .. tablelen - 1
        /\ table[i] \in Seq(Nodes) /\ table[j] \in Seq(Nodes)
    BY DEF IInv, TypeOK
  <2>2. table[i][x] \in Range(table[i]) /\ table[j][y] \in Range(table[j])
    BY <2>1, Places
  <2>3. Index(table[i][x], tablelen) = i BY <2>1, <2>2 DEF IInv, Sound, Home
  <2>4. ASSUME table[i][x] = table[j][y] PROVE i = j /\ x = y
    <3>1. i = j BY <2>1, <2>2, <2>4 DEF IInv, Sound, Apart
    <3>2. Apiece(table[i]) BY <2>1 DEF IInv, Sound, Apart
    <3> QED BY <2>4, <3>1, <3>2 DEF Apiece
  <2> QED BY <2>3, <2>4
<1> QED BY <1>1, Invariance, PTL
-----------------------------------------------------------------------------
\* Each step is one of the set's, or none.
LEMMA StepSet ==
  ASSUME TableAssumption, IInv, [Next]_vars
  PROVE  [Set!Next]_(Set!keyedVars)
<1>1. ASSUME NEW n \in Nodes, hashtable_insert(n) \/ hashtable_insert_ex(n)
      PROVE  \E room \in BOOLEAN : Set!Insert(n, room)
  <2>1. CASE hashtable_insert(n) \/ InsertInRoom(n) \/ InsertExpanding(n)
    <3>1. n \notin Held /\ Held' = Held \cup {n} /\ call' = Call("insert", <<n, TRUE>>, "ok")
      BY <2>1, StepInserted
    <3>2. Set!Insert(n, TRUE) BY <3>1 DEF Set!Insert, Call, Set!Call
    <3> QED BY <3>2
  <2>2. CASE InsertRefused(n)
    <3>1. Held' = Held /\ call' = Call("insert", <<n, FALSE>>, "err") BY <2>2, StepRefused
    <3>2. Set!Insert(n, FALSE) BY <3>1 DEF Set!Insert, Call, Set!Call
    <3> QED BY <3>2
  <2> QED BY <1>1, <2>1, <2>2 DEF hashtable_insert_ex
<1>2. ASSUME NEW n \in Nodes, hashtable_remove(Key[n]) PROVE Set!Remove(Key[n])
  <2>1. CASE /\ call' = Call("remove", Key[n], "ok")
             /\ \E k \in Held : Key[k] = Key[n] /\ Held' = Held \ {k}
    <3>1. \E k \in Set!Equal(Key[n]) : Held' = Held \ {k} BY <2>1 DEF Set!Equal
    <3> QED BY <2>1, <3>1 DEF Set!Remove, Call, Set!Call
  <2>2. CASE /\ call' = Call("remove", Key[n], "err")
             /\ Held' = Held /\ \A k \in Held : Key[k] # Key[n]
    <3>1. Set!Equal(Key[n]) = {} BY <2>2 DEF Set!Equal
    <3> QED BY <2>2, <3>1 DEF Set!Remove, Call, Set!Call
  <2> QED BY <1>2, <2>1, <2>2, StepRemove
<1>3. ASSUME NEW n \in Nodes, hashtable_search(Key[n]) PROVE Set!Search(Key[n])
  <2> DEFINE l == Lookup(Key[n])
  <2>1. /\ Held' = Held /\ call' = Call("search", Key[n], l)
        /\ \/ l \in Held /\ Key[l] = Key[n]
           \/ l = None /\ \A k \in Held : Key[k] # Key[n]
    BY <1>3, StepSearch
  <2> HIDE DEF l
  <2>2. \/ l \in Set!Equal(Key[n])
        \/ l = None /\ Set!Equal(Key[n]) = {}
    BY <2>1 DEF Set!Equal
  <2> QED BY <2>1, <2>2 DEF Set!Search, Call, Set!Call
<1>4. CASE hashtable_traverse
  <2>1. Held' = Held /\ call' = call BY <1>4, StepTraverse
  <2> QED BY <2>1 DEF Set!keyedVars
<1>5. CASE hashtable_init \/ hashtable_free
  <2>1. Set!Clear BY <1>5, StepCleared DEF Set!Clear, Call, Set!Call
  <2> QED BY <2>1 DEF Set!Next
<1>6. CASE UNCHANGED vars
  <2>1. Held' = Held /\ call' = call BY <1>6 DEF vars, Held
  <2> QED BY <2>1 DEF Set!keyedVars
<1> QED BY <1>1, <1>2, <1>3, <1>4, <1>5, <1>6 DEF Next, Set!Next

\* Inserts, removals and searches are those of a set of nodes, whatever growing
\* moves; the loops that stop at nodecount reach every node: hashtable_traverse
\* calls back for each, hashtable_free forgets none.
THEOREM CallsAreThoseOfASet == ASSUME TableAssumption PROVE Spec => TableImplementsSet
<1> DEFINE All == /\ hashtable_traverse => seen' = Held
                  /\ lost' = {}
<1>1. Init => Set!Init BY StepInit DEF Init, Set!Init, Call, Set!Call
<1>2. IInv /\ [Next]_vars => [Set!Next]_(Set!keyedVars) BY StepSet
<1>3. IInv /\ [Next]_vars => [All]_vars
  <2> SUFFICES ASSUME IInv, [Next]_vars PROVE All
    OBVIOUS
  <2>1. lost' = {} BY StepNext DEF IInv
  <2> QED BY <2>1, StepTraverse
<1> HIDE DEF All
<1>4. Spec => Set!Spec BY <1>1, <1>2, Invariance, PTL DEF Spec, Set!Spec
<1>5. Spec => [][All]_vars BY <1>3, Invariance, PTL DEF Spec
<1>6. Spec => NothingSkipped BY <1>5 DEF NothingSkipped, All
<1> QED BY <1>4, <1>6 DEF TableImplementsSet
-----------------------------------------------------------------------------
(* The search tree, whose variables MCSets declares. *)

Live == {c \in Cells : item[c] # None}
KeyOf == [c \in Live |-> TreeKey[item[c]]]
Shape(sub) == Spans(sub, Live, kid, root, None) /\ SortedBy(sub, Live, kid, KeyOf)

\* Every node is in one tree with its keys in order, no item is in two nodes, and a node
\* that is not allocated points nowhere.
TreeInv ==
    /\ T!TypeOK
    /\ \A c \in Cells \ Live : kid[c] = T!Leaf
    /\ \A c, d \in Live : item[c] = item[d] => c = d
    /\ \E sub : Shape(sub)

LEMMA SameHelpers ==
  /\ T!Side = Side
  /\ \A f, c, n : T!Loop(f, c, n) = Loop(f, c, n)
  /\ \A f, x, c, n : T!InorderFrom(f, x, c, n) = InorderFrom(f, x, c, n)
  /\ \A S : T!IsFiniteSet(S) = IsFiniteSet(S)
  /\ \A S : T!Cardinality(S) = Cardinality(S)
<1>1. /\ T!Side = Side
      /\ \A f, c, n : T!Loop(f, c, n) = Loop(f, c, n)
      /\ \A f, x, c, n : T!InorderFrom(f, x, c, n) = InorderFrom(f, x, c, n)
  BY Zenon DEF T!Side, Side, T!Loop, Loop, T!InorderFrom, InorderFrom
<1>2. \A S : T!IsFiniteSet(S) = IsFiniteSet(S)
  BY Zenon DEF T!IsFiniteSet, IsFiniteSet
<1>3. \A S : T!Cardinality(S) = Cardinality(S)
  BY Zenon DEF T!Cardinality, Cardinality, T!IsFiniteSet, IsFiniteSet
<1> QED BY <1>1, <1>2, <1>3

\* What the invariant says of the types.
LEMMA TreeTypes ==
  ASSUME T!TreeAssumption, TreeInv
  PROVE  /\ Live \subseteq Cells /\ None \notin Cells /\ IsFiniteSet(Cells)
         /\ Cardinality(Cells) \in Nat /\ IsFiniteSet(Live)
         /\ Cardinality(Live) <= Cardinality(Cells)
         /\ root \in Live \cup {None}
         /\ kid \in [Cells -> [Side -> Cells \cup {None}]] /\ DOMAIN kid = Cells
         /\ \A c \in Cells : kid[c] \in [Side -> Live \cup {None}]
         /\ item \in [Cells -> Items \cup {None}]
         /\ \A c \in Live : item[c] \in Items /\ item[c] # None /\ TreeKey[item[c]] \in Int
                            /\ KeyOf[c] = TreeKey[item[c]]
<1>1. None \notin Cells /\ IsFiniteSet(Cells) /\ TreeKey \in [Items -> Int]
  BY SameHelpers DEF T!TreeAssumption
<1>2. /\ root \in Live \cup {None} /\ item \in [Cells -> Items \cup {None}]
      /\ kid \in [Cells -> [Side -> Live \cup {None}]]
  BY SameHelpers DEF TreeInv, T!TypeOK, Live
<1>3. Live \subseteq Cells BY DEF Live
<1>4. /\ Cardinality(Cells) \in Nat /\ IsFiniteSet(Live)
      /\ Cardinality(Live) <= Cardinality(Cells)
  BY <1>1, <1>3, FS_Subset, FS_CardinalityType
<1>5. kid \in [Cells -> [Side -> Cells \cup {None}]] /\ DOMAIN kid = Cells
      /\ \A c \in Cells : kid[c] \in [Side -> Live \cup {None}]
  BY <1>2, <1>3
<1>6. \A c \in Live : item[c] \in Items /\ item[c] # None /\ TreeKey[item[c]] \in Int
                      /\ KeyOf[c] = TreeKey[item[c]]
  BY <1>1, <1>2 DEF Live, KeyOf
<1> QED BY <1>1, <1>2, <1>3, <1>4, <1>5, <1>6

\* A walk down from the root is short enough.
LEMMA Shrinks ==
  ASSUME T!TreeAssumption, TreeInv, NEW sub, Shape(sub)
  PROVE  /\ \A c \in Live \cup {None} : /\ Cardinality(sub[c]) \in Nat
                                        /\ Cardinality(sub[c]) <= Cardinality(Cells)
         /\ \A c \in Live, s \in Side :
               /\ kid[c][s] \in Live \cup {None} /\ kid[c][s] # c
               /\ Cardinality(sub[kid[c][s]]) < Cardinality(sub[c])
<1>1. Spans(sub, Live, kid, root, None) BY DEF Shape
<1>2. Cardinality(Live) \in Nat /\ Cardinality(Cells) \in Nat
      /\ Cardinality(Live) <= Cardinality(Cells)
  BY TreeTypes, FS_CardinalityType
<1>3. ASSUME NEW c \in Live \cup {None}
      PROVE  Cardinality(sub[c]) \in Nat /\ Cardinality(sub[c]) <= Cardinality(Cells)
  BY <1>1, <1>2, <1>3, SubtreeSizes
<1>4. ASSUME NEW c \in Live, NEW s \in Side
      PROVE  /\ kid[c][s] \in Live \cup {None} /\ kid[c][s] # c
             /\ Cardinality(sub[kid[c][s]]) < Cardinality(sub[c])
  <2>1. /\ kid[c][s] \in Live \cup {None}
        /\ Cardinality(sub[kid[c][s]]) < Cardinality(sub[c])
    BY <1>1, SubtreeSizes
  <2>2. Cardinality(sub[c]) \in Nat BY <1>3
  <2> QED BY <2>1, <2>2
<1> QED BY <1>3, <1>4

\* Printing the tree prints each node once, in the order of the keys.
LEMMA TreeInorder ==
  ASSUME T!TreeAssumption, TreeInv
  PROVE  Lists(T!Inorder, Live) /\ Ascends(T!Inorder, KeyOf)
<1>1. PICK sub : Shape(sub) BY DEF TreeInv
<1>2. Spans(sub, Live, kid, root, None) /\ SortedBy(sub, Live, kid, KeyOf) BY <1>1 DEF Shape
<1>3. /\ kid \in [Cells -> [Side -> Cells \cup {None}]] /\ root \in Live \cup {None}
      /\ Cardinality(Cells) \in Nat
  BY TreeTypes
<1>4. sub[root] = Live /\ Cardinality(sub[root]) <= Cardinality(Cells)
  BY <1>1, <1>2, <1>3, Shrinks DEF Spans
<1>5. T!Inorder = InorderFrom(kid, None, root, Cardinality(Cells))
  BY SameHelpers DEF T!Inorder
<1> HIDE DEF KeyOf, Live
<1>6. Lists(InorderFrom(kid, None, root, Cardinality(Cells)), sub[root])
      /\ Ascends(InorderFrom(kid, None, root, Cardinality(Cells)), KeyOf)
  BY <1>2, <1>3, <1>4, InorderIs
<1> QED BY <1>4, <1>5, <1>6

LEMMA TreeHeldIs == ASSUME T!TreeAssumption, TreeInv PROVE T!Held = {item[c] : c \in Live}
<1>1. Range(T!Inorder) = Live BY TreeInorder, ListsAre
<1> QED BY <1>1 DEF T!Held, T!Range, Range

LEMMA WellFormedIs == ASSUME T!TreeAssumption, TreeInv PROVE T!WellFormed
<1> DEFINE s == T!Inorder
<1>1. Lists(s, Live) /\ Ascends(s, KeyOf) BY TreeInorder
<1> HIDE DEF s
<1>2. /\ Range(s) = Live /\ IsInjective(s) /\ DOMAIN s = 1 .. Len(s) /\ Len(s) \in Nat
      /\ \A i \in 1 .. Len(s) : s[i] \in Live
  BY <1>1, ListsAre
<1>3. ASSUME NEW i \in 2 .. Len(s) PROVE T!KeyAt(s[i - 1]) <= T!KeyAt(s[i])
  <2>1. i \in 1 .. Len(s) /\ i - 1 \in 1 .. Len(s) /\ i - 1 < i BY <1>2
  <2>2. KeyOf[s[i - 1]] <= KeyOf[s[i]] BY <1>1, <2>1 DEF Ascends
  <2>3. KeyOf[s[i - 1]] = TreeKey[item[s[i - 1]]] /\ KeyOf[s[i]] = TreeKey[item[s[i]]]
    BY <1>2, <2>1, TreeTypes
  <2> QED BY <2>2, <2>3 DEF T!KeyAt
<1>4. T!TypeOK BY DEF TreeInv
<1>5. T!IsInjective(s) /\ T!Range(s) = Live
  BY <1>2 DEF T!IsInjective, IsInjective, T!Range, Range
<1> QED BY <1>3, <1>4, <1>5 DEF T!WellFormed, s, Live

\* search_tree and delete find a node with the key, if there is one.
LEMMA FindIs ==
  ASSUME T!TreeAssumption, TreeInv, NEW k \in Int
  PROVE  \/ T!Find(k) \in Live /\ TreeKey[item[T!Find(k)]] = k
         \/ T!Find(k) = None /\ \A c \in Live : TreeKey[item[c]] # k
<1>1. PICK sub : Shape(sub) BY DEF TreeInv
<1>2. Spans(sub, Live, kid, root, None) /\ SortedBy(sub, Live, kid, KeyOf) BY <1>1 DEF Shape
<1>3. /\ root \in Live \cup {None} /\ Cardinality(Cells) \in Nat
      /\ Live \subseteq Cells /\ None \notin Cells
      /\ \A c \in Live : TreeKey[item[c]] \in Int /\ KeyOf[c] = TreeKey[item[c]]
  BY TreeTypes
<1> DEFINE next == [c \in T!Links |-> IF c = None THEN None
                                    ELSE IF T!KeyAt(c) = k THEN c ELSE kid[c][T!Toward(k, c)]]
           P == {c \in Live \cup {None} : \A x \in Live : KeyOf[x] = k => x \in sub[c]}
           rank == [c \in P |-> Cardinality(sub[c])]
           to(c) == kid[c][T!Toward(k, c)]
<1>4. next[None] = None /\ None \in T!Links /\ P \subseteq T!Links BY <1>3 DEF T!Links
<1>5. ASSUME NEW c \in Live
      PROVE  next[c] = IF KeyOf[c] = k THEN c ELSE to(c)
  <2>1. c \in T!Links /\ c # None /\ T!KeyAt(c) = KeyOf[c] BY <1>3 DEF T!Links, T!KeyAt
  <2> QED BY <2>1
<1> HIDE DEF next
<1>6. ASSUME NEW c \in Live, KeyOf[c] # k
      PROVE  /\ to(c) \in Live \cup {None} /\ to(c) # c
             /\ Cardinality(sub[to(c)]) < Cardinality(sub[c])
             /\ c \in P => to(c) \in P
  <2>1. T!Toward(k, c) = IF k < KeyOf[c] THEN "left" ELSE "right"
    BY <1>3 DEF T!Toward, T!KeyAt
  <2>2. /\ to(c) \in Live \cup {None} /\ to(c) # c
        /\ Cardinality(sub[to(c)]) < Cardinality(sub[c])
    <3>1. T!Toward(k, c) \in Side BY <2>1 DEF Side
    <3> QED BY <1>1, <3>1, Shrinks
  <2>3. ASSUME NEW x \in Live, x \in sub[c], KeyOf[x] = k PROVE x \in sub[to(c)]
    <3>1. x # c BY <1>6, <2>3
    <3>2. x \in sub[kid[c]["left"]] \/ x \in sub[kid[c]["right"]]
      BY <1>2, <2>3, <3>1 DEF Spans
    <3>3. /\ x \in sub[kid[c]["left"]] => KeyOf[x] <= KeyOf[c]
          /\ x \in sub[kid[c]["right"]] => KeyOf[c] <= KeyOf[x]
      BY <1>2 DEF SortedBy
    <3>4. KeyOf[c] \in Int BY <1>3
    <3>5. CASE k < KeyOf[c] BY <2>1, <2>3, <3>2, <3>3, <3>4, <3>5
    <3>6. CASE KeyOf[c] < k BY <2>1, <2>3, <3>2, <3>3, <3>4, <3>6
    <3> QED BY <1>6, <3>4, <3>5, <3>6
  <2> HIDE DEF to, KeyOf
  <2> QED BY <2>2, <2>3
<1>7. ComesToRest(next, P, rank)
  <2>1. ASSUME NEW c \in P
        PROVE  next[c] \in P /\ rank[c] \in Nat /\ (next[c] # c => rank[next[c]] < rank[c])
    <3>1. rank[c] = Cardinality(sub[c]) OBVIOUS
    <3>2. rank[c] \in Nat BY <1>1, <3>1, Shrinks
    <3> HIDE DEF rank, to
    <3>3. CASE c = None \/ (c \in Live /\ KeyOf[c] = k) BY <1>4, <1>5, <3>2, <3>3
    <3>4. CASE c \in Live /\ KeyOf[c] # k
      <4>1. next[c] = to(c) /\ to(c) \in P BY <1>5, <1>6, <3>4
      <4>2. rank[to(c)] = Cardinality(sub[to(c)]) BY <4>1 DEF rank
      <4> QED BY <1>6, <3>1, <3>2, <3>4, <4>1, <4>2
    <3> QED BY <3>3, <3>4
  <2> HIDE DEF rank, P
  <2> QED BY <2>1 DEF ComesToRest
<1>8. root \in P /\ rank[root] <= Cardinality(Cells)
  <2>1. sub[root] = Live BY <1>2 DEF Spans
  <2>2. root \in P BY <1>3, <2>1
  <2>3. rank[root] = Cardinality(sub[root]) BY <2>2
  <2> QED BY <1>1, <1>3, <2>2, <2>3, Shrinks
<1> HIDE DEF rank
<1>9. Loop(next, root, Cardinality(Cells)) \in P
      /\ next[Loop(next, root, Cardinality(Cells))] = Loop(next, root, Cardinality(Cells))
  <2> HIDE DEF P
  <2> QED BY <1>3, <1>7, <1>8, LoopSettles
<1>10. T!Find(k) = Loop(next, root, Cardinality(Cells))
  BY SameHelpers, Zenon DEF T!Find, next
<1> DEFINE f == T!Find(k)
<1> HIDE DEF f, to
<1>11. f \in P /\ next[f] = f BY <1>9, <1>10 DEF f
<1>12. CASE f = None
  <2>1. sub[None] = {} BY <1>2 DEF Spans
  <2>2. \A x \in Live : KeyOf[x] # k BY <1>11, <1>12, <2>1
  <2> QED BY <1>3, <1>12, <2>2 DEF f
<1>13. CASE f # None
  <2>1. f \in Live /\ KeyOf[f] = k BY <1>5, <1>6, <1>11, <1>13
  <2> QED BY <1>3, <2>1 DEF f
<1> QED BY <1>12, <1>13

\* The side of a for the key k.
Way(k, a) == kid[a][T!Toward(k, a)]

\* insert1 goes down to a node without a child on the side where k belongs, and from every
\* node on its way to that side.
LEMMA BackIs ==
  ASSUME T!TreeAssumption, TreeInv, NEW sub, Shape(sub), NEW k \in Int
  PROVE  \/ root = None /\ T!Back(k) = None
         \/ /\ root # None /\ T!Back(k) \in Live /\ Way(k, T!Back(k)) = None
            /\ \A a \in Live : T!Back(k) \in sub[a] => \/ a = T!Back(k)
                                                       \/ T!Back(k) \in sub[Way(k, a)]
<1>1. Spans(sub, Live, kid, root, None) BY DEF Shape
<1>2. /\ root \in Live \cup {None} /\ Cardinality(Cells) \in Nat
      /\ Live \subseteq Cells /\ None \notin Cells
  BY TreeTypes
<1> DEFINE next == [c \in T!Links |-> IF c = None THEN None
                                    ELSE IF kid[c][T!Toward(k, c)] = None THEN c
                                    ELSE kid[c][T!Toward(k, c)]]
           P == {c \in Live : \A a \in Live : c \in sub[a] => a = c \/ c \in sub[Way(k, a)]}
                  \cup (IF root = None THEN {None} ELSE {})
           rank == [c \in P |-> Cardinality(sub[c])]
<1>3. /\ next[None] = None
      /\ \A c \in Live : next[c] = IF Way(k, c) = None THEN c ELSE Way(k, c)
  <2>1. None \in T!Links /\ Live \subseteq T!Links /\ None \notin Live BY <1>2 DEF T!Links
  <2> QED BY <2>1 DEF Way
<1> HIDE DEF next
<1>4. ASSUME NEW c \in Live, Way(k, c) # None
      PROVE  /\ Way(k, c) \in Live /\ Way(k, c) # c
             /\ Cardinality(sub[Way(k, c)]) < Cardinality(sub[c])
             /\ c \in P => Way(k, c) \in P
  <2>1. PICK s \in Side : s = T!Toward(k, c) BY DEF T!Toward, Side
  <2>2. Way(k, c) = kid[c][s] BY <2>1 DEF Way
  <2>3. /\ kid[c][s] \in Live /\ kid[c][s] # c
        /\ Cardinality(sub[kid[c][s]]) < Cardinality(sub[c])
    BY <1>1, <1>4, <2>2, Shrinks
  <2>4. ASSUME c \in P, NEW a \in Live, kid[c][s] \in sub[a], a # kid[c][s]
        PROVE  kid[c][s] \in sub[Way(k, a)]
    <3>1. CASE a = c
      <4>1. kid[c][s] \in sub[kid[c][s]] BY <1>1, <2>3, Splits
      <4> QED BY <2>2, <3>1, <4>1
    <3>2. CASE a # c
      <4>1. c \in sub[a] BY <1>1, <2>3, <2>4, ParentAbove
      <4>2. c \in sub[Way(k, a)] BY <2>4, <3>2, <4>1, <1>2
      <4>3. PICK z \in Side : z = T!Toward(k, a) BY DEF T!Toward, Side
      <4>4. Way(k, a) = kid[a][z] BY <4>3 DEF Way
      <4> QED BY <1>1, <2>3, <3>2, <4>2, <4>4, ParentAbove
    <3> QED BY <3>1, <3>2
  <2> HIDE DEF Live
  <2> QED BY <2>2, <2>3, <2>4
<1>5. ASSUME NEW c \in P
      PROVE  next[c] \in P /\ rank[c] \in Nat /\ (next[c] # c => rank[next[c]] < rank[c])
  <2>1. rank[c] = Cardinality(sub[c]) OBVIOUS
  <2>2. c \in Live \cup {None} OBVIOUS
  <2>3. rank[c] \in Nat BY <1>1, <2>1, <2>2, Shrinks
  <2> HIDE DEF rank
  <2>4. CASE c = None BY <1>3, <2>3, <2>4
  <2>5. CASE c \in Live /\ Way(k, c) = None BY <1>3, <2>3, <2>5
  <2>6. CASE c \in Live /\ Way(k, c) # None
    <3>1. next[c] = Way(k, c) /\ Way(k, c) \in P BY <1>3, <1>4, <2>6
    <3>2. rank[Way(k, c)] = Cardinality(sub[Way(k, c)]) BY <3>1 DEF rank
    <3> QED BY <1>4, <2>1, <2>3, <2>6, <3>1, <3>2
  <2> QED BY <2>2, <2>4, <2>5, <2>6
<1>6. ComesToRest(next, P, rank)
  <2> HIDE DEF rank, P
  <2> QED BY <1>5 DEF ComesToRest
<1>7. root \in P /\ rank[root] <= Cardinality(Cells)
  <2>1. root \in P
    <3>1. CASE root = None BY <3>1
    <3>2. CASE root # None
      <4>1. root \in Live BY <1>2, <3>2
      <4>2. ASSUME NEW a \in Live, root \in sub[a], a # root PROVE FALSE
        <5>1. sub[root] = Live BY <1>1 DEF Spans
        <5>2. PICK s \in Side : a \in sub[kid[root][s]] BY <1>1, <4>1, <4>2, <5>1, Splits
        <5>3. kid[root][s] \in Live BY <1>1, <4>1, <5>2, Splits
        <5>4. root \in sub[kid[root][s]] BY <1>1, <4>2, <5>2, <5>3, SubtreeBelow
        <5> QED BY <1>1, <4>1, <5>4, Splits
      <4> QED BY <4>1, <4>2
    <3> QED BY <3>1, <3>2
  <2>2. rank[root] = Cardinality(sub[root]) BY <2>1
  <2> QED BY <1>1, <1>2, <2>1, <2>2, Shrinks
<1> HIDE DEF rank
<1> DEFINE b == T!Back(k)
<1>8. b = Loop(next, root, Cardinality(Cells))
  BY SameHelpers, Zenon DEF T!Back, next
<1>9. b \in P /\ next[b] = b
  <2> HIDE DEF P, b
  <2> QED BY <1>2, <1>6, <1>7, <1>8, LoopSettles
<1> HIDE DEF b
<1>10. CASE root = None
  <2>1. Live = {} BY <1>1, <1>10 DEF Spans
  <2> QED BY <1>9, <1>10, <2>1 DEF b
<1>11. CASE root # None
  <2>1. b \in Live BY <1>9, <1>11
  <2>2. Way(k, b) = None BY <1>3, <1>4, <1>9, <2>1
  <2>3. \A a \in Live : b \in sub[a] => a = b \/ b \in sub[Way(k, a)]
    BY <1>2, <1>9, <2>1
  <2> QED BY <1>11, <2>1, <2>2, <2>3 DEF b
<1> QED BY <1>10, <1>11

\* The rightmost node of the left subtree has the greatest key in it, and no right child.
LEMMA PredecessorIs ==
  ASSUME T!TreeAssumption, TreeInv, NEW sub, Shape(sub), NEW c \in Live,
         kid[c]["left"] # None
  PROVE  /\ T!Predecessor(c) \in sub[kid[c]["left"]]
         /\ T!Predecessor(c) \in Live /\ T!Predecessor(c) # c
         /\ kid[T!Predecessor(c)]["right"] = None
         /\ \A x \in sub[kid[c]["left"]] : KeyOf[x] <= KeyOf[T!Predecessor(c)]
<1>1. Spans(sub, Live, kid, root, None) /\ SortedBy(sub, Live, kid, KeyOf) BY DEF Shape
<1>2. /\ Cardinality(Cells) \in Nat /\ Live \subseteq Cells /\ None \notin Cells
      /\ \A x \in Live : KeyOf[x] \in Int
  BY TreeTypes
<1> DEFINE l == kid[c]["left"]
           next == [m \in Cells |-> IF kid[m]["right"] = None THEN m ELSE kid[m]["right"]]
           P == {m \in Live : m \in sub[l] /\ \A x \in sub[l] : x \in sub[m] \/ KeyOf[x] <= KeyOf[m]}
           rank == [m \in P |-> Cardinality(sub[m])]
<1>3. l \in Live /\ l \in sub[l] /\ sub[l] \subseteq Live
  <2>1. "left" \in Side BY DEF Side
  <2>2. l \in Live BY <1>1, <2>1, Shrinks
  <2> HIDE DEF l
  <2> QED BY <1>1, <2>2, Splits
<1>4. \A m \in Live : next[m] = IF kid[m]["right"] = None THEN m ELSE kid[m]["right"]
  BY <1>2
<1> HIDE DEF next, l
<1>5. ASSUME NEW m \in P, kid[m]["right"] # None
      PROVE  /\ kid[m]["right"] \in P /\ kid[m]["right"] # m
             /\ Cardinality(sub[kid[m]["right"]]) < Cardinality(sub[m])
  <2> DEFINE r == kid[m]["right"]
  <2>1. m \in Live /\ m \in sub[l] OBVIOUS
  <2>2. "right" \in Side BY DEF Side
  <2>3. r \in Live /\ r # m /\ Cardinality(sub[r]) < Cardinality(sub[m])
    BY <1>1, <1>5, <2>1, <2>2, Shrinks
  <2>4. r \in sub[r] /\ sub[r] \subseteq sub[m] BY <1>1, <2>1, <2>2, <2>3, SubtreeSizes, Splits
  <2>5. r \in sub[l] BY <1>1, <1>3, <2>1, <2>4, SubtreeBelow
  <2>6. KeyOf[m] <= KeyOf[r] BY <1>1, <2>1, <2>4 DEF SortedBy
  <2>7. ASSUME NEW x \in sub[l] PROVE x \in sub[r] \/ KeyOf[x] <= KeyOf[r]
    <3>1. KeyOf[x] \in Int /\ KeyOf[m] \in Int /\ KeyOf[r] \in Int BY <1>2, <1>3, <2>1, <2>3
    <3>2. CASE KeyOf[x] <= KeyOf[m] BY <2>6, <3>1, <3>2
    <3>3. CASE x \in sub[m]
      <4>1. x = m \/ x \in sub[kid[m]["left"]] \/ x \in sub[r]
        BY <1>1, <2>1, <3>3 DEF Spans
      <4>2. x \in sub[kid[m]["left"]] => KeyOf[x] <= KeyOf[m] BY <1>1, <2>1 DEF SortedBy
      <4> QED BY <2>6, <3>1, <4>1, <4>2
    <3> QED BY <3>2, <3>3
  <2> HIDE DEF r
  <2>8. r \in P BY <2>3, <2>5, <2>7
  <2> QED BY <2>3, <2>8 DEF r
<1>6. l \in P BY <1>3
<1>7. ASSUME NEW m \in P
      PROVE  next[m] \in P /\ rank[m] \in Nat /\ (next[m] # m => rank[next[m]] < rank[m])
  <2>1. rank[m] = Cardinality(sub[m]) /\ m \in Live OBVIOUS
  <2>2. rank[m] \in Nat BY <1>1, <2>1, Shrinks
  <2> HIDE DEF P, rank
  <2>3. CASE kid[m]["right"] = None BY <1>4, <2>1, <2>2, <2>3
  <2>4. CASE kid[m]["right"] # None
    <3>1. next[m] = kid[m]["right"] /\ kid[m]["right"] \in P BY <1>4, <1>5, <2>1, <2>4
    <3>2. rank[kid[m]["right"]] = Cardinality(sub[kid[m]["right"]]) BY <3>1 DEF rank
    <3> QED BY <1>5, <2>1, <2>2, <2>4, <3>1, <3>2
  <2> QED BY <2>3, <2>4
<1>8. rank[l] <= Cardinality(Cells) BY <1>1, <1>3, <1>6, Shrinks
<1>9. ComesToRest(next, P, rank)
  <2> HIDE DEF rank, P
  <2> QED BY <1>7 DEF ComesToRest
<1> DEFINE p == T!Predecessor(c)
<1>10. p = Loop(next, l, Cardinality(Cells))
  BY SameHelpers, Zenon DEF T!Predecessor, next, l
<1> HIDE DEF rank
<1>11. p \in P /\ next[p] = p
  <2> HIDE DEF P, p
  <2> QED BY <1>2, <1>6, <1>8, <1>9, <1>10, LoopSettles
<1> HIDE DEF p
<1>12. kid[p]["right"] = None BY <1>4, <1>5, <1>11
<1>13. p \in Live /\ p \in sub[l] BY <1>11
<1>14. ASSUME NEW x \in sub[l] PROVE KeyOf[x] <= KeyOf[p]
  <2>1. CASE x \in sub[p]
    <3>1. sub[None] = {} BY <1>1 DEF Spans
    <3>2. x = p \/ x \in sub[kid[p]["left"]] BY <1>1, <1>12, <1>13, <2>1, <3>1 DEF Spans
    <3>3. x \in sub[kid[p]["left"]] => KeyOf[x] <= KeyOf[p] BY <1>1, <1>13 DEF SortedBy
    <3>4. KeyOf[p] \in Int BY <1>2, <1>13
    <3> QED BY <3>2, <3>3, <3>4
  <2>2. CASE x \notin sub[p] BY <1>11, <2>2
  <2> QED BY <2>1, <2>2
<1>15. p # c
  <2>1. "left" \in Side BY DEF Side
  <2> QED BY <1>1, <1>13, <2>1, Splits DEF l
<1> QED BY <1>12, <1>13, <1>14, <1>15 DEF p, l
-----------------------------------------------------------------------------
\* The invariant after a call, from its parts.
LEMMA TreeInvThen ==
  ASSUME T!TreeAssumption, NEW L, L = Live', L \subseteq Cells,
         root' \in L \cup {None}, item' \in [Cells -> Items \cup {None}],
         kid' \in [Cells -> [Side -> L \cup {None}]],
         treeCall'.ret \in {"ok", "err", None} \cup Items,
         \A c \in Cells \ L : kid'[c] = T!Leaf,
         \A c, d \in L : item'[c] = item'[d] => c = d,
         NEW sub, Spans(sub, L, kid', root', None),
         \A c \in L : /\ \A x \in sub[kid'[c]["left"]] : TreeKey[item'[x]] <= TreeKey[item'[c]]
                      /\ \A x \in sub[kid'[c]["right"]] : TreeKey[item'[c]] <= TreeKey[item'[x]]
  PROVE  TreeInv' /\ T!Held' = {item'[c] : c \in L}
<1>1. T!TypeOK' BY SameHelpers DEF T!TypeOK, Live
<1>2. ASSUME NEW c \in L
      PROVE  /\ KeyOf'[c] = TreeKey[item'[c]] /\ KeyOf'[c] \in Int
  <2>1. item'[c] \in Items BY <1>2 DEF Live
  <2>2. TreeKey[item'[c]] \in Int BY <2>1 DEF T!TreeAssumption
  <2> QED BY <1>2, <2>2 DEF KeyOf
<1>3. ASSUME NEW c \in L
      PROVE  /\ \A x \in sub[kid'[c]["left"]] : KeyOf'[x] <= KeyOf'[c]
             /\ \A x \in sub[kid'[c]["right"]] : KeyOf'[c] <= KeyOf'[x]
  <2>1. "left" \in Side /\ "right" \in Side BY DEF Side
  <2>2. /\ \A x \in sub[kid'[c]["left"]] : x \in L
        /\ \A x \in sub[kid'[c]["right"]] : x \in L
    BY <2>1, Splits
  <2> QED BY <1>2, <2>2
<1>4. SortedBy(sub, L, kid', KeyOf') BY <1>2, <1>3 DEF SortedBy
<1>5. Shape(sub)' BY <1>4 DEF Shape
<1>6. TreeInv' BY <1>1, <1>5 DEF TreeInv
<1>7. (T!TreeAssumption /\ TreeInv => T!Held = {item[c] : c \in Live})' BY TreeHeldIs, PTL
<1>8. T!TreeAssumption' BY DEF T!TreeAssumption
<1> QED BY <1>6, <1>7, <1>8

\* insert1 adds the item and keeps the tree.
LEMMA InsertKeeps ==
  ASSUME T!TreeAssumption, TreeInv, NEW i \in Items, T!insert(i)
  PROVE  TreeInv' /\ T!Held' = T!Held \cup {i} /\ i \notin T!Held
<1> DEFINE c == CHOOSE c \in Cells : item[c] = None
           b == T!Back(TreeKey[i])
           k == TreeKey[i]
<1>1. /\ i \notin T!Held /\ c \in Cells /\ item[c] = None /\ item' = [item EXCEPT ![c] = i]
      /\ IF b = None THEN root' = c /\ UNCHANGED kid
         ELSE kid' = [kid EXCEPT ![b][T!Toward(k, b)] = c] /\ UNCHANGED root
      /\ treeCall'.ret = "ok"
  BY DEF T!insert, T!Call
<1>2. k \in Int /\ i # None BY DEF T!TreeAssumption
<1> HIDE DEF c, k
<1>3. PICK sub : Shape(sub) BY DEF TreeInv
<1>4. Spans(sub, Live, kid, root, None) /\ SortedBy(sub, Live, kid, KeyOf) BY <1>3 DEF Shape
<1>5. /\ Live \subseteq Cells /\ None \notin Cells /\ root \in Live \cup {None}
      /\ \A x \in Cells : kid[x] \in [Side -> Live \cup {None}]
      /\ kid \in [Cells -> [Side -> Cells \cup {None}]] /\ DOMAIN kid = Cells
      /\ item \in [Cells -> Items \cup {None}]
      /\ \A x \in Live : TreeKey[item[x]] \in Int /\ KeyOf[x] = TreeKey[item[x]]
  BY TreeTypes
<1> DEFINE L == Live \cup {c}
<1>6. /\ c \notin Live /\ c # None /\ L = Live' /\ L \subseteq Cells
      /\ item' \in [Cells -> Items \cup {None}] /\ item'[c] = i
      /\ \A x \in Live : x # c /\ item'[x] = item[x]
  <2>1. c \notin Live /\ c # None BY <1>1, <1>5 DEF Live
  <2>2. item'[c] = i /\ \A x \in Cells : x # c => item'[x] = item[x] BY <1>1, <1>5
  <2>3. L = Live' BY <1>1, <1>2, <1>5, <2>2 DEF Live
  <2>4. item' \in [Cells -> Items \cup {None}] BY <1>1, <1>5
  <2> QED BY <1>1, <1>5, <2>1, <2>2, <2>3, <2>4
<1>7. T!Held = {item[x] : x \in Live} BY TreeHeldIs
<1>8. \A x, y \in L : item'[x] = item'[y] => x = y
  <2>1. \A x, y \in Live : item[x] = item[y] => x = y BY DEF TreeInv
  <2>2. \A x \in Live : item[x] # i BY <1>1, <1>7
  <2> QED BY <1>6, <2>1, <2>2
<1>9. {item'[x] : x \in L} = T!Held \cup {i} BY <1>6, <1>7
<1>10. kid[c] = T!Leaf /\ \A x \in Cells \ L : kid[x] = T!Leaf BY <1>1, <1>6 DEF TreeInv
<1> HIDE DEF L
<1>11. CASE root = None
  <2>1. b = None /\ root' = c /\ kid' = kid
    <3>1. b = None BY <1>2, <1>3, <1>11, BackIs DEF k
    <3> HIDE DEF b
    <3> QED BY <1>1, <3>1
  <2>2. Live = {} /\ sub[None] = {} BY <1>4, <1>11 DEF Spans
  <2> DEFINE new == [a \in {c, None} |-> IF a = None THEN {} ELSE {c}]
  <2>3. new[None] = {} /\ new[c] = {c} BY <1>6
  <2>4. L = {c} BY <2>2 DEF L
  <2>5. kid[c]["left"] = None /\ kid[c]["right"] = None
    BY <1>10, SameHelpers DEF T!Leaf, Side
  <2> HIDE DEF new
  <2>6. Spans(new, L, kid', root', None)
    <3>1. IsFiniteSet(L) BY <2>4, FS_Singleton
    <3> QED BY <1>1, <1>5, <1>6, <2>1, <2>3, <2>4, <2>5, <3>1 DEF Spans
  <2>7. kid' \in [Cells -> [Side -> L \cup {None}]] BY <1>5, <2>1, <2>2
  <2>8. \A x \in L : /\ \A y \in new[kid'[x]["left"]] : TreeKey[item'[y]] <= TreeKey[item'[x]]
                     /\ \A y \in new[kid'[x]["right"]] : TreeKey[item'[x]] <= TreeKey[item'[y]]
    BY <2>1, <2>3, <2>4, <2>5
  <2>9. root' \in L \cup {None} BY <2>1, <2>4
  <2>10. \A x \in Cells \ L : kid'[x] = T!Leaf BY <1>10, <2>1
  <2> QED BY <1>1, <1>6, <1>8, <1>9, <2>6, <2>7, <2>8, <2>9, <2>10, TreeInvThen
<1>12. CASE root # None
  <2> DEFINE s == T!Toward(k, b)
  <2>1. /\ b \in Live /\ Way(k, b) = None
        /\ \A a \in Live : b \in sub[a] => a = b \/ b \in sub[Way(k, a)]
    BY <1>2, <1>3, <1>12, BackIs DEF k
  <2> HIDE DEF b
  <2>2. /\ b # None /\ s \in Side /\ kid[b][s] = None
        /\ kid' = [kid EXCEPT ![b][s] = c] /\ root' = root
    BY <1>1, <1>5, <2>1 DEF Way, T!Toward, Side
  <2> HIDE DEF s
  <2>3. /\ \A p \in Live, z \in Side : kid'[p][z] = IF p = b /\ z = s THEN c ELSE kid[p][z]
        /\ \A z \in Side : kid'[c][z] = None
        /\ \A x \in Cells \ L : kid'[x] = T!Leaf
        /\ DOMAIN kid' = DOMAIN kid
        /\ kid' \in [Cells -> [Side -> L \cup {None}]]
    <3>1. kid \in [Cells -> [Side -> L \cup {None}]] BY <1>5 DEF L
    <3>2. b \in Cells /\ c \in L /\ c # b /\ b \in L BY <1>5, <1>6, <2>1 DEF L
    <3>3. kid' \in [Cells -> [Side -> L \cup {None}]] BY <2>2, <3>1, <3>2
    <3>4. \A x \in Cells : x # b => kid'[x] = kid[x] BY <2>2, <3>1, <3>2
    <3>5. kid'[b] = [kid[b] EXCEPT ![s] = c] BY <2>2, <3>1, <3>2
    <3>6. \A z \in Side : kid'[b][z] = IF z = s THEN c ELSE kid[b][z]
      BY <2>2, <3>1, <3>2, <3>5
    <3>7. \A z \in Side : kid'[c][z] = None
      BY <1>1, <1>10, <3>2, <3>4, SameHelpers DEF T!Leaf
    <3>8. \A p \in Live, z \in Side : kid'[p][z] = IF p = b /\ z = s THEN c ELSE kid[p][z]
      BY <1>5, <3>4, <3>6
    <3>9. \A x \in Cells \ L : kid'[x] = T!Leaf BY <1>10, <3>2, <3>4
    <3> QED BY <3>1, <3>3, <3>7, <3>8, <3>9
  <2> DEFINE new == Hung(sub, Live, None, b, c)
  <2>4. /\ Spans(new, L, kid', root', None)
        /\ \A p \in Live, z \in Side :
              new[kid'[p][z]] = IF (p = b /\ z = s) \/ b \in sub[kid[p][z]]
                                THEN sub[kid[p][z]] \cup {c} ELSE sub[kid[p][z]]
    <3>1. HangsFrom(Live, kid, None, b, s, c, kid')
      <4>1. c \in DOMAIN kid BY <1>1, <1>5
      <4> QED BY <1>6, <2>1, <2>2, <2>3, <4>1 DEF HangsFrom
    <3> HIDE DEF Live
    <3>2. Spans(new, Live \cup {c}, kid', root, None) /\ Adds(new, sub, Live, kid, kid', b, s, c)
      BY <1>4, <3>1, LeafHung, Zenon
    <3> QED BY <2>2, <3>2 DEF L, Adds
  <2> HIDE DEF new
  <2>5. ASSUME NEW x \in Live, NEW z \in Side, NEW y \in new[kid'[x][z]]
        PROVE  (y \in Live /\ y \in sub[kid[x][z]]) \/ (y = c /\ z = T!Toward(k, x))
    <3>1. CASE y \in sub[kid[x][z]] BY <1>4, <3>1, SubtreeSizes
    <3>2. CASE y \notin sub[kid[x][z]]
      <4>1. y = c /\ ((x = b /\ z = s) \/ b \in sub[kid[x][z]])
        <5>1. y \in IF (x = b /\ z = s) \/ b \in sub[kid[x][z]]
                    THEN sub[kid[x][z]] \cup {c} ELSE sub[kid[x][z]]
          BY <2>4
        <5> QED BY <3>2, <5>1
      <4>2. CASE x = b /\ z = s BY <4>1, <4>2 DEF s
      <4>3. CASE b \in sub[kid[x][z]]
        <5>1. b \in sub[x] /\ b # x BY <1>4, <4>3, Splits
        <5>2. b \in sub[Way(k, x)] BY <2>1, <5>1
        <5>3. PICK w \in Side : w = T!Toward(k, x) BY DEF T!Toward, Side
        <5>4. b \in sub[kid[x][w]] BY <5>2, <5>3 DEF Way
        <5>5. w = z BY <1>4, <4>3, <5>4, Splits
        <5> QED BY <4>1, <5>3, <5>5
      <4> QED BY <4>1, <4>2, <4>3
    <3> QED BY <3>1, <3>2
  <2>6. \A x \in L : /\ \A y \in new[kid'[x]["left"]] : TreeKey[item'[y]] <= TreeKey[item'[x]]
                     /\ \A y \in new[kid'[x]["right"]] : TreeKey[item'[x]] <= TreeKey[item'[y]]
    <3>1. ASSUME NEW x \in Live
          PROVE  /\ \A y \in new[kid'[x]["left"]] : TreeKey[item'[y]] <= TreeKey[item'[x]]
                 /\ \A y \in new[kid'[x]["right"]] : TreeKey[item'[x]] <= TreeKey[item'[y]]
      <4>1. T!Toward(k, x) = IF k < TreeKey[item[x]] THEN "left" ELSE "right"
        BY DEF T!Toward, T!KeyAt
      <4>2. TreeKey[item[x]] \in Int /\ item'[x] = item[x] /\ TreeKey[item'[c]] = k
        BY <1>5, <1>6 DEF k
      <4>3. ASSUME NEW y \in new[kid'[x]["left"]] PROVE TreeKey[item'[y]] <= TreeKey[item[x]]
        <5>1. "left" \in Side BY DEF Side
        <5>2. (y \in Live /\ y \in sub[kid[x]["left"]]) \/ (y = c /\ "left" = T!Toward(k, x))
          BY <2>5, <5>1
        <5>3. CASE y \in Live /\ y \in sub[kid[x]["left"]]
          BY <1>4, <1>5, <1>6, <5>3 DEF SortedBy
        <5>4. CASE y = c /\ "left" = T!Toward(k, x)
          <6>1. k < TreeKey[item[x]] BY <4>1, <5>4
          <6> QED BY <1>2, <4>2, <5>4, <6>1
        <5> QED BY <5>2, <5>3, <5>4
      <4>4. ASSUME NEW y \in new[kid'[x]["right"]] PROVE TreeKey[item[x]] <= TreeKey[item'[y]]
        <5>1. "right" \in Side BY DEF Side
        <5>2. (y \in Live /\ y \in sub[kid[x]["right"]]) \/ (y = c /\ "right" = T!Toward(k, x))
          BY <2>5, <5>1
        <5>3. CASE y \in Live /\ y \in sub[kid[x]["right"]]
          BY <1>4, <1>5, <1>6, <5>3 DEF SortedBy
        <5>4. CASE y = c /\ "right" = T!Toward(k, x)
          <6>1. ~(k < TreeKey[item[x]]) BY <4>1, <5>4
          <6> QED BY <1>2, <4>2, <5>4, <6>1
        <5> QED BY <5>2, <5>3, <5>4
      <4> QED BY <4>2, <4>3, <4>4
    <3>2. new[None] = {} BY <2>4 DEF Spans
    <3>3. kid'[c]["left"] = None /\ kid'[c]["right"] = None BY <2>3 DEF Side
    <3> QED BY <3>1, <3>2, <3>3 DEF L
  <2>7. root' \in L \cup {None} BY <1>5, <2>2 DEF L
  <2> QED BY <1>1, <1>6, <1>8, <1>9, <2>3, <2>4, <2>6, <2>7, TreeInvThen
<1> QED BY <1>1, <1>11, <1>12

\* Relink takes a node with one child at most out of the tree.
LEMMA RelinkIs ==
  ASSUME T!TreeAssumption, TreeInv, NEW sub, Shape(sub), NEW c \in Live, NEW s \in Side,
         \A z \in Side : z # s => kid[c][z] = None, T!Relink(c, kid[c][s])
  PROVE  /\ Spans(CutOut(sub, Live, None, c), Live \ {c}, kid', root', None)
         /\ Drops(CutOut(sub, Live, None, c), sub, Live \ {c}, kid, kid', c)
         /\ root' \in (Live \ {c}) \cup {None}
         /\ kid' \in [Cells -> [Side -> (Live \ {c}) \cup {None}]]
         /\ \A x \in Cells \ (Live \ {c}) : kid'[x] = T!Leaf
<1> DEFINE m == kid[c][s]
<1>1. Spans(sub, Live, kid, root, None) BY DEF Shape
<1>2. /\ Live \subseteq Cells /\ None \notin Cells /\ root \in Live \cup {None}
      /\ \A x \in Cells : kid[x] \in [Side -> Live \cup {None}]
      /\ kid \in [Cells -> [Side -> Live \cup {None}]] /\ DOMAIN kid = Cells
  <2>1. kid \in [Cells -> [Side -> Live \cup {None}]]
    BY SameHelpers DEF TreeInv, T!TypeOK, Live
  <2> QED BY <2>1, TreeTypes
<1>3. m \in (Live \ {c}) \cup {None} BY <1>1, <1>2, Shrinks
<1>4. T!Leaf = [z \in Side |-> None] BY SameHelpers DEF T!Leaf
<1>5. \A x \in Cells \ Live : kid[x] = T!Leaf BY DEF TreeInv
<1>6. ASSUME NEW p \in Live, NEW y \in Side, kid[p][y] = c PROVE c # root
  <2>1. c \in sub[c] /\ sub[root] = Live BY <1>1, Splits DEF Spans
  <2>2. p \notin sub[kid[p][y]] /\ p \in sub[root] BY <1>1, <2>1, Splits
  <2> QED BY <1>6, <2>2
<1>7. /\ root' = IF root = c THEN m ELSE root
      /\ kid' = [p \in Cells |-> IF p = c THEN T!Leaf
                                 ELSE [y \in Side |-> IF kid[p][y] = c THEN m ELSE kid[p][y]]]
  <2>1. CASE c = root
    <3>1. root' = m /\ kid' = [kid EXCEPT ![c] = T!Leaf] BY <2>1 DEF T!Relink
    <3>2. ASSUME NEW p \in Cells, p # c
          PROVE  kid[p] = [y \in Side |-> IF kid[p][y] = c THEN m ELSE kid[p][y]]
      <4>1. kid[p] \in [Side -> Live \cup {None}] BY <1>2
      <4>2. ASSUME NEW y \in Side PROVE kid[p][y] # c
        <5>1. CASE p \in Live BY <1>6, <2>1, <5>1
        <5>2. CASE p \notin Live
          <6>1. kid[p][y] = None BY <1>4, <1>5, <5>2
          <6> QED BY <1>2, <6>1
        <5> QED BY <5>1, <5>2
      <4> HIDE DEF Live, m
      <4> QED BY <4>1, <4>2
    <3> HIDE DEF m
    <3> QED BY <1>2, <2>1, <3>1, <3>2
  <2>2. CASE c # root BY <2>2, SameHelpers DEF T!Relink
  <2> QED BY <2>1, <2>2
<1> HIDE DEF m
<1>8. ASSUME NEW p \in Cells, NEW y \in Side
      PROVE  kid'[p][y] = IF p = c THEN None ELSE IF kid[p][y] = c THEN m ELSE kid[p][y]
  BY <1>4, <1>7
<1>9. root' \in (Live \ {c}) \cup {None} BY <1>2, <1>3, <1>7
<1>10. kid' \in [Cells -> [Side -> (Live \ {c}) \cup {None}]]
  <2>1. T!Leaf \in [Side -> (Live \ {c}) \cup {None}] BY <1>4
  <2>2. ASSUME NEW p \in Cells
        PROVE  [y \in Side |-> IF kid[p][y] = c THEN m ELSE kid[p][y]]
                 \in [Side -> (Live \ {c}) \cup {None}]
    BY <1>2, <1>3
  <2> HIDE DEF Live
  <2> QED BY <1>7, <2>1, <2>2
<1>11. ASSUME NEW x \in Cells \ (Live \ {c}) PROVE kid'[x] = T!Leaf
  <2>1. CASE x = c BY <1>7, <2>1
  <2>2. CASE x # c
    <3>1. x \in Cells \ Live /\ kid[x] = T!Leaf BY <1>5, <1>11, <2>2
    <3>2. kid'[x] = [y \in Side |-> IF kid[x][y] = c THEN m ELSE kid[x][y]]
      BY <1>7, <2>2, <3>1
    <3>3. \A y \in Side : kid[x][y] = None /\ None # c BY <1>2, <1>4, <3>1
    <3> QED BY <1>4, <3>2, <3>3
  <2> QED BY <2>1, <2>2
<1>12. IsCutFrom(Live, kid, None, c, s, kid') BY <1>2, <1>7, <1>8 DEF IsCutFrom, m
<1>13. root' = IF root = c THEN kid[c][s] ELSE root BY <1>7 DEF m
<1>14. /\ Spans(CutOut(sub, Live, None, c), Live \ {c}, kid',
                IF root = c THEN kid[c][s] ELSE root, None)
       /\ Drops(CutOut(sub, Live, None, c), sub, Live \ {c}, kid, kid', c)
  BY <1>1, <1>12, NodeCut, Zenon
<1> QED BY <1>9, <1>10, <1>11, <1>13, <1>14

\* A node with one child at most goes with its item.
LEMMA DeleteOuterKeeps ==
  ASSUME T!TreeAssumption, TreeInv, NEW c \in Live, T!DeleteOuter(c), treeCall'.ret = "ok"
  PROVE  TreeInv' /\ T!Held' = T!Held \ {item[c]}
<1>1. PICK sub : Shape(sub) BY DEF TreeInv
<1>2. Spans(sub, Live, kid, root, None) /\ SortedBy(sub, Live, kid, KeyOf) BY <1>1 DEF Shape
<1>3. PICK s \in Side : /\ \A z \in Side : z # s => kid[c][z] = None
                        /\ T!Relink(c, kid[c][s])
  <2>1. \E z \in Side : kid[c][z] = None BY SameHelpers DEF T!DeleteOuter
  <2>2. CASE kid[c]["right"] = None
    <3>1. T!Relink(c, kid[c]["left"]) BY <2>2 DEF T!DeleteOuter
    <3> QED BY <2>2, <3>1 DEF Side
  <2>3. CASE kid[c]["right"] # None
    <3>1. T!Relink(c, kid[c]["right"]) BY <2>3 DEF T!DeleteOuter
    <3>2. kid[c]["left"] = None BY <2>1, <2>3 DEF Side
    <3> QED BY <3>1, <3>2 DEF Side
  <2> QED BY <2>2, <2>3
<1> DEFINE L == Live \ {c}
           new == CutOut(sub, Live, None, c)
<1>4. /\ Spans(new, L, kid', root', None) /\ Drops(new, sub, L, kid, kid', c)
      /\ root' \in L \cup {None} /\ kid' \in [Cells -> [Side -> L \cup {None}]]
      /\ \A x \in Cells \ L : kid'[x] = T!Leaf
  BY <1>1, <1>3, RelinkIs
<1>5. /\ Live \subseteq Cells /\ None \notin Cells /\ item \in [Cells -> Items \cup {None}]
      /\ \A x \in Live : TreeKey[item[x]] \in Int /\ KeyOf[x] = TreeKey[item[x]]
  BY TreeTypes
<1>6. item' = [item EXCEPT ![c] = None] BY DEF T!DeleteOuter
<1>7. /\ L = Live' /\ L \subseteq Cells /\ item' \in [Cells -> Items \cup {None}]
      /\ \A x \in L : item'[x] = item[x]
  <2>1. item'[c] = None /\ \A x \in Cells : x # c => item'[x] = item[x] BY <1>5, <1>6
  <2>2. item' \in [Cells -> Items \cup {None}] BY <1>5, <1>6
  <2> QED BY <1>5, <2>1, <2>2 DEF Live
<1>8. \A x, y \in Live : item[x] = item[y] => x = y BY DEF TreeInv
<1>9. \A x, y \in L : item'[x] = item'[y] => x = y BY <1>7, <1>8
<1>10. T!Held = {item[x] : x \in Live} BY TreeHeldIs
<1>11. {item'[x] : x \in L} = T!Held \ {item[c]} BY <1>7, <1>8, <1>10
<1> HIDE DEF new
<1>12. ASSUME NEW x \in L
       PROVE  /\ \A y \in new[kid'[x]["left"]] : TreeKey[item'[y]] <= TreeKey[item'[x]]
              /\ \A y \in new[kid'[x]["right"]] : TreeKey[item'[x]] <= TreeKey[item'[y]]
  <2>1. "left" \in Side /\ "right" \in Side BY DEF Side
  <2>2. \A z \in Side : new[kid'[x][z]] = sub[kid[x][z]] \ {c} BY <1>4 DEF Drops
  <2>3. \A z \in Side : \A y \in sub[kid[x][z]] : y \in Live BY <1>2, SubtreeSizes
  <2> QED BY <1>2, <1>5, <1>7, <2>1, <2>2, <2>3 DEF SortedBy
<1> HIDE DEF L
<1> QED BY <1>4, <1>7, <1>9, <1>11, <1>12, TreeInvThen, ZenonT(40)

\* A node with two children gets its predecessor's item, and the predecessor goes.
LEMMA DeleteInnerKeeps ==
  ASSUME T!TreeAssumption, TreeInv, NEW c \in Live, T!DeleteInner(c), treeCall'.ret = "ok"
  PROVE  TreeInv' /\ T!Held' = T!Held \ {item[c]}
<1> DEFINE p == T!Predecessor(c)
           L == Live \ {p}
           l == kid[c]["left"]
<1>1. PICK sub : Shape(sub) BY DEF TreeInv
<1>2. Spans(sub, Live, kid, root, None) /\ SortedBy(sub, Live, kid, KeyOf) BY <1>1 DEF Shape
<1>3. /\ T!Relink(p, kid[p]["left"]) /\ l # None
      /\ item' = [item EXCEPT ![c] = item[p], ![p] = None]
  BY SameHelpers DEF T!DeleteInner, Side
<1>4. /\ p \in sub[l] /\ p \in Live /\ p # c /\ kid[p]["right"] = None
      /\ \A x \in sub[l] : KeyOf[x] <= KeyOf[p]
  BY <1>1, <1>3, PredecessorIs
<1> HIDE DEF p
<1> DEFINE new == CutOut(sub, Live, None, p)
<1>5. /\ Spans(new, L, kid', root', None) /\ Drops(new, sub, L, kid, kid', p)
      /\ root' \in L \cup {None} /\ kid' \in [Cells -> [Side -> L \cup {None}]]
      /\ \A x \in Cells \ L : kid'[x] = T!Leaf
  <2>1. "left" \in Side /\ \A z \in Side : z # "left" => kid[p][z] = None BY <1>4 DEF Side
  <2> QED BY <1>1, <1>3, <1>4, <2>1, RelinkIs
<1>6. /\ Live \subseteq Cells /\ None \notin Cells /\ item \in [Cells -> Items \cup {None}]
      /\ \A x \in Live : /\ item[x] \in Items /\ item[x] # None
                         /\ KeyOf[x] \in Int /\ KeyOf[x] = TreeKey[item[x]]
  BY TreeTypes
<1>7. /\ L = Live' /\ L \subseteq Cells /\ item' \in [Cells -> Items \cup {None}]
      /\ c \in L /\ item'[c] = item[p] /\ \A x \in L : x # c => item'[x] = item[x]
  <2>1. item'[p] = None /\ item'[c] = item[p] BY <1>3, <1>4, <1>6
  <2>2. \A x \in Cells : x # c /\ x # p => item'[x] = item[x] BY <1>3, <1>6
  <2>3. item' \in [Cells -> Items \cup {None}] BY <1>3, <1>4, <1>6
  <2>4. c \in L BY <1>4
  <2>5. ASSUME NEW x \in Cells PROVE x \in L <=> item'[x] # None
    <3>1. CASE x = c BY <1>4, <1>6, <2>1, <3>1
    <3>2. CASE x = p BY <2>1, <3>2
    <3>3. CASE x # c /\ x # p BY <2>2, <3>3 DEF Live
    <3> QED BY <3>1, <3>2, <3>3
  <2>6. L = Live' BY <1>6, <2>5 DEF Live
  <2> QED BY <1>6, <2>1, <2>2, <2>3, <2>4, <2>6
<1>8. \A x, y \in Live : item[x] = item[y] => x = y BY DEF TreeInv
<1>9. \A x, y \in L : item'[x] = item'[y] => x = y BY <1>4, <1>7, <1>8
<1>10. T!Held = {item[x] : x \in Live} BY TreeHeldIs
<1>11. {item'[x] : x \in L} = T!Held \ {item[c]}
  <2>1. ASSUME NEW x \in L PROVE item'[x] \in T!Held \ {item[c]}
    <3>1. CASE x = c BY <1>4, <1>7, <1>8, <1>10, <3>1
    <3>2. CASE x # c BY <1>7, <1>8, <1>10, <3>2
    <3> QED BY <3>1, <3>2
  <2>2. ASSUME NEW x \in Live, item[x] # item[c] PROVE item[x] \in {item'[y] : y \in L}
    <3>1. CASE x = p BY <1>7, <3>1
    <3>2. CASE x # p BY <1>7, <2>2, <3>2
    <3> QED BY <3>1, <3>2
  <2> QED BY <1>10, <2>1, <2>2
<1> HIDE DEF new
\* The key at a node, after.
<1>12. \A x \in L : TreeKey[item'[x]] = IF x = c THEN KeyOf[p] ELSE KeyOf[x]
  BY <1>4, <1>6, <1>7
<1>13. ASSUME NEW x \in L
       PROVE  /\ \A y \in new[kid'[x]["left"]] : TreeKey[item'[y]] <= TreeKey[item'[x]]
              /\ \A y \in new[kid'[x]["right"]] : TreeKey[item'[x]] <= TreeKey[item'[y]]
  <2>1. "left" \in Side /\ "right" \in Side BY DEF Side
  <2>2. \A z \in Side : new[kid'[x][z]] = sub[kid[x][z]] \ {p} BY <1>5 DEF Drops
  <2>3. \A z \in Side : \A y \in sub[kid[x][z]] : y \in Live BY <1>2, SubtreeSizes
  <2>4. ASSUME NEW z \in Side, c \in sub[kid[x][z]] PROVE p \in sub[kid[x][z]]
    <3>1. kid[x][z] \in Live BY <1>2, <2>4, Splits
    <3>2. c \in sub[c] /\ p \in sub[c] BY <1>2, <1>4, <2>1, Splits
    <3> QED BY <1>2, <2>4, <3>1, <3>2, SubtreeBelow
  <2>5. KeyOf[p] <= KeyOf[c] BY <1>2, <1>4 DEF SortedBy
  <2>6. \A y \in sub[kid[x]["left"]] : KeyOf[y] <= KeyOf[x] BY <1>2 DEF SortedBy
  <2>7. \A y \in sub[kid[x]["right"]] : KeyOf[x] <= KeyOf[y] BY <1>2 DEF SortedBy
  <2>8. ASSUME NEW y \in new[kid'[x]["left"]] PROVE TreeKey[item'[y]] <= TreeKey[item'[x]]
    <3>1. y \in L /\ y \in sub[kid[x]["left"]] /\ x \in Live BY <2>1, <2>2, <2>3
    <3>2. TreeKey[item'[y]] = (IF y = c THEN KeyOf[p] ELSE KeyOf[y]) BY <1>12, <3>1
    <3>3. CASE x = c
      <4>1. y # c BY <1>2, <2>1, <3>1, <3>3, Splits
      <4>2. KeyOf[y] <= KeyOf[p] BY <1>4, <3>1, <3>3
      <4> QED BY <1>12, <3>2, <3>3, <4>1, <4>2
    <3>4. CASE x # c
      <4>1. TreeKey[item'[x]] = KeyOf[x] BY <1>12, <3>4
      <4>2. CASE y = c BY <2>1, <2>4, <2>6, <3>1, <3>2, <4>1, <4>2
      <4>3. CASE y # c BY <2>6, <3>1, <3>2, <4>1, <4>3
      <4> QED BY <4>2, <4>3
    <3> QED BY <3>3, <3>4
  <2>9. ASSUME NEW y \in new[kid'[x]["right"]] PROVE TreeKey[item'[x]] <= TreeKey[item'[y]]
    <3>1. y \in L /\ y \in sub[kid[x]["right"]] /\ x \in Live BY <2>1, <2>2, <2>3
    <3>2. TreeKey[item'[y]] = (IF y = c THEN KeyOf[p] ELSE KeyOf[y]) BY <1>12, <3>1
    <3>3. CASE x = c
      <4>1. y # c BY <1>2, <2>1, <3>1, <3>3, Splits
      <4>2. KeyOf[c] <= KeyOf[y] BY <2>7, <3>1, <3>3
      <4>3. KeyOf[c] \in Int /\ KeyOf[y] \in Int /\ KeyOf[p] \in Int BY <1>4, <1>6, <1>7, <3>1
      <4>4. TreeKey[item'[x]] = KeyOf[p] /\ TreeKey[item'[y]] = KeyOf[y]
        BY <1>12, <3>2, <3>3, <4>1
      <4> QED BY <2>5, <4>2, <4>3, <4>4
    <3>4. CASE x # c
      <4>1. TreeKey[item'[x]] = KeyOf[x] BY <1>12, <3>4
      <4>2. CASE y = c BY <2>1, <2>4, <2>7, <3>1, <3>2, <4>1, <4>2
      <4>3. CASE y # c BY <2>7, <3>1, <3>2, <4>1, <4>3
      <4> QED BY <4>2, <4>3
    <3> QED BY <3>3, <3>4
  <2> QED BY <2>8, <2>9
<1> HIDE DEF L
<1> QED BY <1>5, <1>7, <1>9, <1>11, <1>13, TreeInvThen

LEMMA CreateKeeps ==
  ASSUME T!TreeAssumption, TreeInv, T!create_tree
  PROVE  TreeInv' /\ T!Held' = {}
<1>1. Range(T!Inorder) = Live BY TreeInorder, ListsAre
<1>2. T!Range(T!Inorder) = Live BY <1>1 DEF T!Range, Range
<1>3. /\ root' = None /\ treeCall'.ret = "ok"
      /\ item' = [c \in Cells |-> IF c \in Live THEN None ELSE item[c]]
      /\ kid' = [c \in Cells |-> IF c \in Live THEN T!Leaf ELSE kid[c]]
  BY <1>2 DEF T!create_tree, T!Call
<1>4. \A c \in Cells : item'[c] = None /\ kid'[c] = T!Leaf BY <1>3 DEF TreeInv, Live
<1>5. {} = Live' BY <1>4 DEF Live
<1>6. item' \in [Cells -> Items \cup {None}] BY <1>3, TreeTypes
<1>7. kid' \in [Cells -> [Side -> {} \cup {None}]]
  <2>1. T!Leaf \in [Side -> {} \cup {None}] BY SameHelpers DEF T!Leaf
  <2>2. kid' = [c \in Cells |-> T!Leaf] BY <1>3, <1>4
  <2> QED BY <2>1, <2>2
<1> DEFINE sub == [c \in {None} |-> {}]
<1>8. Spans(sub, {}, kid', root', None) BY <1>3, FS_EmptySet DEF Spans
<1> HIDE DEF sub
<1> QED BY <1>3, <1>4, <1>5, <1>6, <1>7, <1>8, TreeInvThen

LEMMA StepTree ==
  ASSUME T!TreeAssumption, TreeInv, [T!Next]_(T!vars)
  PROVE  TreeInv' /\ [T!Set!Next]_(T!Set!keyedVars)
<1>1. ASSUME NEW i \in Items, T!insert(i) PROVE TreeInv' /\ T!Set!Insert(i, TRUE)
  <2>1. TreeInv' /\ T!Held' = T!Held \cup {i} /\ i \notin T!Held BY <1>1, InsertKeeps
  <2>2. treeCall' = T!Call("insert", <<i, TRUE>>, "ok") BY <1>1 DEF T!insert
  <2> QED BY <2>1, <2>2 DEF T!Set!Insert, T!Call, T!Set!Call
<1>2. \A i \in Items : TreeKey[i] \in Int BY DEF T!TreeAssumption
<1>3. T!Held = {item[c] : c \in Live} BY TreeHeldIs
<1>4. ASSUME NEW i \in Items, T!delete(TreeKey[i]) PROVE TreeInv' /\ T!Set!Remove(TreeKey[i])
  <2> DEFINE k == TreeKey[i]
             f == T!Find(k)
  <2>1. \/ f \in Live /\ TreeKey[item[f]] = k
        \/ f = None /\ \A c \in Live : TreeKey[item[c]] # k
    BY <1>2, FindIs
  <2>2. None \notin Live BY TreeTypes
  <2> HIDE DEF f
  <2>3. CASE f = None
    <3>1. treeCall' = T!Call("remove", k, "err") /\ UNCHANGED <<root, item, kid>>
      BY <1>4, <2>3 DEF T!delete, f
    <3>2. T!Set!Equal(k) = {} BY <1>3, <2>1, <2>2, <2>3 DEF T!Set!Equal
    <3>3. TreeInv' BY <3>1 DEF TreeInv, Shape, T!TypeOK, Live, KeyOf, T!Call
    <3>4. T!Held' = T!Held BY <3>1 DEF T!Held, T!Inorder
    <3> QED BY <3>1, <3>2, <3>3, <3>4 DEF T!Set!Remove, T!Call, T!Set!Call
  <2>4. CASE f # None
    <3>1. /\ f \in Live /\ TreeKey[item[f]] = k
          /\ treeCall' = T!Call("remove", k, "ok")
          /\ T!DeleteOuter(f) \/ T!DeleteInner(f)
      BY <1>4, <2>1, <2>4 DEF T!delete, f
    <3>2. TreeInv' /\ T!Held' = T!Held \ {item[f]}
      <4>1. treeCall'.ret = "ok" BY <3>1 DEF T!Call
      <4> QED BY <3>1, <4>1, DeleteOuterKeeps, DeleteInnerKeeps
    <3>3. item[f] \in T!Set!Equal(k) BY <1>3, <3>1 DEF T!Set!Equal
    <3> QED BY <3>1, <3>2, <3>3 DEF T!Set!Remove, T!Call, T!Set!Call
  <2> QED BY <2>3, <2>4
<1>5. ASSUME NEW i \in Items, T!search_tree(TreeKey[i])
      PROVE  TreeInv' /\ T!Set!Search(TreeKey[i])
  <2> DEFINE k == TreeKey[i]
             f == T!Find(k)
  <2>1. \/ f \in Live /\ TreeKey[item[f]] = k
        \/ f = None /\ \A c \in Live : TreeKey[item[c]] # k
    BY <1>2, FindIs
  <2>2. /\ None \notin Live /\ item \in [Cells -> Items \cup {None}]
        /\ \A c \in Live : item[c] \in Items
    BY TreeTypes
  <2> HIDE DEF f
  <2> DEFINE found == IF f = None THEN None ELSE item[f]
  <2>3. treeCall' = T!Call("search", k, found) /\ UNCHANGED <<root, item, kid>>
    BY <1>5 DEF T!search_tree, f
  <2>4. treeCall'.ret \in Items \cup {None} BY <2>1, <2>2, <2>3 DEF T!Call
  <2>5. TreeInv'
    <3>1. T!TypeOK' BY <2>3, <2>4 DEF TreeInv, T!TypeOK
    <3> QED BY <2>3, <3>1 DEF TreeInv, Shape, Live, KeyOf
  <2>6. T!Held' = T!Held BY <2>3 DEF T!Held, T!Inorder
  <2>7. found \in T!Set!Equal(k) \/ (T!Set!Equal(k) = {} /\ found = None)
    BY <1>3, <2>1, <2>2 DEF T!Set!Equal
  <2> HIDE DEF found
  <2> QED BY <2>3, <2>5, <2>6, <2>7 DEF T!Set!Search, T!Call, T!Set!Call
<1>6. ASSUME T!create_tree PROVE TreeInv' /\ T!Set!Clear
  <2>1. TreeInv' /\ T!Held' = {} BY <1>6, CreateKeeps
  <2>2. treeCall' = T!Call("clear", None, "ok") BY <1>6 DEF T!create_tree
  <2> QED BY <2>1, <2>2 DEF T!Set!Clear, T!Call, T!Set!Call
<1>7. CASE UNCHANGED T!vars
  <2>1. root' = root /\ item' = item /\ kid' = kid /\ treeCall' = treeCall BY <1>7 DEF T!vars
  <2>2. TreeInv' BY <2>1 DEF TreeInv, Shape, T!TypeOK, Live, KeyOf
  <2>3. T!Held' = T!Held BY <2>1 DEF T!Held, T!Inorder
  <2> QED BY <2>1, <2>2, <2>3 DEF T!Set!keyedVars
<1> QED BY <1>1, <1>4, <1>5, <1>6, <1>7 DEF T!Next, T!Set!Next

LEMMA InitTree == ASSUME T!TreeAssumption, T!Init PROVE TreeInv /\ T!Set!Init
<1>1. root = None /\ item = [c \in Cells |-> None] /\ kid = [c \in Cells |-> T!Leaf]
      /\ treeCall = T!Call("create", None, "ok")
  BY DEF T!Init
<1>2. Live = {} BY <1>1 DEF Live
<1>3. T!Leaf \in [T!Side -> {None}] BY DEF T!Leaf
<1>4. T!TypeOK BY <1>1, <1>3 DEF T!TypeOK, T!Call
<1> DEFINE sub == [c \in {None} |-> {}]
<1>5. Spans(sub, {}, kid, root, None) BY <1>1, FS_EmptySet DEF Spans
<1> HIDE DEF sub
<1>6. Shape(sub) BY <1>2, <1>5 DEF Shape, SortedBy
<1>7. TreeInv BY <1>1, <1>2, <1>4, <1>6 DEF TreeInv
<1>8. T!Held = {} BY <1>2, <1>7, TreeHeldIs
<1> QED BY <1>1, <1>7, <1>8 DEF T!Set!Init, T!Call, T!Set!Call

THEOREM TreeInvariance == ASSUME T!TreeAssumption PROVE T!Spec => []TreeInv
<1>1. T!Init => TreeInv BY InitTree
<1>2. TreeInv /\ [T!Next]_(T!vars) => TreeInv' BY StepTree
<1> QED BY <1>1, <1>2, PTL DEF T!Spec

\* In every state the nodes allocated are in the tree, each once, with their keys in order,
\* and no link is to a freed node, with equal keys and after deletes that move items too.
THEOREM TreeKeepsItsShape == ASSUME T!TreeAssumption PROVE T!Spec => []T!WellFormed
<1>1. TreeInv => T!WellFormed BY WellFormedIs
<1> QED BY <1>1, TreeInvariance, PTL

\* Inserts, deletes and searches of the tree are those of a set of items in which keys may
\* be equal: none is lost or hidden.
THEOREM TreeRefinesSet == ASSUME T!TreeAssumption PROVE T!Spec => T!ImplementsSet
<1>1. T!Init => T!Set!Init BY InitTree
<1>2. TreeInv /\ [T!Next]_(T!vars) => [T!Set!Next]_(T!Set!keyedVars) BY StepTree
<1> QED BY <1>1, <1>2, TreeInvariance, PTL DEF T!Spec, T!ImplementsSet, T!Set!Spec

\* Beside the hash table the tree still behaves as module Tree says: a step of the
\* composition is one of the tree or leaves it alone.
LEMMA ImplementsTree == MCSpec => T!Spec
<1>1. MCInit => T!Init BY DEF MCInit
<1>2. [MCNext]_<<vars, treeVars, use>> => [T!Next]_(T!vars)
  BY Zenon DEF MCNext, OnTable, treeVars, T!vars, T!Next
<1> QED BY <1>1, <1>2, PTL DEF MCSpec, T!Spec

\* Beside the hash table the tree keeps its shape: no call leaves a node out of it, in it
\* twice, out of order or linked after it is freed.
THEOREM TreeIsWellFormed == MCSpec => []TreeWellFormed
BY ItemsAssumption, TreeKeepsItsShape, ImplementsTree, PTL DEF TreeWellFormed

\* Beside the hash table the tree is a set of items: equal keys hide no item, and none goes
\* with another that is deleted.
THEOREM TreeIsASet == MCSpec => TreeImplementsSet
BY ItemsAssumption, TreeRefinesSet, ImplementsTree, PTL DEF TreeImplementsSet
=============================================================================
