----------------------------- MODULE HTabProofs -----------------------------
(***************************************************************************)
(* Proofs about HTab and Conf above it, for any keys, values, cells, hash  *)
(* function and sizes: the chains stay linked both ways and complete, the  *)
(* table acts as a map, htab_foreach mixed with puts and removals is       *)
(* exact, and the table holds what the file said.                          *)
(***************************************************************************)
EXTENDS MCConf, Ranking, SequenceTheorems

TableAssumption == /\ HashAssumption /\ SizeAssumption
                   /\ NoneAssumption /\ CellsAssumption

\* A heap of entries whose pointers lead to entries of its own.
Entry(D) == [key : Keys, value : Vals, prev : D \cup {None}, next : D \cup {None}]
Typed(h) == DOMAIN h \subseteq Cells /\ h \in [DOMAIN h -> Entry(DOMAIN h)]
Heads(n, h) == [0 .. n - 1 -> DOMAIN h \cup {None}]

\* The pointers from p on spell s; s has no entry twice and all are in bucket i's chain.
Apiece(s) == \A x, y \in 1 .. Len(s) : s[x] = s[y] => x = y
Spells(s, p, h) ==
    /\ p = IF Len(s) = 0 THEN None ELSE s[1]
    /\ \A x \in 1 .. Len(s) :
          /\ h[s[x]].next = IF x = Len(s) THEN None ELSE s[x + 1]
          /\ h[s[x]].prev = IF x = 1 THEN None ELSE s[x - 1]
Home(s, i, n, h) == \A x \in 1 .. Len(s) : Index(h[s[x]].key, n) = i

\* c is what the chains of n buckets b are, and P what is in them.
Chained(c, b, h, n) ==
    /\ c \in [0 .. n - 1 -> Seq(DOMAIN h)]
    /\ \A i \in 0 .. n - 1 : Spells(c[i], b[i], h) /\ Apiece(c[i]) /\ Home(c[i], i, n, h)
Has(c, n, P) ==
    \A q : q \in P <=> \E i \in 0 .. n - 1 : \E x \in 1 .. Len(c[i]) : c[i][x] = q
-----------------------------------------------------------------------------
LEMMA Slots == ASSUME TableAssumption, NEW n \in Nat \ {0}, NEW k \in Keys
               PROVE  Index(k, n) \in 0 .. n - 1
<1>1. Hash[k] \in Nat BY DEF TableAssumption, HashAssumption
<1>2. \A h \in Nat : h % n \in 0 .. n - 1 OBVIOUS
<1> QED BY <1>1, <1>2 DEF Index

LEMMA NoneIsNoCell == TableAssumption => None \notin Cells /\ None \notin Vals
BY DEF TableAssumption, NoneAssumption

\* What a typed heap's entries are.
LEMMA Fields == ASSUME NEW h, Typed(h), NEW q \in DOMAIN h
                PROVE  /\ h[q] \in Entry(DOMAIN h) /\ q \in Cells
                       /\ h[q].key \in Keys /\ h[q].value \in Vals
                       /\ h[q].prev \in DOMAIN h \cup {None}
                       /\ h[q].next \in DOMAIN h \cup {None}
BY DEF Typed, Entry

\* What a chain has.
LEMMA Places == ASSUME NEW S, NEW c \in Seq(S)
                PROVE  /\ Len(c) \in Nat /\ DOMAIN c = 1 .. Len(c)
                       /\ \A x \in 1 .. Len(c) : c[x] \in S
                       /\ \A k : k \in Range(c) <=> \E x \in 1 .. Len(c) : c[x] = k
<1>1. Len(c) \in Nat /\ DOMAIN c = 1 .. Len(c) BY LenProperties
<1>2. \A x \in 1 .. Len(c) : c[x] \in S BY ElementOfSeq
<1>3. \A k : k \in Range(c) <=> \E x \in 1 .. Len(c) : c[x] = k BY <1>1 DEF Range
<1> QED BY <1>1, <1>2, <1>3

\* No chain is longer than there are cells.
LEMMA LongEnough == ASSUME TableAssumption, NEW S \in SUBSET Cells, NEW s \in Seq(S), Apiece(s)
                    PROVE  Cardinality(Cells) \in Nat /\ Len(s) <= Cardinality(Cells)
<1>1. IsFiniteSet(Cells) /\ Cardinality(Cells) \in Nat
  BY FS_CardinalityType DEF TableAssumption, CellsAssumption
<1>2. Len(s) \in Nat /\ s \in [1 .. Len(s) -> Cells]
  <2>1. Len(s) \in Nat /\ s \in [1 .. Len(s) -> S] BY LenProperties
  <2> QED BY <2>1
<1>3. IsFiniteSet(1 .. Len(s)) /\ Cardinality(1 .. Len(s)) = Len(s)
  BY <1>2, FS_Interval
<1>4. ASSUME Cardinality(Cells) < Len(s) PROVE FALSE
  <2>1. Cardinality(Cells) < Cardinality(1 .. Len(s)) BY <1>3, <1>4
  <2>2. \E x, y \in 1 .. Len(s) : x # y /\ s[x] = s[y]
    BY <1>1, <1>2, <1>3, <2>1, FS_PigeonHole
  <2> QED BY <2>2 DEF Apiece
<1> QED BY <1>1, <1>2, <1>4
-----------------------------------------------------------------------------
\* walk[n] of ChainFrom is what its definition says it is.
Extended(w) == [q \in Pointers |-> IF q \notin DOMAIN heap THEN <<>>
                                   ELSE <<q>> \o w[heap[q].next]]
Walks(w) == \A n \in 0 .. Cardinality(Cells) : \A q \in Pointers :
               w[n][q] = IF n = 0 \/ q \notin DOMAIN heap THEN <<>>
                         ELSE <<q>> \o w[n - 1][heap[q].next]
Walked == \E w : Walks(w) /\ \A p : ChainFrom(p) = w[Cardinality(Cells)][p]

LEMMA WalkIs == ASSUME TableAssumption, Typed(heap) PROVE Walked
<1> DEFINE m == Cardinality(Cells)
           S == [Pointers -> Seq(Cells)]
           start == [q \in Pointers |-> <<>>]
           step == [p \in S \X Nat |-> Extended(p[1])]
           body(w) == [n \in 0 .. m |->
                         [q \in Pointers |-> IF n = 0 \/ q \notin DOMAIN heap THEN <<>>
                                             ELSE <<q>> \o w[n - 1][heap[q].next]]]
<1>1. m \in Nat BY FS_CardinalityType DEF TableAssumption, CellsAssumption
<1>2. start \in S
  <2>1. <<>> \in Seq(Cells) BY EmptySeq
  <2> QED BY <2>1
<1>3. step \in [S \X Nat -> S]
  <2>1. ASSUME NEW w \in S PROVE Extended(w) \in S
    <3>1. ASSUME NEW q \in Pointers, q \in DOMAIN heap
          PROVE  <<q>> \o w[heap[q].next] \in Seq(Cells)
      <4>1. heap[q].next \in Pointers /\ q \in Cells
        BY <3>1, Fields DEF Pointers, Typed
      <4>2. <<q>> \in Seq(Cells) /\ w[heap[q].next] \in Seq(Cells) BY <4>1
      <4> QED BY <4>2, ConcatProperties
    <3>2. <<>> \in Seq(Cells) BY EmptySeq
    <3> QED BY <3>1, <3>2 DEF Extended
  <2>2. \A p \in S \X Nat : p[1] \in S OBVIOUS
  <2> HIDE DEF S
  <2> QED BY <2>1, <2>2
<1>4. PICK g \in [Nat -> S] : g[0] = start /\ \A n \in Nat : g[n + 1] = step[<<g[n], n>>]
  <2> HIDE DEF S, step, start
  <2>1. \E g : Iterates(g, S, start, step) BY <1>2, <1>3, Iterate
  <2> QED BY <2>1 DEF Iterates
<1>5. \A n \in Nat : g[n + 1] = Extended(g[n])
  <2>1. ASSUME NEW n \in Nat PROVE step[<<g[n], n>>] = Extended(g[n])
    <3>1. <<g[n], n>> \in S \X Nat OBVIOUS
    <3> QED BY <3>1
  <2> QED BY <1>4, <2>1
<1> HIDE DEF step
<1> DEFINE f == [n \in 0 .. m |-> g[n]]
<1>6. f = body(f)
  <2>1. ASSUME NEW n \in 0 .. m PROVE f[n] = body(f)[n]
    <3>1. CASE n = 0 BY <1>4, <3>1
    <3>2. CASE n # 0
      <4>1. n - 1 \in Nat /\ (n - 1) + 1 = n /\ n - 1 \in 0 .. m BY <1>1, <3>2
      <4>2. f[n] = Extended(g[n - 1]) /\ f[n - 1] = g[n - 1]
        <5>1. g[(n - 1) + 1] = Extended(g[n - 1]) BY <1>5, <4>1
        <5> QED BY <4>1, <5>1
      <4>3. body(f)[n] = [q \in Pointers |-> IF q \notin DOMAIN heap THEN <<>>
                                             ELSE <<q>> \o f[n - 1][heap[q].next]]
        BY <3>2
      <4> HIDE DEF f, body
      <4> QED BY <4>2, <4>3 DEF Extended
    <3> QED BY <3>1, <3>2
  <2>2. body(f) = [n \in 0 .. m |-> body(f)[n]] OBVIOUS
  <2>3. f = [n \in 0 .. m |-> f[n]] OBVIOUS
  <2> HIDE DEF body, f
  <2> QED BY <2>1, <2>2, <2>3
<1> DEFINE walk == CHOOSE w : w = body(w)
<1>7. walk = body(walk)
  <2>1. \E w : w = body(w) BY <1>6
  <2> HIDE DEF body, f
  <2> QED BY <2>1
<1>8. \A p : ChainFrom(p) = walk[m][p] BY DEF ChainFrom
<1> HIDE DEF walk
<1>9. Walks(walk)
  <2> SUFFICES ASSUME NEW n \in 0 .. m, NEW q \in Pointers
               PROVE  walk[n][q] = IF n = 0 \/ q \notin DOMAIN heap THEN <<>>
                                   ELSE <<q>> \o walk[n - 1][heap[q].next]
    BY DEF Walks
  <2>1. walk[n] = body(walk)[n] BY <1>7, Zenon
  <2> QED BY <2>1
<1> QED BY <1>8, <1>9 DEF Walked

\* It follows the links to the end of the chain.
LEMMA ChainFromIs ==
  ASSUME TableAssumption, Typed(heap), NEW s \in Seq(DOMAIN heap), NEW p,
         Spells(s, p, heap), Apiece(s)
  PROVE  ChainFrom(p) = s
<1> DEFINE m == Cardinality(Cells)
           L == Len(s)
           from(x) == IF x <= L THEN s[x] ELSE None
<1>1. /\ L \in Nat /\ m \in Nat /\ L <= m /\ None \notin DOMAIN heap
      /\ \A x \in 1 .. L : s[x] \in DOMAIN heap /\ s[x] \in Pointers
      /\ None \in Pointers
  <2>1. L \in Nat /\ \A x \in 1 .. L : s[x] \in DOMAIN heap BY Places
  <2>2. m \in Nat /\ L <= m BY LongEnough DEF Typed
  <2> QED BY <2>1, <2>2, NoneIsNoCell DEF Typed, Pointers
<1>2. PICK w : Walks(w) /\ \A q : ChainFrom(q) = w[m][q] BY WalkIs DEF Walked
<1> DEFINE good(n, x) == L + 1 - x <= n => w[n][from(x)] = SubSeq(s, x, L)
           D == {n \in Nat : n <= m => \A x \in 1 .. L + 1 : good(n, x)}
<1>3. 0 \in D
  <2>1. ASSUME NEW x \in 1 .. L + 1, L + 1 - x <= 0 PROVE w[0][from(x)] = SubSeq(s, x, L)
    <3>1. x = L + 1 /\ from(x) = None BY <1>1, <2>1
    <3>2. SubSeq(s, x, L) = <<>> BY <1>1, <3>1, SubSeqEmpty
    <3>3. w[0][None] = <<>>
      <4>1. 0 \in 0 .. m BY <1>1
      <4> QED BY <1>1, <1>2, <4>1 DEF Walks
    <3> QED BY <3>1, <3>2, <3>3
  <2> QED BY <2>1
<1>4. ASSUME NEW n \in D PROVE n + 1 \in D
  <2> SUFFICES ASSUME n + 1 <= m, NEW x \in 1 .. L + 1, L + 1 - x <= n + 1
               PROVE  w[n + 1][from(x)] = SubSeq(s, x, L)
    <3>1. n \in Nat /\ n + 1 \in Nat OBVIOUS
    <3>2. \A x \in 1 .. L + 1 : (n + 1 <= m => good(n + 1, x)) =>
             (L + 1 - x <= n + 1 /\ n + 1 <= m => w[n + 1][from(x)] = SubSeq(s, x, L))
      OBVIOUS
    <3>3. (n + 1 <= m => \A x \in 1 .. L + 1 : good(n + 1, x)) => n + 1 \in D
      <4> HIDE DEF good
      <4> QED BY <3>1
    <3> QED BY <3>2, <3>3
  <2>1. n \in Nat /\ n <= m /\ n + 1 \in 0 .. m /\ n + 1 # 0 /\ (n + 1) - 1 = n BY <1>1
  <2>2. CASE x = L + 1
    <3>1. from(x) = None BY <1>1, <2>2
    <3>2. SubSeq(s, x, L) = <<>> BY <1>1, <2>2, SubSeqEmpty
    <3>3. w[n + 1][None] = <<>> BY <1>1, <1>2, <2>1 DEF Walks
    <3> QED BY <3>1, <3>2, <3>3
  <2>3. CASE x # L + 1
    <3>1. x \in 1 .. L /\ x + 1 \in 1 .. L + 1 /\ L + 1 - (x + 1) <= n /\ from(x) = s[x]
      BY <1>1, <2>1, <2>3
    <3>2. w[n][from(x + 1)] = SubSeq(s, x + 1, L) BY <2>1, <3>1
    <3>3. heap[s[x]].next = from(x + 1)
      <4>1. heap[s[x]].next = IF x = L THEN None ELSE s[x + 1] BY <3>1 DEF Spells
      <4>2. x = L <=> ~(x + 1 <= L) BY <1>1, <3>1
      <4> QED BY <4>1, <4>2
    <3>4. w[n + 1][s[x]] = <<s[x]>> \o w[n][heap[s[x]].next]
      <4>1. s[x] \in DOMAIN heap /\ s[x] \in Pointers BY <1>1, <3>1
      <4>2. \A q \in Pointers :
               w[n + 1][q] = IF n + 1 = 0 \/ q \notin DOMAIN heap THEN <<>>
                             ELSE <<q>> \o w[(n + 1) - 1][heap[q].next]
        <5>1. Walks(w) /\ n + 1 \in 0 .. Cardinality(Cells) BY <1>2, <2>1
        <5> QED BY <5>1 DEF Walks
      <4> QED BY <2>1, <4>1, <4>2
    <3>5. SubSeq(s, x, L) = <<s[x]>> \o SubSeq(s, x + 1, L)
      <4>1. L \in x .. L BY <1>1, <3>1
      <4> QED BY <3>1, <4>1, SubSeqRecursiveFirst
    <3> HIDE DEF from
    <3> QED BY <3>1, <3>2, <3>3, <3>4, <3>5
  <2> QED BY <2>2, <2>3
<1>5. m \in D
  <2>1. D \in SUBSET Nat OBVIOUS
  <2> HIDE DEF D
  <2>2. D = Nat BY <1>3, <1>4, <2>1, Induct
  <2> QED BY <1>1, <2>2
<1>6. w[m][from(1)] = SubSeq(s, 1, L)
  <2>1. 1 \in 1 .. L + 1 /\ L + 1 - 1 <= m /\ m <= m BY <1>1
  <2>2. good(m, 1)
    <3> HIDE DEF good
    <3> QED BY <1>5, <2>1
  <2> QED BY <2>1, <2>2
<1>7. p = from(1) BY <1>1 DEF Spells
<1>8. SubSeq(s, 1, L) = s BY SubSeqFull
<1> HIDE DEF from
<1> QED BY <1>2, <1>6, <1>7, <1>8

LEMMA ChainIs ==
  ASSUME TableAssumption, Typed(heap), NEW c, Chained(c, bucket, heap, size),
         NEW i \in 0 .. size - 1
  PROVE  Chain(i) = c[i] /\ c[i] \in Seq(DOMAIN heap)
BY ChainFromIs DEF Chained, Chain
-----------------------------------------------------------------------------
LEMMA Joined ==
  ASSUME NEW S, NEW a \in Seq(S), NEW b \in Seq(S)
  PROVE  /\ a \o b \in Seq(S)
         /\ Range(a \o b) = Range(a) \cup Range(b)
         /\ Apiece(a) /\ Apiece(b) /\ Range(a) \cap Range(b) = {} => Apiece(a \o b)
<1> DEFINE c == a \o b
<1>1. /\ c \in Seq(S) /\ Len(c) = Len(a) + Len(b)
      /\ \A x \in 1 .. Len(a) + Len(b) :
            c[x] = IF x <= Len(a) THEN a[x] ELSE b[x - Len(a)]
  BY ConcatProperties
<1>2. Range(c) = Range(a) \cup Range(b) BY RangeConcatenation
<1>3. Len(a) \in Nat /\ Len(b) \in Nat BY Places
<1> HIDE DEF c
<1>4. ASSUME NEW x \in 1 .. Len(a) + Len(b)
      PROVE  \/ x \in 1 .. Len(a) /\ c[x] = a[x] /\ c[x] \in Range(a)
             \/ /\ x - Len(a) \in 1 .. Len(b) /\ c[x] = b[x - Len(a)]
                /\ c[x] \in Range(b)
  <2>1. CASE x <= Len(a)
    <3>1. x \in 1 .. Len(a) /\ c[x] = a[x] BY <1>1, <1>3, <2>1
    <3> QED BY <3>1, Places
  <2>2. CASE ~(x <= Len(a))
    <3>1. x - Len(a) \in 1 .. Len(b) /\ c[x] = b[x - Len(a)] BY <1>1, <1>3, <2>2
    <3> QED BY <3>1, Places
  <2> QED BY <2>1, <2>2
<1>5. ASSUME Apiece(a), Apiece(b), Range(a) \cap Range(b) = {},
             NEW x \in 1 .. Len(a) + Len(b), NEW y \in 1 .. Len(a) + Len(b), c[x] = c[y]
      PROVE  x = y
  <2>1. CASE x \in 1 .. Len(a) /\ c[x] = a[x] /\ c[x] \in Range(a)
    <3>1. y \in 1 .. Len(a) /\ c[y] = a[y] BY <1>4, <1>5, <2>1
    <3> QED BY <1>5, <2>1, <3>1 DEF Apiece
  <2>2. CASE /\ x - Len(a) \in 1 .. Len(b) /\ c[x] = b[x - Len(a)]
             /\ c[x] \in Range(b)
    <3>1. y - Len(a) \in 1 .. Len(b) /\ c[y] = b[y - Len(a)] BY <1>4, <1>5, <2>2
    <3>2. x - Len(a) = y - Len(a) BY <1>5, <2>2, <3>1 DEF Apiece
    <3> QED BY <1>3, <3>2
  <2> QED BY <1>4, <2>1, <2>2
<1> QED BY <1>1, <1>2, <1>5 DEF c, Apiece

\* upto[i] of Entries is what its definition says it is.
Upto(u) == /\ u[0] = <<>>
           /\ \A i \in Nat : i < size => u[i + 1] = u[i] \o Chain(i)
Joins == \E u : Upto(u) /\ Entries = u[size]

LEMMA UptoIs ==
  ASSUME size \in Nat, NEW S, \A i \in 0 .. size - 1 : Chain(i) \in Seq(S)
  PROVE  Joins
<1> DEFINE step == [p \in Seq(S) \X Nat |-> IF p[2] < size THEN p[1] \o Chain(p[2]) ELSE p[1]]
           body(u) == [i \in 0 .. size |-> IF i = 0 THEN <<>> ELSE u[i - 1] \o Chain(i - 1)]
<1>1. <<>> \in Seq(S) BY EmptySeq
<1>2. step \in [Seq(S) \X Nat -> Seq(S)]
  <2>1. ASSUME NEW s \in Seq(S), NEW i \in Nat, i < size PROVE s \o Chain(i) \in Seq(S)
    <3>1. i \in 0 .. size - 1 BY <2>1
    <3>2. Chain(i) \in Seq(S) BY <3>1
    <3> QED BY <3>2, ConcatProperties
  <2>2. \A p \in Seq(S) \X Nat : p[1] \in Seq(S) /\ p[2] \in Nat OBVIOUS
  <2> QED BY <2>1, <2>2
<1>3. PICK g \in [Nat -> Seq(S)] : /\ g[0] = <<>>
                                   /\ \A n \in Nat : g[n + 1] = step[<<g[n], n>>]
  <2> HIDE DEF step
  <2>1. \E g : Iterates(g, Seq(S), <<>>, step) BY <1>1, <1>2, Iterate
  <2> QED BY <2>1 DEF Iterates
<1>4. \A n \in Nat : n < size => g[n + 1] = g[n] \o Chain(n)
  <2>1. ASSUME NEW n \in Nat, n < size PROVE step[<<g[n], n>>] = g[n] \o Chain(n)
    <3>1. <<g[n], n>> \in Seq(S) \X Nat OBVIOUS
    <3> QED BY <2>1, <3>1
  <2> QED BY <1>3, <2>1
<1> HIDE DEF step
<1> DEFINE f == [i \in 0 .. size |-> g[i]]
<1>5. f = body(f)
  <2>1. ASSUME NEW i \in 0 .. size PROVE f[i] = body(f)[i]
    <3>1. CASE i = 0 BY <1>3, <3>1
    <3>2. CASE i # 0
      <4>1. i - 1 \in Nat /\ (i - 1) + 1 = i /\ i - 1 \in 0 .. size /\ i - 1 < size BY <3>2
      <4>2. f[i] = g[i - 1] \o Chain(i - 1) /\ f[i - 1] = g[i - 1]
        <5>1. g[(i - 1) + 1] = g[i - 1] \o Chain(i - 1) BY <1>4, <4>1
        <5> QED BY <4>1, <5>1
      <4>3. body(f)[i] = f[i - 1] \o Chain(i - 1) BY <3>2
      <4> HIDE DEF f, body
      <4> QED BY <4>2, <4>3
    <3> QED BY <3>1, <3>2
  <2>2. body(f) = [i \in 0 .. size |-> body(f)[i]] OBVIOUS
  <2>3. f = [i \in 0 .. size |-> f[i]] OBVIOUS
  <2> HIDE DEF body, f
  <2> QED BY <2>1, <2>2, <2>3
<1> DEFINE upto == CHOOSE u : u = body(u)
<1>6. upto = body(upto)
  <2>1. \E u : u = body(u) BY <1>5
  <2> HIDE DEF body, f
  <2> QED BY <2>1
<1>7. Entries = upto[size] BY DEF Entries
<1> HIDE DEF upto
<1>8. Upto(upto)
  <2>1. \A i \in 0 .. size : upto[i] = body(upto)[i] BY <1>6, Zenon
  <2>2. upto[0] = <<>>
    <3>1. 0 \in 0 .. size OBVIOUS
    <3> QED BY <2>1, <3>1
  <2>3. ASSUME NEW i \in Nat, i < size PROVE upto[i + 1] = upto[i] \o Chain(i)
    <3>1. i + 1 \in 0 .. size /\ i + 1 # 0 /\ (i + 1) - 1 = i BY <2>3
    <3> QED BY <2>1, <3>1
  <2> QED BY <2>2, <2>3 DEF Upto
<1> QED BY <1>7, <1>8 DEF Joins

\* The loops over the table meet each entry of a chain, and none twice.
LEMMA EntriesAre ==
  ASSUME TableAssumption, Typed(heap), size \in Nat, NEW c, Chained(c, bucket, heap, size),
         NEW P, Has(c, size, P)
  PROVE  Entries \in Seq(DOMAIN heap) /\ Apiece(Entries) /\ Range(Entries) = P
<1> DEFINE S == DOMAIN heap
<1>1. \A i \in 0 .. size - 1 : /\ Chain(i) = c[i] /\ c[i] \in Seq(S) /\ Apiece(c[i])
                               /\ Home(c[i], i, size, heap)
  BY ChainIs DEF Chained
<1>2. PICK u : Upto(u) /\ Entries = u[size] BY <1>1, UptoIs DEF Joins
<1> DEFINE good(i) == /\ u[i] \in Seq(S) /\ Apiece(u[i])
                      /\ \A q : q \in Range(u[i]) <=>
                            \E j \in 0 .. i - 1 : \E x \in 1 .. Len(c[j]) : c[j][x] = q
           D == {i \in Nat : i <= size => good(i)}
<1>3. 0 \in D
  <2>1. u[0] = <<>> /\ <<>> \in Seq(S) /\ Len(<<>>) = 0 BY <1>2, EmptySeq DEF Upto
  <2>2. \A q : q \in Range(<<>>) <=> \E x \in 1 .. Len(<<>>) : <<>>[x] = q
    BY <2>1, Places
  <2>3. \A q : q \notin Range(<<>>) BY <2>1, <2>2
  <2>4. Apiece(<<>>) BY <2>1 DEF Apiece
  <2>5. \A j : j \notin 0 .. 0 - 1 OBVIOUS
  <2>6. good(0) BY <2>1, <2>3, <2>4, <2>5
  <2> HIDE DEF good
  <2> QED BY <2>6
<1>4. ASSUME NEW i \in D PROVE i + 1 \in D
  <2> SUFFICES ASSUME i + 1 <= size PROVE good(i + 1)
    <3>1. i \in Nat /\ i + 1 \in Nat OBVIOUS
    <3> HIDE DEF good
    <3> QED BY <3>1
  <2>1. i \in Nat /\ i < size /\ i \in 0 .. size - 1 /\ good(i)
    <3> HIDE DEF good
    <3>1. i \in Nat /\ (i <= size => good(i)) OBVIOUS
    <3>2. i < size /\ i <= size BY <3>1
    <3> HIDE DEF D
    <3> QED BY <3>1, <3>2
  <2>2. u[i + 1] = u[i] \o c[i] BY <1>1, <1>2, <2>1 DEF Upto
  <2>3. c[i] \in Seq(S) /\ Apiece(c[i])
        /\ \A q : q \in Range(c[i]) <=> \E x \in 1 .. Len(c[i]) : c[i][x] = q
    BY <1>1, <2>1, Places
  <2>4. Range(u[i]) \cap Range(c[i]) = {}
    <3> SUFFICES ASSUME NEW q, q \in Range(u[i]), q \in Range(c[i]) PROVE FALSE
      OBVIOUS
    <3>1. PICK j \in 0 .. i - 1 : \E x \in 1 .. Len(c[j]) : c[j][x] = q BY <2>1
    <3>2. j \in 0 .. size - 1 /\ j # i BY <2>1
    <3>3. Index(heap[q].key, size) = j BY <1>1, <3>1, <3>2 DEF Home
    <3>4. Index(heap[q].key, size) = i
      <4>1. PICK x \in 1 .. Len(c[i]) : c[i][x] = q BY <2>3
      <4> QED BY <1>1, <2>1, <4>1 DEF Home
    <3> QED BY <3>2, <3>3, <3>4
  <2>5. /\ u[i + 1] \in Seq(S) /\ Apiece(u[i + 1])
        /\ Range(u[i + 1]) = Range(u[i]) \cup Range(c[i])
    BY <2>1, <2>2, <2>3, <2>4, Joined
  <2>6. ASSUME NEW q
        PROVE  q \in Range(u[i + 1]) <=>
                  \E j \in 0 .. (i + 1) - 1 : \E x \in 1 .. Len(c[j]) : c[j][x] = q
    <3>1. \A j : j \in 0 .. (i + 1) - 1 <=> j \in 0 .. i - 1 \/ j = i BY <2>1
    <3> QED BY <2>1, <2>3, <2>5, <3>1
  <2> QED BY <2>5, <2>6
<1>5. good(size)
  <2> HIDE DEF good
  <2>1. D \in SUBSET Nat OBVIOUS
  <2>2. D = Nat
    <3> HIDE DEF D
    <3> QED BY <1>3, <1>4, <2>1, Induct
  <2>3. size <= size OBVIOUS
  <2> QED BY <2>2, <2>3
<1> QED BY <1>2, <1>5 DEF Has
-----------------------------------------------------------------------------
\* search[n] of Found is what its definition says it is.
Sought(w, k) == [q \in Pointers |-> IF q \notin DOMAIN heap THEN None
                                    ELSE IF heap[q].key = k THEN q ELSE w[heap[q].next]]
Searches(w, k) ==
    \A n \in 0 .. Cardinality(Cells) : \A q \in Pointers :
        w[n][q] = IF n = 0 \/ q \notin DOMAIN heap THEN None
                  ELSE IF heap[q].key = k THEN q ELSE w[n - 1][heap[q].next]
Searched(k) ==
    \E w : Searches(w, k) /\ Found(k) = w[Cardinality(Cells)][bucket[Index(k, size)]]

LEMMA SearchIs == ASSUME TableAssumption, Typed(heap), NEW k PROVE Searched(k)
<1> DEFINE m == Cardinality(Cells)
           S == [Pointers -> Pointers]
           start == [q \in Pointers |-> None]
           step == [p \in S \X Nat |-> Sought(p[1], k)]
           body(w) == [n \in 0 .. m |->
                         [q \in Pointers |-> IF n = 0 \/ q \notin DOMAIN heap THEN None
                                             ELSE IF heap[q].key = k THEN q
                                             ELSE w[n - 1][heap[q].next]]]
<1>1. m \in Nat BY FS_CardinalityType DEF TableAssumption, CellsAssumption
<1>2. start \in S BY DEF Pointers
<1>3. step \in [S \X Nat -> S]
  <2>1. ASSUME NEW w \in S PROVE Sought(w, k) \in S
    <3>1. ASSUME NEW q \in Pointers, q \in DOMAIN heap PROVE w[heap[q].next] \in Pointers
      <4>1. heap[q].next \in Pointers BY <3>1, Fields DEF Pointers, Typed
      <4> QED BY <4>1
    <3>2. None \in Pointers BY DEF Pointers
    <3> QED BY <3>1, <3>2 DEF Sought
  <2>2. \A p \in S \X Nat : p[1] \in S OBVIOUS
  <2> HIDE DEF S
  <2> QED BY <2>1, <2>2
<1>4. PICK g \in [Nat -> S] : g[0] = start /\ \A n \in Nat : g[n + 1] = step[<<g[n], n>>]
  <2> HIDE DEF S, step, start
  <2>1. \E g : Iterates(g, S, start, step) BY <1>2, <1>3, Iterate
  <2> QED BY <2>1 DEF Iterates
<1>5. \A n \in Nat : g[n + 1] = Sought(g[n], k)
  <2>1. ASSUME NEW n \in Nat PROVE step[<<g[n], n>>] = Sought(g[n], k)
    <3>1. <<g[n], n>> \in S \X Nat OBVIOUS
    <3> QED BY <3>1
  <2> QED BY <1>4, <2>1
<1> HIDE DEF step
<1> DEFINE f == [n \in 0 .. m |-> g[n]]
<1>6. f = body(f)
  <2>1. ASSUME NEW n \in 0 .. m PROVE f[n] = body(f)[n]
    <3>1. CASE n = 0 BY <1>4, <3>1
    <3>2. CASE n # 0
      <4>1. n - 1 \in Nat /\ (n - 1) + 1 = n /\ n - 1 \in 0 .. m BY <1>1, <3>2
      <4>2. f[n] = Sought(g[n - 1], k) /\ f[n - 1] = g[n - 1]
        <5>1. g[(n - 1) + 1] = Sought(g[n - 1], k) BY <1>5, <4>1
        <5> QED BY <4>1, <5>1
      <4>3. body(f)[n] = [q \in Pointers |-> IF q \notin DOMAIN heap THEN None
                                             ELSE IF heap[q].key = k THEN q
                                             ELSE f[n - 1][heap[q].next]]
        BY <3>2
      <4> HIDE DEF f, body
      <4> QED BY <4>2, <4>3 DEF Sought
    <3> QED BY <3>1, <3>2
  <2>2. body(f) = [n \in 0 .. m |-> body(f)[n]] OBVIOUS
  <2>3. f = [n \in 0 .. m |-> f[n]] OBVIOUS
  <2> HIDE DEF body, f
  <2> QED BY <2>1, <2>2, <2>3
<1> DEFINE search == CHOOSE w : w = body(w)
<1>7. search = body(search)
  <2>1. \E w : w = body(w) BY <1>6
  <2> HIDE DEF body, f
  <2> QED BY <2>1
<1>8. Found(k) = search[m][bucket[Index(k, size)]] BY DEF Found
<1> HIDE DEF search
<1>9. Searches(search, k)
  <2> SUFFICES ASSUME NEW n \in 0 .. m, NEW q \in Pointers
               PROVE  search[n][q] = IF n = 0 \/ q \notin DOMAIN heap THEN None
                                     ELSE IF heap[q].key = k THEN q
                                     ELSE search[n - 1][heap[q].next]
    BY DEF Searches
  <2>1. search[n] = body(search)[n] BY <1>7, Zenon
  <2> QED BY <2>1
<1> QED BY <1>8, <1>9 DEF Searched

\* It finds the entry with the key, if there is one.
Right(q, k) == \/ q = None /\ \A e \in DOMAIN heap : heap[e].key # k
               \/ q \in DOMAIN heap /\ heap[q].key = k

LEMMA FoundIs ==
  ASSUME TableAssumption, Typed(heap), size \in Nat \ {0}, NEW c,
         Chained(c, bucket, heap, size), Has(c, size, DOMAIN heap), NEW k \in Keys
  PROVE  Right(Found(k), k)
<1> DEFINE m == Cardinality(Cells)
           i == Index(k, size)
           s == c[i]
           L == Len(s)
           from(x) == IF x <= L THEN s[x] ELSE None
<1>1. /\ i \in 0 .. size - 1 /\ s \in Seq(DOMAIN heap) /\ Spells(s, bucket[i], heap)
      /\ Apiece(s)
  BY Slots DEF Chained
<1> HIDE DEF i
<1>2. /\ L \in Nat /\ m \in Nat /\ L <= m /\ None \notin DOMAIN heap
      /\ \A x \in 1 .. L : s[x] \in DOMAIN heap /\ s[x] \in Pointers
      /\ None \in Pointers
  <2>1. L \in Nat /\ \A x \in 1 .. L : s[x] \in DOMAIN heap BY <1>1, Places
  <2>2. m \in Nat /\ L <= m BY <1>1, LongEnough DEF Typed
  <2> QED BY <2>1, <2>2, NoneIsNoCell DEF Typed, Pointers
<1>3. PICK w : Searches(w, k) /\ Found(k) = w[m][bucket[i]] BY SearchIs DEF Searched, i
<1> HIDE DEF s
<1> DEFINE ok(r, x) == \/ r = None /\ \A y \in x .. L : heap[s[y]].key # k
                       \/ r \in DOMAIN heap /\ heap[r].key = k
           good(n, x) == L + 1 - x <= n => ok(w[n][from(x)], x)
           D == {n \in Nat : n <= m => \A x \in 1 .. L + 1 : good(n, x)}
<1>4. ASSUME NEW n \in 0 .. m PROVE ok(w[n][from(L + 1)], L + 1)
  <2>1. from(L + 1) = None BY <1>2
  <2>2. w[n][None] = None BY <1>2, <1>3 DEF Searches
  <2>3. \A y : y \notin L + 1 .. L BY <1>2
  <2> HIDE DEF from
  <2> QED BY <2>1, <2>2, <2>3
<1>5. 0 \in D
  <2>1. ASSUME NEW x \in 1 .. L + 1 PROVE good(0, x)
    <3>1. 0 \in 0 .. m BY <1>2
    <3>2. CASE x = L + 1 BY <1>4, <3>1, <3>2
    <3>3. CASE x # L + 1
      <4>1. ~(L + 1 - x <= 0) BY <1>2, <3>3
      <4> HIDE DEF ok
      <4> QED BY <4>1
    <3> QED BY <3>2, <3>3
  <2> HIDE DEF good
  <2> QED BY <2>1
<1>6. ASSUME NEW n \in D PROVE n + 1 \in D
  <2> SUFFICES ASSUME n + 1 <= m, NEW x \in 1 .. L + 1 PROVE good(n + 1, x)
    <3>1. n \in Nat /\ n + 1 \in Nat OBVIOUS
    <3> HIDE DEF good
    <3> QED BY <3>1
  <2>1. n \in Nat /\ n <= m /\ n + 1 \in 0 .. m /\ n + 1 # 0 /\ (n + 1) - 1 = n BY <1>2
  <2>2. CASE x = L + 1 BY <1>4, <2>1, <2>2
  <2>3. CASE x # L + 1
    <3> SUFFICES ASSUME L + 1 - x <= n + 1 PROVE ok(w[n + 1][from(x)], x)
      OBVIOUS
    <3>1. x \in 1 .. L /\ x + 1 \in 1 .. L + 1 /\ L + 1 - (x + 1) <= n /\ from(x) = s[x]
      BY <1>2, <2>1, <2>3
    <3>2. ok(w[n][from(x + 1)], x + 1)
      <4>1. good(n, x + 1)
        <5> HIDE DEF good
        <5> QED BY <2>1, <3>1
      <4> HIDE DEF ok
      <4> QED BY <3>1, <4>1
    <3>3. heap[s[x]].next = from(x + 1)
      <4>1. heap[s[x]].next = IF x = L THEN None ELSE s[x + 1] BY <1>1, <3>1 DEF Spells
      <4>2. x = L <=> ~(x + 1 <= L) BY <1>2, <3>1
      <4> QED BY <4>1, <4>2
    <3>4. w[n + 1][s[x]] = IF heap[s[x]].key = k THEN s[x] ELSE w[n][heap[s[x]].next]
      BY <1>2, <1>3, <2>1, <3>1 DEF Searches
    <3>5. \A y \in x .. L : y = x \/ y \in x + 1 .. L BY <1>2
    <3> HIDE DEF from
    <3>6. CASE heap[s[x]].key = k BY <1>2, <3>1, <3>4, <3>6
    <3>7. CASE heap[s[x]].key # k BY <3>1, <3>2, <3>3, <3>4, <3>5, <3>7
    <3> QED BY <3>6, <3>7
  <2> QED BY <2>2, <2>3
<1>7. ok(w[m][from(1)], 1)
  <2>1. D = Nat
    <3>1. D \in SUBSET Nat OBVIOUS
    <3> HIDE DEF D
    <3> QED BY <1>5, <1>6, <3>1, Induct
  <2>2. 1 \in 1 .. L + 1 /\ L + 1 - 1 <= m /\ m <= m BY <1>2
  <2>3. good(m, 1)
    <3> HIDE DEF good
    <3> QED BY <1>2, <2>1, <2>2
  <2> HIDE DEF ok
  <2> QED BY <2>2, <2>3
<1>8. bucket[i] = from(1) BY <1>1, <1>2 DEF Spells
<1>9. ok(Found(k), 1)
  <2> HIDE DEF from, ok
  <2> QED BY <1>3, <1>7, <1>8
<1>10. ASSUME NEW e \in DOMAIN heap, heap[e].key = k PROVE \E y \in 1 .. L : s[y] = e
  <2>1. PICK j \in 0 .. size - 1 : \E x \in 1 .. Len(c[j]) : c[j][x] = e BY DEF Has
  <2>2. Index(heap[e].key, size) = j BY <2>1 DEF Chained, Home
  <2> QED BY <1>10, <2>1, <2>2 DEF i, s
<1> QED BY <1>9, <1>10 DEF Right
-----------------------------------------------------------------------------
LEMMA InFront ==
  ASSUME NEW S, NEW p \in S, NEW s \in Seq(S)
  PROVE  /\ <<p>> \o s \in Seq(S) /\ Len(<<p>> \o s) = Len(s) + 1
         /\ (<<p>> \o s)[1] = p
         /\ \A x \in 1 .. Len(s) : (<<p>> \o s)[x + 1] = s[x]
         /\ \A y \in 1 .. Len(s) + 1 : y = 1 \/ y - 1 \in 1 .. Len(s)
<1>1. <<p>> \in Seq(S) /\ Len(<<p>>) = 1 /\ <<p>>[1] = p /\ Len(s) \in Nat
  BY LenProperties
<1> DEFINE c == <<p>> \o s
<1>2. /\ c \in Seq(S) /\ Len(c) = 1 + Len(s)
      /\ \A x \in 1 .. 1 + Len(s) : c[x] = IF x <= 1 THEN <<p>>[x] ELSE s[x - 1]
  BY <1>1, ConcatProperties
<1> HIDE DEF c
<1>3. c[1] = p
  <2>1. 1 \in 1 .. 1 + Len(s) BY <1>1
  <2> QED BY <1>1, <1>2, <2>1
<1>4. ASSUME NEW x \in 1 .. Len(s) PROVE c[x + 1] = s[x]
  <2>1. x + 1 \in 1 .. 1 + Len(s) /\ ~(x + 1 <= 1) /\ (x + 1) - 1 = x BY <1>1
  <2> QED BY <1>2, <2>1
<1>5. \A y \in 1 .. Len(s) + 1 : y = 1 \/ y - 1 \in 1 .. Len(s) BY <1>1
<1>6. Len(c) = Len(s) + 1 BY <1>1, <1>2
<1> QED BY <1>2, <1>3, <1>4, <1>5, <1>6 DEF c

\* A store with the entries P linked into chains, keys and values those of h.
Store(s, c, n, P, h) ==
    /\ Typed(s.heap) /\ DOMAIN s.heap = DOMAIN h /\ s.bucket \in Heads(n, h)
    /\ Chained(c, s.bucket, s.heap, n) /\ Has(c, n, P)
    /\ \A q \in DOMAIN h : s.heap[q].key = h[q].key /\ s.heap[q].value = h[q].value

\* What Push does to each entry.
LEMMA PushFields ==
  ASSUME TableAssumption, NEW s, NEW p, NEW i, Typed(s.heap), p \in DOMAIN s.heap,
         s.bucket[i] \in DOMAIN s.heap \cup {None}, s.bucket[i] # p,
         NEW q \in DOMAIN s.heap
  PROVE  LET g == Push(s, p, i).heap
             f == s.heap
         IN  /\ g[q] \in Entry(DOMAIN f)
             /\ g[q].key = f[q].key /\ g[q].value = f[q].value
             /\ q = p => g[q].prev = None /\ g[q].next = s.bucket[i]
             /\ q # p /\ q = s.bucket[i] => g[q].prev = p /\ g[q].next = f[q].next
             /\ q # p /\ q # s.bucket[i] => g[q] = f[q]
<1> DEFINE g == Push(s, p, i).heap
           f == s.heap
           b == s.bucket[i]
<1>1. f[q] \in Entry(DOMAIN f) BY DEF Typed
<1>2. g[q] = CASE q = p -> [f[q] EXCEPT !.prev = None, !.next = b]
               [] q = b /\ q # p -> [f[q] EXCEPT !.prev = p]
               [] OTHER -> f[q]
  BY DEF Push
<1> HIDE DEF g, f, b
<1>3. p \in DOMAIN f /\ b \in DOMAIN f \cup {None} BY DEF f, b
<1>4. CASE q = p
  <2>1. g[q] = [f[q] EXCEPT !.prev = None, !.next = b] BY <1>2, <1>4
  <2>2. /\ g[q] \in Entry(DOMAIN f) /\ g[q].key = f[q].key /\ g[q].value = f[q].value
        /\ g[q].prev = None /\ g[q].next = b
    BY <1>1, <1>3, <2>1 DEF Entry
  <2> QED BY <1>4, <2>2 DEF g, f, b
<1>5. CASE q # p /\ q = b
  <2>1. g[q] = [f[q] EXCEPT !.prev = p] BY <1>2, <1>5
  <2>2. /\ g[q] \in Entry(DOMAIN f) /\ g[q].key = f[q].key /\ g[q].value = f[q].value
        /\ g[q].prev = p /\ g[q].next = f[q].next
    BY <1>1, <1>3, <2>1 DEF Entry
  <2> QED BY <1>5, <2>2 DEF g, f, b
<1>6. CASE q # p /\ q # b
  <2>1. g[q] = f[q] BY <1>2, <1>6
  <2> QED BY <1>1, <1>6, <2>1 DEF g, f, b
<1> QED BY <1>4, <1>5, <1>6

LEMMA PushIs ==
  ASSUME TableAssumption, NEW n \in Nat \ {0}, NEW s, NEW c, NEW P, NEW h,
         Store(s, c, n, P, h), NEW p \in DOMAIN h, p \notin P, NEW i,
         i = Index(h[p].key, n)
  PROVE  Store(Push(s, p, i), [c EXCEPT ![i] = <<p>> \o c[i]], n, P \cup {p}, h)
<1> DEFINE t == Push(s, p, i)
           d == [c EXCEPT ![i] = <<p>> \o c[i]]
           f == s.heap
           g == t.heap
           b == s.bucket[i]
           S == DOMAIN h
<1>1. /\ i \in 0 .. n - 1 /\ f[p].key = h[p].key /\ DOMAIN f = S /\ Typed(f)
      /\ s.bucket \in [0 .. n - 1 -> S \cup {None}] /\ b \in S \cup {None}
      /\ None \notin S
  <2>1. DOMAIN f = S /\ Typed(f) /\ f[p].key = h[p].key /\ s.bucket \in Heads(n, h)
    BY DEF Store
  <2>2. f[p].key \in Keys BY <2>1, Fields
  <2>3. i \in 0 .. n - 1 BY <2>1, <2>2, Slots
  <2>4. None \notin S BY <2>1, NoneIsNoCell DEF Typed
  <2> QED BY <2>1, <2>3, <2>4 DEF Heads
<1>2. /\ c \in [0 .. n - 1 -> Seq(S)]
      /\ \A j \in 0 .. n - 1 : /\ c[j] \in Seq(S) /\ Len(c[j]) \in Nat
                               /\ Spells(c[j], s.bucket[j], f) /\ Apiece(c[j])
                               /\ Home(c[j], j, n, f)
                               /\ \A x \in 1 .. Len(c[j]) : c[j][x] \in S /\ c[j][x] \in P
  <2>1. Chained(c, s.bucket, f, n) /\ Has(c, n, P) BY DEF Store
  <2>2. c \in [0 .. n - 1 -> Seq(S)] BY <1>1, <2>1 DEF Chained
  <2>3. ASSUME NEW j \in 0 .. n - 1
        PROVE  /\ c[j] \in Seq(S) /\ Len(c[j]) \in Nat
               /\ \A x \in 1 .. Len(c[j]) : c[j][x] \in S /\ c[j][x] \in P
    <3>1. c[j] \in Seq(S) BY <2>2
    <3>2. Len(c[j]) \in Nat /\ \A x \in 1 .. Len(c[j]) : c[j][x] \in S BY <3>1, Places
    <3> QED BY <2>1, <3>1, <3>2 DEF Has
  <2> HIDE DEF S, f
  <2> QED BY <2>1, <2>2, <2>3 DEF Chained
<1>3. /\ b = None => Len(c[i]) = 0
      /\ b # None => Len(c[i]) > 0 /\ b = c[i][1] /\ b \in P
  <2>1. b = IF Len(c[i]) = 0 THEN None ELSE c[i][1] BY <1>1, <1>2 DEF Spells
  <2>2. Len(c[i]) \in Nat /\ \A x \in 1 .. Len(c[i]) : c[i][x] \in S /\ c[i][x] \in P
    BY <1>1, <1>2
  <2> HIDE DEF S, b
  <2>3. CASE Len(c[i]) = 0 BY <2>1, <2>3
  <2>4. CASE Len(c[i]) # 0
    <3>1. 1 \in 1 .. Len(c[i]) BY <2>2, <2>4
    <3> QED BY <1>1, <2>1, <2>2, <2>4, <3>1
  <2> QED BY <2>3, <2>4
<1>4. b # p BY <1>1, <1>3
<1>5. ASSUME NEW q \in S
      PROVE  /\ g[q] \in Entry(S) /\ g[q].key = f[q].key /\ g[q].value = f[q].value
             /\ q = p => g[q].prev = None /\ g[q].next = b
             /\ q # p /\ q = b => g[q].prev = p /\ g[q].next = f[q].next
             /\ q # p /\ q # b => g[q] = f[q]
  <2>1. q \in DOMAIN s.heap /\ p \in DOMAIN s.heap /\ DOMAIN s.heap = S BY <1>1
  <2> QED BY <1>1, <1>4, <2>1, PushFields
<1>6. /\ t.bucket = [s.bucket EXCEPT ![i] = p] /\ DOMAIN g = S
      /\ g = [q \in S |-> g[q]]
  BY <1>1 DEF Push
<1> HIDE DEF t, f, g, b
<1>7. /\ t.bucket \in Heads(n, h) /\ t.bucket[i] = p
      /\ \A j \in 0 .. n - 1 : j # i => t.bucket[j] = s.bucket[j]
  BY <1>1, <1>6 DEF Heads
<1>8. /\ d \in [0 .. n - 1 -> Seq(S)] /\ d[i] = <<p>> \o c[i]
      /\ \A j \in 0 .. n - 1 : j # i => d[j] = c[j]
  <2>1. <<p>> \o c[i] \in Seq(S) BY <1>1, <1>2, InFront
  <2> QED BY <1>1, <1>2, <2>1
<1> HIDE DEF d
<1>9. Typed(g)
  <2>1. S \subseteq Cells BY <1>1 DEF Typed
  <2> HIDE DEF S
  <2> QED BY <1>5, <1>6, <2>1 DEF Typed
<1>10. ASSUME NEW j \in 0 .. n - 1, j # i
       PROVE  Spells(d[j], t.bucket[j], g) /\ Apiece(d[j]) /\ Home(d[j], j, n, g)
  <2>1. ASSUME NEW x \in 1 .. Len(c[j]) PROVE g[c[j][x]] = f[c[j][x]]
    <3>1. c[j][x] \in S /\ c[j][x] # p BY <1>2
    <3>2. c[j][x] # b
      <4> SUFFICES ASSUME c[j][x] = b PROVE FALSE OBVIOUS
      <4>1. b # None /\ 1 \in 1 .. Len(c[i]) /\ b = c[i][1]
        <5>1. b # None BY <1>1, <3>1
        <5>2. Len(c[i]) \in Nat BY <1>1, <1>2
        <5> QED BY <1>3, <5>1, <5>2
      <4>2. Index(f[b].key, n) = i BY <1>1, <1>2, <4>1 DEF Home
      <4>3. Index(f[b].key, n) = j BY <1>2 DEF Home
      <4> QED BY <1>10, <4>2, <4>3
    <3> QED BY <1>5, <3>1, <3>2
  <2>2. d[j] = c[j] /\ t.bucket[j] = s.bucket[j] BY <1>7, <1>8, <1>10
  <2>3. Spells(c[j], s.bucket[j], g) BY <1>2, <2>1 DEF Spells
  <2>4. Home(c[j], j, n, g) BY <1>2, <2>1 DEF Home
  <2> QED BY <1>2, <2>2, <2>3, <2>4
<1>11. Spells(d[i], t.bucket[i], g) /\ Apiece(d[i]) /\ Home(d[i], i, n, g)
  <2> DEFINE u == c[i]
             v == d[i]
             L == Len(u)
  <2>1. /\ L \in Nat /\ u \in Seq(S) /\ Spells(u, b, f) /\ Apiece(u) /\ Home(u, i, n, f)
        /\ \A x \in 1 .. L : u[x] \in S /\ u[x] # p
    BY <1>1, <1>2 DEF b
  <2>2. /\ Len(v) = L + 1 /\ v[1] = p
        /\ \A x \in 1 .. L : v[x + 1] = u[x]
        /\ \A y \in 1 .. L + 1 : y = 1 \/ y - 1 \in 1 .. L
    BY <1>8, <2>1, InFront
  <2> HIDE DEF u, v, L
  <2>3. ASSUME NEW y \in 1 .. L + 1
        PROVE  y = 1 \/ \E x \in 1 .. L : y = x + 1 /\ v[y] = u[x]
    <3>1. CASE y # 1
      <4>1. y - 1 \in 1 .. L /\ (y - 1) + 1 = y BY <2>1, <2>2, <3>1
      <4> QED BY <2>2, <4>1
    <3> QED BY <3>1
  <2>4. Apiece(v)
    <3> SUFFICES ASSUME NEW y \in 1 .. L + 1, NEW z \in 1 .. L + 1, v[y] = v[z] PROVE y = z
      BY <2>2 DEF Apiece
    <3>1. CASE y = 1 BY <2>1, <2>2, <2>3, <3>1
    <3>2. CASE z = 1 BY <2>1, <2>2, <2>3, <3>2
    <3>3. CASE y # 1 /\ z # 1
      <4>1. PICK x \in 1 .. L : y = x + 1 /\ v[y] = u[x] BY <2>3, <3>3
      <4>2. PICK w \in 1 .. L : z = w + 1 /\ v[z] = u[w] BY <2>3, <3>3
      <4>3. x = w BY <2>1, <4>1, <4>2 DEF Apiece, L
      <4> QED BY <4>1, <4>2, <4>3
    <3> QED BY <3>1, <3>2, <3>3
  <2>5. Home(v, i, n, g)
    <3> SUFFICES ASSUME NEW y \in 1 .. L + 1 PROVE Index(g[v[y]].key, n) = i
      BY <2>2 DEF Home
    <3>1. CASE y = 1 BY <1>1, <1>5, <2>2, <3>1
    <3>2. CASE y # 1
      <4>1. PICK x \in 1 .. L : v[y] = u[x] BY <2>3, <3>2
      <4>2. Index(f[u[x]].key, n) = i BY <2>1 DEF Home, L
      <4> QED BY <1>5, <2>1, <4>1, <4>2
    <3> QED BY <3>1, <3>2
  <2>6. t.bucket[i] = IF Len(v) = 0 THEN None ELSE v[1] BY <1>7, <2>1, <2>2
  <2>7. ASSUME NEW y \in 1 .. L + 1
        PROVE  /\ g[v[y]].next = IF y = L + 1 THEN None ELSE v[y + 1]
               /\ g[v[y]].prev = IF y = 1 THEN None ELSE v[y - 1]
    <3>1. b = IF L = 0 THEN None ELSE u[1] BY <2>1 DEF Spells, L
    <3>2. CASE y = 1
      <4>1. g[v[y]].prev = None /\ g[v[y]].next = b BY <1>5, <2>2, <3>2
      <4>2. CASE L = 0 BY <3>1, <3>2, <4>1, <4>2
      <4>3. CASE L # 0
        <5>1. 1 \in 1 .. L BY <2>1, <4>3
        <5>2. v[1 + 1] = u[1] BY <2>2, <5>1
        <5> QED BY <2>1, <3>1, <3>2, <4>1, <4>3, <5>2
      <4> QED BY <4>2, <4>3
    <3>3. CASE y # 1
      <4>1. PICK x \in 1 .. L : y = x + 1 /\ v[y] = u[x] BY <2>3, <3>3
      <4>2. /\ f[u[x]].next = IF x = L THEN None ELSE u[x + 1]
            /\ f[u[x]].prev = IF x = 1 THEN None ELSE u[x - 1]
        BY <2>1 DEF Spells, L
      <4>3. u[x] \in S /\ u[x] # p BY <2>1
      <4>4. g[u[x]].next = f[u[x]].next
        <5>1. CASE u[x] = b BY <1>5, <4>3, <5>1
        <5>2. CASE u[x] # b
          <6>1. g[u[x]] = f[u[x]] BY <1>5, <4>3, <5>2
          <6> QED BY <6>1
        <5> QED BY <5>1, <5>2
      <4>5. g[v[y]].next = IF y = L + 1 THEN None ELSE v[y + 1]
        <5>1. CASE x = L BY <4>1, <4>2, <4>4, <5>1
        <5>2. CASE x # L
          <6>1. x + 1 \in 1 .. L /\ y # L + 1 BY <2>1, <4>1, <5>2
          <6>2. v[y + 1] = u[x + 1] BY <2>2, <4>1, <6>1
          <6> QED BY <4>1, <4>2, <4>4, <5>2, <6>1, <6>2
        <5> QED BY <5>1, <5>2
      <4>6. g[v[y]].prev = v[y - 1]
        <5>0. y - 1 = x BY <4>1
        <5>1. CASE x = 1
          <6>1. u[x] = b BY <2>1, <3>1, <5>1
          <6>2. g[u[x]].prev = p BY <1>5, <4>3, <6>1
          <6> QED BY <2>2, <4>1, <5>0, <5>1, <6>2
        <5>2. CASE x # 1
          <6>1. 1 \in 1 .. L /\ x - 1 \in 1 .. L /\ (x - 1) + 1 = x BY <2>1, <5>2
          <6>2. b = u[1] BY <3>1, <6>1
          <6>3. u[x] # b BY <2>1, <5>2, <6>1, <6>2 DEF Apiece, L
          <6>4. g[u[x]] = f[u[x]] BY <1>5, <4>3, <6>3
          <6>5. v[x] = u[x - 1] BY <2>2, <6>1
          <6> QED BY <4>1, <4>2, <5>0, <5>2, <6>4, <6>5
        <5> QED BY <5>1, <5>2
      <4> QED BY <3>3, <4>5, <4>6
    <3> QED BY <3>2, <3>3
  <2>8. Spells(v, t.bucket[i], g) BY <2>2, <2>6, <2>7 DEF Spells
  <2> QED BY <2>4, <2>5, <2>8 DEF v
<1>12. Chained(d, t.bucket, g, n)
  <2>1. d \in [0 .. n - 1 -> Seq(DOMAIN g)] BY <1>6, <1>8
  <2>2. ASSUME NEW j \in 0 .. n - 1
        PROVE  Spells(d[j], t.bucket[j], g) /\ Apiece(d[j]) /\ Home(d[j], j, n, g)
    BY <1>10, <1>11
  <2> QED BY <2>1, <2>2 DEF Chained
<1>13. Has(d, n, P \cup {p})
  <2>1. Has(c, n, P) BY DEF Store
  <2>2. /\ c[i] \in Seq(S) /\ Len(c[i]) \in Nat
        /\ Len(d[i]) = Len(c[i]) + 1 /\ d[i][1] = p
        /\ \A x \in 1 .. Len(c[i]) : d[i][x + 1] = c[i][x]
        /\ \A y \in 1 .. Len(c[i]) + 1 : y = 1 \/ y - 1 \in 1 .. Len(c[i])
    <3>1. c[i] \in Seq(S) /\ Len(c[i]) \in Nat /\ p \in S BY <1>1, <1>2
    <3>2. PICK r \in Seq(S) : r = c[i] BY <3>1
    <3>3. d[i] = <<p>> \o r BY <1>1, <1>8, <3>2
    <3>4. /\ Len(<<p>> \o r) = Len(r) + 1 /\ (<<p>> \o r)[1] = p
          /\ \A x \in 1 .. Len(r) : (<<p>> \o r)[x + 1] = r[x]
          /\ \A y \in 1 .. Len(r) + 1 : y = 1 \/ y - 1 \in 1 .. Len(r)
      BY <3>1, InFront
    <3> QED BY <3>1, <3>2, <3>3, <3>4
  <2>3. ASSUME NEW q
        PROVE  (\E x \in 1 .. Len(d[i]) : d[i][x] = q) <=>
                  q = p \/ \E x \in 1 .. Len(c[i]) : c[i][x] = q
    <3>1. ASSUME NEW y \in 1 .. Len(d[i]), d[i][y] = q
          PROVE  q = p \/ \E x \in 1 .. Len(c[i]) : c[i][x] = q
      <4>1. CASE y # 1
        <5>1. y - 1 \in 1 .. Len(c[i]) /\ (y - 1) + 1 = y BY <2>2, <4>1
        <5> QED BY <2>2, <3>1, <5>1
      <4> QED BY <2>2, <3>1, <4>1
    <3>2. 1 \in 1 .. Len(d[i]) BY <2>2
    <3>3. ASSUME NEW x \in 1 .. Len(c[i]), c[i][x] = q
          PROVE  \E y \in 1 .. Len(d[i]) : d[i][y] = q
      <4>1. x + 1 \in 1 .. Len(d[i]) BY <2>2
      <4> QED BY <2>2, <3>3, <4>1
    <3> QED BY <2>2, <3>1, <3>2, <3>3
  <2>4. ASSUME NEW q
        PROVE  q \in P \cup {p} <=>
                  \E j \in 0 .. n - 1 : \E x \in 1 .. Len(d[j]) : d[j][x] = q
    <3>1. ASSUME NEW j \in 0 .. n - 1
          PROVE  (\E x \in 1 .. Len(d[j]) : d[j][x] = q) <=>
                    (j = i /\ q = p) \/ \E x \in 1 .. Len(c[j]) : c[j][x] = q
      <4>1. CASE j = i
        <5>1. d[j] = d[i] /\ c[j] = c[i] BY <4>1
        <5>2. (\E x \in 1 .. Len(d[i]) : d[i][x] = q) <=>
                 q = p \/ \E x \in 1 .. Len(c[i]) : c[i][x] = q
          BY <2>3
        <5> QED BY <4>1, <5>1, <5>2
      <4>2. CASE j # i
        <5>1. d[j] = c[j] BY <1>8, <4>2
        <5> QED BY <4>2, <5>1
      <4> QED BY <4>1, <4>2
    <3>2. q \in P <=> \E j \in 0 .. n - 1 : \E x \in 1 .. Len(c[j]) : c[j][x] = q
      BY <2>1 DEF Has
    <3>3. q = p => \E j \in 0 .. n - 1 : \E x \in 1 .. Len(d[j]) : d[j][x] = q
      BY <1>1, <3>1
    <3> QED BY <3>1, <3>2, <3>3
  <2> QED BY <2>4 DEF Has
<1>14. \A q \in S : g[q].key = h[q].key /\ g[q].value = h[q].value
  BY <1>5 DEF Store, f
<1> QED BY <1>6, <1>7, <1>9, <1>12, <1>13, <1>14 DEF Store, d, t, g
-----------------------------------------------------------------------------
\* Stores of n buckets on the entries allocated.
Stores(n) == [bucket : Heads(n, heap), heap : [DOMAIN heap -> Entry(DOMAIN heap)]]

LEMMA PushTyped ==
  ASSUME NEW n \in Nat, NEW s \in Stores(n), NEW p \in DOMAIN heap, NEW i \in 0 .. n - 1
  PROVE  Push(s, p, i) \in Stores(n)
<1> DEFINE S == DOMAIN heap
           b == s.bucket[i]
           f == s.heap
<1>1. /\ s.bucket \in Heads(n, heap) /\ b \in S \cup {None}
      /\ f \in [S -> Entry(S)] /\ DOMAIN f = S
  BY DEF Stores, Heads
<1>2. [s.bucket EXCEPT ![i] = p] \in Heads(n, heap) BY <1>1 DEF Heads
<1> HIDE DEF b, f, S
<1>3. ASSUME NEW q \in S
      PROVE  (CASE q = p -> [f[q] EXCEPT !.prev = None, !.next = b]
                [] q = b /\ q # p -> [f[q] EXCEPT !.prev = p]
                [] OTHER -> f[q]) \in Entry(S)
  <2>1. f[q] \in Entry(S) /\ p \in S BY <1>1 DEF S
  <2>2. [f[q] EXCEPT !.prev = None, !.next = b] \in Entry(S) BY <1>1, <2>1 DEF Entry
  <2>3. [f[q] EXCEPT !.prev = p] \in Entry(S) BY <2>1 DEF Entry
  <2> QED BY <2>1, <2>2, <2>3
<1>4. Push(s, p, i).bucket = [s.bucket EXCEPT ![i] = p] BY DEF Push
<1>5. Push(s, p, i).heap \in [S -> Entry(S)] BY <1>1, <1>3 DEF Push, f, b
<1>6. Push(s, p, i) = [bucket |-> Push(s, p, i).bucket, heap |-> Push(s, p, i).heap]
  BY DEF Push
<1> QED BY <1>2, <1>4, <1>5, <1>6 DEF Stores, S

\* after[m] of Rehashed is what its definition says it is.
Empty0(n) == [bucket |-> NoEntries(n), heap |-> heap]
Moves(a, n) ==
    /\ a[0] = Empty0(n)
    /\ \A m \in Nat : m < Len(Entries) =>
          a[m + 1] = Push(a[m], Entries[m + 1], Index(heap[Entries[m + 1]].key, n))
Moved(n) == \E a : Moves(a, n) /\ Rehashed(n) = a[Len(Entries)]

LEMMA AfterIs ==
  ASSUME TableAssumption, Typed(heap), NEW n \in Nat \ {0}, Entries \in Seq(DOMAIN heap)
  PROVE  Moved(n)
<1> DEFINE e == Entries
           L == Len(e)
           S == Stores(n)
           slot(m) == Index(heap[e[m]].key, n)
           step == [p \in S \X Nat |-> IF p[2] < L
                                       THEN Push(p[1], e[p[2] + 1], slot(p[2] + 1)) ELSE p[1]]
           body(a) == [m \in 0 .. L |-> IF m = 0 THEN [bucket |-> NoEntries(n), heap |-> heap]
                                        ELSE Push(a[m - 1], e[m], Index(heap[e[m]].key, n))]
<1>1. L \in Nat /\ \A m \in 1 .. L : e[m] \in DOMAIN heap /\ slot(m) \in 0 .. n - 1
  <2>1. L \in Nat /\ \A m \in 1 .. L : e[m] \in DOMAIN heap BY Places
  <2> QED BY <2>1, Fields, Slots
<1>2. Empty0(n) \in S BY DEF Empty0, Stores, Heads, NoEntries, Typed
<1>3. step \in [S \X Nat -> S]
  <2>1. ASSUME NEW s \in S, NEW m \in Nat, m < L PROVE Push(s, e[m + 1], slot(m + 1)) \in S
    <3>1. m + 1 \in 1 .. L BY <1>1, <2>1
    <3> QED BY <1>1, <3>1, PushTyped
  <2>2. \A p \in S \X Nat : p[1] \in S /\ p[2] \in Nat OBVIOUS
  <2> HIDE DEF S, slot
  <2> QED BY <2>1, <2>2
<1>4. PICK g \in [Nat -> S] : /\ g[0] = Empty0(n)
                              /\ \A m \in Nat : g[m + 1] = step[<<g[m], m>>]
  <2> HIDE DEF S, step
  <2>1. \E g : Iterates(g, S, Empty0(n), step) BY <1>2, <1>3, Iterate
  <2> QED BY <2>1 DEF Iterates
<1>5. \A m \in Nat : m < L => g[m + 1] = Push(g[m], e[m + 1], slot(m + 1))
  <2>1. ASSUME NEW m \in Nat, m < L
        PROVE  step[<<g[m], m>>] = Push(g[m], e[m + 1], slot(m + 1))
    <3>1. <<g[m], m>> \in S \X Nat OBVIOUS
    <3> HIDE DEF S, slot
    <3> QED BY <2>1, <3>1
  <2> QED BY <1>4, <2>1
<1> HIDE DEF step, S
<1> DEFINE f == [m \in 0 .. L |-> g[m]]
<1>6. f = body(f)
  <2>1. ASSUME NEW m \in 0 .. L PROVE f[m] = body(f)[m]
    <3>1. CASE m = 0 BY <1>4, <3>1 DEF Empty0
    <3>2. CASE m # 0
      <4>1. m - 1 \in Nat /\ (m - 1) + 1 = m /\ m - 1 \in 0 .. L /\ m - 1 < L
        BY <1>1, <3>2
      <4>2. f[m] = Push(g[m - 1], e[m], slot(m)) /\ f[m - 1] = g[m - 1]
        <5>1. g[(m - 1) + 1] = Push(g[m - 1], e[(m - 1) + 1], slot((m - 1) + 1))
          BY <1>5, <4>1, Zenon
        <5> HIDE DEF slot
        <5> QED BY <4>1, <5>1
      <4>3. body(f)[m] = Push(f[m - 1], e[m], slot(m)) BY <3>2
      <4> HIDE DEF f, body, slot
      <4> QED BY <4>2, <4>3
    <3> QED BY <3>1, <3>2
  <2>2. body(f) = [m \in 0 .. L |-> body(f)[m]] OBVIOUS
  <2>3. f = [m \in 0 .. L |-> f[m]] OBVIOUS
  <2> HIDE DEF body, f
  <2> QED BY <2>1, <2>2, <2>3
<1> DEFINE after == CHOOSE a : a = body(a)
<1>7. after = body(after)
  <2>1. \E a : a = body(a) BY <1>6
  <2> HIDE DEF body, f
  <2> QED BY <2>1
<1>8. Rehashed(n) = after[L] BY DEF Rehashed
<1> HIDE DEF after
<1>9. Moves(after, n)
  <2>1. \A m \in 0 .. L : after[m] = body(after)[m] BY <1>7, Zenon
  <2>2. after[0] = Empty0(n)
    <3>1. 0 \in 0 .. L BY <1>1
    <3> QED BY <2>1, <3>1 DEF Empty0
  <2>3. ASSUME NEW m \in Nat, m < L
        PROVE  after[m + 1] = Push(after[m], e[m + 1], slot(m + 1))
    <3>1. m + 1 \in 0 .. L /\ m + 1 # 0 /\ (m + 1) - 1 = m BY <1>1, <2>3
    <3>2. after[m + 1] = body(after)[m + 1] BY <2>1, <3>1
    <3>3. body(after)[m + 1] = Push(after[(m + 1) - 1], e[m + 1], slot(m + 1)) BY <3>1
    <3> HIDE DEF body, slot
    <3> QED BY <3>1, <3>2, <3>3
  <2> QED BY <2>2, <2>3 DEF Moves
<1> QED BY <1>8, <1>9 DEF Moved

\* Entry by entry, htab_resize brings all to the front of their new chains.
Grown(n) == \E c : Store(Rehashed(n), c, n, DOMAIN heap, heap)

LEMMA RehashedIs ==
  ASSUME TableAssumption, Typed(heap), size \in Nat, NEW c, Chained(c, bucket, heap, size),
         Has(c, size, DOMAIN heap), NEW n \in Nat \ {0}
  PROVE  Grown(n)
<1> DEFINE e == Entries
           L == Len(e)
           S == DOMAIN heap
           first(m) == {e[x] : x \in 1 .. m}
<1>1. e \in Seq(S) /\ Apiece(e) /\ Range(e) = S BY EntriesAre
<1>2. L \in Nat /\ \A x \in 1 .. L : e[x] \in S BY <1>1, Places
<1>3. PICK a : Moves(a, n) /\ Rehashed(n) = a[L] BY <1>1, AfterIs DEF Moved
<1> HIDE DEF e
<1> DEFINE good(m) == \E d : Store(a[m], d, n, first(m), heap)
           D == {m \in Nat : m <= L => good(m)}
<1>4. good(0)
  <2> DEFINE d == [i \in 0 .. n - 1 |-> <<>>]
             s == Empty0(n)
  <2>1. <<>> \in Seq(S) /\ Len(<<>>) = 0 BY EmptySeq
  <2>2. /\ s.heap = heap /\ s.bucket \in Heads(n, heap)
        /\ \A i \in 0 .. n - 1 : s.bucket[i] = None
    BY DEF Empty0, NoEntries, Heads
  <2>3. Chained(d, s.bucket, heap, n)
    <3>1. d \in [0 .. n - 1 -> Seq(S)] BY <2>1
    <3>2. \A x : x \notin 1 .. 0 OBVIOUS
    <3> QED BY <2>1, <2>2, <3>1, <3>2 DEF Chained, Spells, Apiece, Home
  <2>4. Has(d, n, first(0))
    <3>1. \A x : x \notin 1 .. 0 OBVIOUS
    <3> QED BY <2>1, <3>1 DEF Has
  <2>5. Store(s, d, n, first(0), heap)
    <3> HIDE DEF s, d, first
    <3> QED BY <2>2, <2>3, <2>4 DEF Store
  <2>6. a[0] = s BY <1>3 DEF Moves
  <2> HIDE DEF s, d, first
  <2> QED BY <2>5, <2>6
<1>5. ASSUME NEW m \in D PROVE m + 1 \in D
  <2> SUFFICES ASSUME m + 1 <= L PROVE good(m + 1)
    <3>1. m \in Nat /\ m + 1 \in Nat OBVIOUS
    <3> HIDE DEF good
    <3> QED BY <3>1
  <2>1. m \in Nat /\ m < L /\ m <= L /\ m + 1 \in 1 .. L BY <1>2
  <2>2. PICK d : Store(a[m], d, n, first(m), heap)
    <3>1. good(m)
      <4> HIDE DEF good
      <4> QED BY <2>1
    <3> QED BY <3>1
  <2> DEFINE p == e[m + 1]
             i == Index(heap[p].key, n)
  <2>3. a[m + 1] = Push(a[m], p, i) BY <1>3, <2>1 DEF Moves, e
  <2>4. p \in S BY <1>2, <2>1
  <2>5. p \notin first(m)
    <3>1. ASSUME NEW x \in 1 .. m PROVE e[x] # p
      <4>1. x \in 1 .. L /\ x # m + 1 BY <2>1
      <4> QED BY <1>1, <2>1, <4>1 DEF Apiece
    <3> QED BY <3>1
  <2>6. first(m + 1) = first(m) \cup {p}
    <3>1. \A x : x \in 1 .. m + 1 <=> x \in 1 .. m \/ x = m + 1 BY <2>1
    <3> QED BY <3>1
  <2> HIDE DEF p, first
  <2>7. Store(Push(a[m], p, i), [d EXCEPT ![i] = <<p>> \o d[i]], n, first(m) \cup {p}, heap)
    BY <2>2, <2>4, <2>5, PushIs
  <2> HIDE DEF i
  <2> QED BY <2>3, <2>6, <2>7
<1>6. good(L)
  <2> HIDE DEF good
  <2>1. D = Nat
    <3>1. D \in SUBSET Nat OBVIOUS
    <3>2. 0 \in D BY <1>4
    <3> HIDE DEF D
    <3> QED BY <1>5, <3>1, <3>2, Induct
  <2>2. L <= L BY <1>2
  <2> QED BY <1>2, <2>1, <2>2
<1>7. first(L) = S
  <2>1. \A q : q \in Range(e) <=> \E x \in 1 .. L : e[x] = q BY <1>1, Places
  <2> QED BY <1>1, <2>1
<1> HIDE DEF first
<1> QED BY <1>3, <1>6, <1>7 DEF Grown, e
-----------------------------------------------------------------------------
\* A table whose n buckets b and entries h make the chains c.
Linked(c, b, h, n) ==
    Typed(h) /\ b \in Heads(n, h) /\ Chained(c, b, h, n) /\ Has(c, n, DOMAIN h)

\* htab_foreach comes to q later than to p.
Before(s, p, q) == \E x, y \in 1 .. Len(s) : x < y /\ s[x] = p /\ s[y] = q
Comes(c, n, h, p, q) ==
    LET i == Index(h[p].key, n)
        j == Index(h[q].key, n)
    IN  \/ i < j
        \/ i = j /\ Before(c[i], p, q)

LEMMA StoreLinked ==
  ASSUME NEW s, NEW c, NEW n, NEW h, Store(s, c, n, DOMAIN h, h)
  PROVE  Linked(c, s.bucket, s.heap, n)
BY DEF Store, Linked, Heads

LEMMA LinkedStore ==
  ASSUME NEW c, NEW b, NEW h, NEW n, Linked(c, b, h, n)
  PROVE  Store([bucket |-> b, heap |-> h], c, n, DOMAIN h, h)
BY DEF Store, Linked

Parts(c, h, n) ==
    /\ None \notin DOMAIN h /\ DOMAIN h \subseteq Cells
    /\ \A i \in 0 .. n - 1 : /\ c[i] \in Seq(DOMAIN h) /\ Len(c[i]) \in Nat
                             /\ \A x \in 1 .. Len(c[i]) : c[i][x] \in DOMAIN h
    /\ \A q \in DOMAIN h :
          /\ Index(h[q].key, n) \in 0 .. n - 1
          /\ \E x \in 1 .. Len(c[Index(h[q].key, n)]) : c[Index(h[q].key, n)][x] = q

LEMMA LinkedParts ==
  ASSUME TableAssumption, NEW c, NEW b, NEW h, NEW n \in Nat \ {0}, Linked(c, b, h, n)
  PROVE  Parts(c, h, n)
<1>1. Typed(h) /\ Chained(c, b, h, n) /\ Has(c, n, DOMAIN h) BY DEF Linked
<1>2. None \notin DOMAIN h /\ DOMAIN h \subseteq Cells BY <1>1, NoneIsNoCell DEF Typed
<1>3. ASSUME NEW i \in 0 .. n - 1
      PROVE  /\ c[i] \in Seq(DOMAIN h) /\ Len(c[i]) \in Nat
             /\ \A x \in 1 .. Len(c[i]) : c[i][x] \in DOMAIN h
  <2>1. c[i] \in Seq(DOMAIN h) BY <1>1 DEF Chained
  <2> QED BY <2>1, Places
<1>4. ASSUME NEW q \in DOMAIN h
      PROVE  /\ Index(h[q].key, n) \in 0 .. n - 1
             /\ \E x \in 1 .. Len(c[Index(h[q].key, n)]) : c[Index(h[q].key, n)][x] = q
  <2>1. h[q].key \in Keys BY <1>1, Fields
  <2>2. PICK j \in 0 .. n - 1 : \E x \in 1 .. Len(c[j]) : c[j][x] = q BY <1>1 DEF Has
  <2>3. Index(h[q].key, n) = j BY <1>1, <2>2 DEF Chained, Home
  <2> QED BY <2>1, <2>2, <2>3, Slots
<1> QED BY <1>2, <1>3, <1>4 DEF Parts
-----------------------------------------------------------------------------
\* A sequence without its jth element.
Skip(j, x) == IF x < j THEN x ELSE x + 1
Cut(s, j) == [x \in 1 .. Len(s) - 1 |-> s[Skip(j, x)]]

CutRight(S, s, j) ==
    /\ Cut(s, j) \in Seq(S \ {s[j]}) /\ Len(Cut(s, j)) = Len(s) - 1
    /\ \A x \in 1 .. Len(s) - 1 :
          /\ Skip(j, x) \in 1 .. Len(s) /\ Skip(j, x) # j
          /\ Cut(s, j)[x] = s[Skip(j, x)]
    /\ \A y \in 1 .. Len(s) : y # j => \E x \in 1 .. Len(s) - 1 : Skip(j, x) = y
    /\ \A x, y \in 1 .. Len(s) - 1 : x < y <=> Skip(j, x) < Skip(j, y)
    /\ Apiece(Cut(s, j))

LEMMA CutIs ==
  ASSUME NEW S, NEW s \in Seq(S), NEW j \in 1 .. Len(s), Apiece(s)
  PROVE  CutRight(S, s, j)
<1> DEFINE L == Len(s)
           t == Cut(s, j)
<1>1. L \in Nat /\ j \in 1 .. L /\ \A x \in 1 .. L : s[x] \in S BY Places
<1>2. t = [x \in 1 .. L - 1 |-> s[Skip(j, x)]] BY DEF Cut
<1> HIDE DEF L, t
<1>3. ASSUME NEW x \in 1 .. L - 1
      PROVE  Skip(j, x) \in 1 .. L /\ Skip(j, x) # j /\ t[x] = s[Skip(j, x)]
  BY <1>1, <1>2 DEF Skip
<1>4. ASSUME NEW y \in 1 .. L, y # j PROVE \E x \in 1 .. L - 1 : Skip(j, x) = y
  <2>1. CASE y < j
    <3>1. y \in 1 .. L - 1 /\ Skip(j, y) = y BY <1>1, <2>1 DEF Skip
    <3> QED BY <3>1
  <2>2. CASE ~(y < j)
    <3>1. y - 1 \in 1 .. L - 1 /\ Skip(j, y - 1) = y BY <1>1, <1>4, <2>2 DEF Skip
    <3> QED BY <3>1
  <2> QED BY <2>1, <2>2
<1>5. ASSUME NEW x \in 1 .. L - 1, NEW y \in 1 .. L - 1
      PROVE  x < y <=> Skip(j, x) < Skip(j, y)
  BY <1>1 DEF Skip
<1>6. t \in Seq(S \ {s[j]}) /\ Len(t) = L - 1
  <2>1. CASE L = 0 BY <1>1, <2>1
  <2>2. CASE L # 0
    <3>1. L - 1 \in Nat BY <1>1, <2>2
    <3>2. \A x \in 1 .. L - 1 : s[Skip(j, x)] \in S \ {s[j]}
      BY <1>1, <1>3 DEF Apiece, L
    <3>3. t \in [1 .. L - 1 -> S \ {s[j]}] BY <1>2, <3>2
    <3> QED BY <3>1, <3>3
  <2> QED BY <2>1, <2>2
<1>7. Apiece(t)
  <2> SUFFICES ASSUME NEW x \in 1 .. L - 1, NEW y \in 1 .. L - 1, t[x] = t[y] PROVE x = y
    BY <1>6 DEF Apiece
  <2>1. Skip(j, x) = Skip(j, y) BY <1>3 DEF Apiece, L
  <2>2. ~(Skip(j, x) < Skip(j, y)) /\ ~(Skip(j, y) < Skip(j, x))
    BY <1>1, <1>3, <2>1
  <2>3. ~(x < y) /\ ~(y < x) BY <1>5, <2>2
  <2> QED BY <1>1, <2>3
<1> QED BY <1>3, <1>4, <1>5, <1>6, <1>7 DEF L, t, CutRight
-----------------------------------------------------------------------------
\* What Unlink does to each entry that stays.
LEMMA UnlinkFields ==
  ASSUME TableAssumption, Typed(heap), NEW p \in DOMAIN heap, NEW q \in DOMAIN heap \ {p}
  PROVE  LET g == Unlink(p)
             e == heap[p]
         IN  /\ g[q] \in Entry(DOMAIN heap)
             /\ g[q].key = heap[q].key /\ g[q].value = heap[q].value
             /\ g[q].prev = IF q = e.next THEN e.prev ELSE heap[q].prev
             /\ q # e.next => g[q].next = IF q = e.prev THEN e.next ELSE heap[q].next
             /\ q # e.prev => g[q].next = heap[q].next
<1> DEFINE g == Unlink(p)
           e == heap[p]
           f == heap[q]
<1>1. /\ f \in Entry(DOMAIN heap) /\ e.next \in DOMAIN heap \cup {None}
      /\ e.prev \in DOMAIN heap \cup {None}
  BY Fields
<1>2. g[q] = CASE q = e.next -> [f EXCEPT !.prev = e.prev]
               [] q = e.prev /\ q # e.next -> [f EXCEPT !.next = e.next]
               [] OTHER -> f
  BY DEF Unlink
<1> HIDE DEF g, e, f
<1>3. CASE q = e.next
  <2>1. g[q] = [f EXCEPT !.prev = e.prev] BY <1>2, <1>3
  <2>2. /\ g[q] \in Entry(DOMAIN heap) /\ g[q].key = f.key /\ g[q].value = f.value
        /\ g[q].prev = e.prev /\ g[q].next = f.next
    BY <1>1, <2>1 DEF Entry
  <2> QED BY <1>3, <2>2 DEF g, f, e
<1>4. CASE q # e.next /\ q = e.prev
  <2>1. g[q] = [f EXCEPT !.next = e.next] BY <1>2, <1>4
  <2>2. /\ g[q] \in Entry(DOMAIN heap) /\ g[q].key = f.key /\ g[q].value = f.value
        /\ g[q].prev = f.prev /\ g[q].next = e.next
    BY <1>1, <2>1 DEF Entry
  <2> QED BY <1>4, <2>2 DEF g, f, e
<1>5. CASE q # e.next /\ q # e.prev
  <2>1. g[q] = f BY <1>2, <1>5
  <2> QED BY <1>1, <1>5, <2>1 DEF g, f, e
<1> QED BY <1>3, <1>4, <1>5

\* The bucket after p is unlinked.
Unhooked(p) == IF heap[p].prev # None THEN bucket
               ELSE [bucket EXCEPT ![Index(heap[p].key, size)] = heap[p].next]
SameOrder(c, d, P, h, g) ==
    \A q, r \in P : Comes(c, size, h, q, r) <=> Comes(d, size, g, q, r)

LEMMA UnlinkIs ==
  ASSUME TableAssumption, size \in Nat \ {0}, NEW c, Linked(c, bucket, heap, size),
         NEW p \in DOMAIN heap, NEW i, i = Index(heap[p].key, size),
         NEW j \in 1 .. Len(c[i]), c[i][j] = p, NEW d, d = [c EXCEPT ![i] = Cut(c[i], j)]
  PROVE  /\ Linked(d, Unhooked(p), Unlink(p), size)
         /\ SameOrder(c, d, DOMAIN heap \ {p}, heap, Unlink(p))
<1> DEFINE g == Unlink(p)
           S == DOMAIN heap
           T == S \ {p}
           s == c[i]
           L == Len(s)
           t == Cut(s, j)
           b == Unhooked(p)
<1>1. /\ i \in 0 .. size - 1 /\ None \notin S /\ S \subseteq Cells
      /\ \A k \in 0 .. size - 1 : /\ c[k] \in Seq(S) /\ Len(c[k]) \in Nat
                                  /\ \A x \in 1 .. Len(c[k]) : c[k][x] \in S
      /\ \A q \in S : /\ Index(heap[q].key, size) \in 0 .. size - 1
                      /\ \E x \in 1 .. Len(c[Index(heap[q].key, size)]) :
                            c[Index(heap[q].key, size)][x] = q
  <2>1. /\ None \notin S /\ S \subseteq Cells
        /\ \A k \in 0 .. size - 1 : /\ c[k] \in Seq(S) /\ Len(c[k]) \in Nat
                                    /\ \A x \in 1 .. Len(c[k]) : c[k][x] \in S
        /\ \A q \in S : /\ Index(heap[q].key, size) \in 0 .. size - 1
                        /\ \E x \in 1 .. Len(c[Index(heap[q].key, size)]) :
                              c[Index(heap[q].key, size)][x] = q
    <3>1. Parts(c, heap, size) BY LinkedParts
    <3> QED BY <3>1 DEF Parts
  <2>2. i \in 0 .. size - 1 BY <2>1
  <2> QED BY <2>1, <2>2
<1>2. /\ Typed(heap) /\ bucket \in [0 .. size - 1 -> S \cup {None}]
      /\ c \in [0 .. size - 1 -> Seq(S)] /\ Has(c, size, S)
      /\ \A k \in 0 .. size - 1 : /\ Spells(c[k], bucket[k], heap) /\ Apiece(c[k])
                                  /\ Home(c[k], k, size, heap)
  BY DEF Linked, Chained, Heads
<1>3. /\ t \in Seq(T) /\ Len(t) = L - 1 /\ Apiece(t)
      /\ \A x \in 1 .. L - 1 : /\ Skip(j, x) \in 1 .. L /\ Skip(j, x) # j
                               /\ t[x] = s[Skip(j, x)]
      /\ \A y \in 1 .. L : y # j => \E x \in 1 .. L - 1 : Skip(j, x) = y
      /\ \A x, y \in 1 .. L - 1 : x < y <=> Skip(j, x) < Skip(j, y)
  <2>1. s \in Seq(S) /\ Apiece(s) BY <1>1, <1>2
  <2>2. j \in 1 .. Len(s) /\ s[j] = p OBVIOUS
  <2> HIDE DEF S, s
  <2>3. t = Cut(s, j) BY DEF t, s
  <2> HIDE DEF t
  <2>4. CutRight(S, s, j) BY <2>1, <2>2, CutIs
  <2> QED BY <2>2, <2>3, <2>4 DEF CutRight
<1>4. /\ heap[p].next = IF j = L THEN None ELSE s[j + 1]
      /\ heap[p].prev = IF j = 1 THEN None ELSE s[j - 1]
      /\ \A x \in 1 .. L : /\ heap[s[x]].next = IF x = L THEN None ELSE s[x + 1]
                           /\ heap[s[x]].prev = IF x = 1 THEN None ELSE s[x - 1]
      /\ bucket[i] = IF L = 0 THEN None ELSE s[1]
      /\ L \in Nat /\ \A x \in 1 .. L : s[x] \in S
      /\ \A x, y \in 1 .. L : s[x] = s[y] => x = y
      /\ s[j] = p
  <2>1. Spells(s, bucket[i], heap) /\ Apiece(s) BY <1>1, <1>2
  <2>2. L \in Nat /\ (\A x \in 1 .. L : s[x] \in S) /\ j \in 1 .. L /\ s[j] = p BY <1>1
  <2> HIDE DEF S, s
  <2> QED BY <2>1, <2>2 DEF Spells, Apiece
<1>5. /\ DOMAIN g = T /\ g = [q \in T |-> g[q]]
      /\ \A q \in T :
             /\ g[q] \in Entry(S)
             /\ g[q].key = heap[q].key /\ g[q].value = heap[q].value
             /\ g[q].prev = IF q = heap[p].next THEN heap[p].prev ELSE heap[q].prev
             /\ q # heap[p].next =>
                   g[q].next = IF q = heap[p].prev THEN heap[p].next ELSE heap[q].next
             /\ q # heap[p].prev => g[q].next = heap[q].next
  <2>1. DOMAIN g = T /\ g = [q \in T |-> g[q]] BY DEF Unlink
  <2> QED BY <1>2, <2>1, UnlinkFields
<1>6. /\ d \in [0 .. size - 1 -> Seq(T)] /\ d[i] = t
      /\ \A k \in 0 .. size - 1 : k # i => d[k] = c[k] /\ c[k] \in Seq(T)
  <2>1. ASSUME NEW k \in 0 .. size - 1, k # i PROVE c[k] \in Seq(T)
    <3>1. \A x \in 1 .. Len(c[k]) : c[k][x] \in T
      <4>1. ASSUME NEW x \in 1 .. Len(c[k]), c[k][x] = p PROVE FALSE
        <5>1. Index(heap[p].key, size) = k BY <1>2, <4>1 DEF Home
        <5> QED BY <2>1, <5>1
      <4> QED BY <1>1, <4>1
    <3>2. c[k] \in Seq(S) /\ Len(c[k]) \in Nat BY <1>1
    <3>3. c[k] = [x \in 1 .. Len(c[k]) |-> c[k][x]]
      <4>1. c[k] \in [1 .. Len(c[k]) -> S] BY <3>2, LenProperties
      <4> QED BY <4>1
    <3>4. c[k] \in [1 .. Len(c[k]) -> T] BY <3>1, <3>3
    <3> QED BY <3>2, <3>4
  <2>2. \A k \in 0 .. size - 1 : k # i => d[k] = c[k] BY <1>2
  <2>3. d[i] = t BY <1>1, <1>2
  <2>4. d = [k \in 0 .. size - 1 |-> d[k]] BY <1>2
  <2>5. \A k \in 0 .. size - 1 : d[k] \in Seq(T) BY <1>3, <2>1, <2>2, <2>3
  <2> QED BY <2>1, <2>2, <2>3, <2>4, <2>5
<1>7. /\ b \in [0 .. size - 1 -> S \cup {None}]
      /\ \A k \in 0 .. size - 1 : k # i => b[k] = bucket[k]
      /\ b[i] = IF L - 1 = 0 THEN None ELSE t[1]
  <2>0. heap[p].next \in S \cup {None} BY <1>2, Fields
  <2>1. CASE heap[p].prev # None
    <3>1. b = bucket BY <2>1 DEF Unhooked
    <3>2. j # 1 /\ j \in 1 .. L BY <1>4, <2>1
    <3>3. 1 \in 1 .. L - 1 /\ Skip(j, 1) = 1 BY <1>4, <3>2 DEF Skip
    <3>4. t[1] = s[1] BY <1>3, <3>3
    <3> QED BY <1>2, <1>4, <3>1, <3>3, <3>4
  <2>2. CASE heap[p].prev = None
    <3>1. b = [bucket EXCEPT ![i] = heap[p].next] BY <2>2 DEF Unhooked
    <3>2. j = 1
      <4>1. ASSUME j # 1 PROVE FALSE
        <5>1. j - 1 \in 1 .. L BY <1>4, <4>1
        <5> QED BY <1>1, <1>4, <2>2, <4>1, <5>1
      <4> QED BY <4>1
    <3>3. b[i] = IF L = 1 THEN None ELSE s[2] BY <1>1, <1>2, <1>4, <3>1, <3>2
    <3>6. \A k \in 0 .. size - 1 : k # i => b[k] = bucket[k] BY <1>2, <3>1
    <3>7. b \in [0 .. size - 1 -> S \cup {None}] BY <1>2, <2>0, <3>1
    <3> HIDE DEF b, S, s, t
    <3>4. CASE L = 1 BY <3>3, <3>4, <3>6, <3>7
    <3>5. CASE L # 1
      <4>1. Skip(j, 1) = 2 BY <3>2 DEF Skip
      <4>2. 1 \in 1 .. L - 1 /\ L - 1 # 0
        <5>1. L \in Nat /\ L # 0
          <6>1. j \in 1 .. L BY DEF s
          <6> QED BY <1>4, <6>1
        <5> HIDE DEF L
        <5> QED BY <3>5, <5>1
      <4>3. t[1] = s[2] BY <1>3, <4>1, <4>2
      <4> QED BY <3>3, <3>5, <3>6, <3>7, <4>2, <4>3
    <3> QED BY <3>4, <3>5
  <2> QED BY <2>1, <2>2
<1> HIDE DEF g, S, s, L, t, b
<1>8. ASSUME NEW x \in 1 .. L - 1
      PROVE  /\ g[t[x]].next = IF x = L - 1 THEN None ELSE t[x + 1]
             /\ g[t[x]].prev = IF x = 1 THEN None ELSE t[x - 1]
  <2> DEFINE y == Skip(j, x)
  <2>1. y \in 1 .. L /\ y # j /\ t[x] = s[y] /\ s[y] \in T BY <1>3, <1>4
  <2>2. j \in 1 .. L BY DEF L, s
  <2>3. s[y] = heap[p].next <=> y = j + 1
    <3>1. CASE j = L
      <4>1. heap[p].next = None /\ y # j + 1 BY <1>4, <2>1, <3>1
      <4> QED BY <1>1, <2>1, <4>1
    <3>2. CASE j # L
      <4>1. j + 1 \in 1 .. L /\ heap[p].next = s[j + 1] BY <1>4, <2>2, <3>2
      <4> QED BY <1>4, <2>1, <4>1
    <3> QED BY <3>1, <3>2
  <2>4. s[y] = heap[p].prev <=> y = j - 1
    <3>1. CASE j = 1
      <4>1. heap[p].prev = None /\ y # j - 1 BY <1>4, <2>1, <3>1
      <4> QED BY <1>1, <2>1, <4>1
    <3>2. CASE j # 1
      <4>1. j - 1 \in 1 .. L /\ heap[p].prev = s[j - 1] BY <1>4, <2>2, <3>2
      <4> QED BY <1>4, <2>1, <4>1
    <3> QED BY <3>1, <3>2
  <2>5. /\ heap[s[y]].next = IF y = L THEN None ELSE s[y + 1]
        /\ heap[s[y]].prev = IF y = 1 THEN None ELSE s[y - 1]
    BY <1>4, <2>1
  <2>6. x + 1 \in 1 .. L - 1 => t[x + 1] = s[Skip(j, x + 1)] BY <1>3
  <2>7. x - 1 \in 1 .. L - 1 => t[x - 1] = s[Skip(j, x - 1)] BY <1>3
  <2>8. /\ g[s[y]].prev = IF y = j + 1 THEN heap[p].prev ELSE heap[s[y]].prev
        /\ y # j + 1 => g[s[y]].next = IF y = j - 1 THEN heap[p].next ELSE heap[s[y]].next
        /\ y # j - 1 => g[s[y]].next = heap[s[y]].next
    BY <1>5, <2>1, <2>3, <2>4
  <2>9. CASE x < j
    <3>1. y = x /\ x \in 1 .. L /\ y # j + 1 BY <2>1, <2>2, <2>9 DEF Skip
    <3>2. g[t[x]].prev = IF x = 1 THEN None ELSE t[x - 1]
      <4>1. g[t[x]].prev = IF x = 1 THEN None ELSE s[x - 1] BY <2>1, <2>5, <2>8, <3>1
      <4>2. CASE x # 1
        <5>1. x - 1 \in 1 .. L - 1 /\ Skip(j, x - 1) = x - 1 BY <1>4, <2>2, <2>9, <4>2 DEF Skip
        <5> QED BY <2>7, <4>1, <4>2, <5>1
      <4> QED BY <4>1, <4>2
    <3>3. CASE x = j - 1
      <4>1. g[t[x]].next = heap[p].next BY <2>1, <2>8, <3>1, <3>3
      <4>2. CASE j = L
        <5>1. x = L - 1 BY <3>3, <4>2
        <5> QED BY <1>4, <3>2, <4>1, <4>2, <5>1
      <4>3. CASE j # L
        <5>1. x # L - 1 /\ x + 1 \in 1 .. L - 1 /\ Skip(j, x + 1) = j + 1
          BY <1>4, <2>2, <3>3, <4>3 DEF Skip
        <5> QED BY <1>4, <2>6, <3>2, <4>1, <4>3, <5>1
      <4> QED BY <4>2, <4>3
    <3>4. CASE x # j - 1
      <4>1. x # L - 1 /\ x # L /\ x + 1 \in 1 .. L - 1 /\ Skip(j, x + 1) = x + 1
        BY <1>4, <2>2, <2>9, <3>4, SMTT(20) DEF Skip
      <4>2. g[t[x]].next = s[x + 1] BY <2>1, <2>5, <2>8, <3>1, <3>4, <4>1
      <4> QED BY <2>6, <3>2, <4>1, <4>2
    <3> QED BY <3>3, <3>4
  <2>10. CASE ~(x < j)
    <3>1. y = x + 1 /\ y # j - 1 BY <2>2, <2>10 DEF Skip
    <3>2. g[t[x]].next = IF x = L - 1 THEN None ELSE t[x + 1]
      <4>1. g[t[x]].next = IF x + 1 = L THEN None ELSE s[(x + 1) + 1]
        BY <2>1, <2>5, <2>8, <3>1
      <4>2. CASE x = L - 1
        <5>1. x + 1 = L BY <1>4, <4>2
        <5> QED BY <4>1, <4>2, <5>1
      <4>3. CASE x # L - 1
        <5>1. x + 1 # L /\ x + 1 \in 1 .. L - 1 /\ Skip(j, x + 1) = (x + 1) + 1
          BY <1>4, <2>2, <2>10, <4>3 DEF Skip
        <5> QED BY <2>6, <4>1, <4>3, <5>1
      <4> QED BY <4>2, <4>3
    <3>3. CASE x = j
      <4>1. g[t[x]].prev = IF j = 1 THEN None ELSE s[j - 1] BY <1>4, <2>1, <2>8, <3>1, <3>3
      <4>2. CASE j # 1
        <5>1. x - 1 \in 1 .. L - 1 /\ Skip(j, x - 1) = j - 1
          BY <1>4, <2>2, <3>3, <4>2 DEF Skip
        <5> QED BY <2>7, <3>2, <3>3, <4>1, <4>2, <5>1
      <4> QED BY <3>2, <3>3, <4>1, <4>2
    <3>4. CASE x # j
      <4>1. x # 1 /\ x - 1 \in 1 .. L - 1 /\ Skip(j, x - 1) = x /\ y # 1 /\ y # j + 1
            /\ y - 1 = x
        <5>1. x \in Nat /\ j \in Nat /\ j >= 1 /\ x > j BY <1>4, <2>2, <2>10, <3>4
        <5>2. Skip(j, x - 1) = x BY <5>1 DEF Skip
        <5>3. L \in Nat /\ x \in 1 .. L - 1 BY <1>4
        <5> HIDE DEF y
        <5> QED BY <3>1, <5>1, <5>2, <5>3
      <4>2. g[t[x]].prev = s[x] BY <2>1, <2>5, <2>8, <4>1
      <4> QED BY <2>7, <3>2, <4>1, <4>2
    <3> QED BY <3>3, <3>4
  <2> QED BY <2>9, <2>10
<1>9. ASSUME NEW k \in 0 .. size - 1
      PROVE  /\ Spells(d[k], b[k], g) /\ Apiece(d[k]) /\ Home(d[k], k, size, g)
  <2>1. CASE k = i
    <3>1. Spells(t, b[i], g) BY <1>3, <1>7, <1>8 DEF Spells
    <3>2. Home(t, i, size, g)
      <4> SUFFICES ASSUME NEW x \in 1 .. L - 1 PROVE Index(g[t[x]].key, size) = i
        BY <1>3 DEF Home
      <4>1. t[x] = s[Skip(j, x)] /\ Skip(j, x) \in 1 .. L /\ t[x] \in T
        BY <1>3, <1>4
      <4>2. Index(heap[s[Skip(j, x)]].key, size) = i BY <1>1, <1>2, <4>1 DEF Home, s, L
      <4> QED BY <1>5, <4>1, <4>2
    <3> QED BY <1>3, <1>6, <2>1, <3>1, <3>2
  <2>2. CASE k # i
    <3>1. d[k] = c[k] /\ b[k] = bucket[k] BY <1>6, <1>7, <2>2
    <3>2. ASSUME NEW x \in 1 .. Len(c[k])
          PROVE  /\ g[c[k][x]].key = heap[c[k][x]].key
                 /\ g[c[k][x]].next = heap[c[k][x]].next
                 /\ g[c[k][x]].prev = heap[c[k][x]].prev
      <4>1. c[k][x] \in S /\ Index(heap[c[k][x]].key, size) = k BY <1>1, <1>2 DEF Home
      <4>2. \A y \in 1 .. L : s[y] # c[k][x]
        <5>1. \A y \in 1 .. L : Index(heap[s[y]].key, size) = i BY <1>1, <1>2 DEF Home, s, L
        <5> QED BY <2>2, <4>1, <5>1
      <4>3. j \in 1 .. L BY DEF L, s
      <4>4. c[k][x] # p /\ c[k][x] # heap[p].next /\ c[k][x] # heap[p].prev
        <5>1. c[k][x] # p BY <1>4, <4>2, <4>3
        <5>2. c[k][x] # heap[p].next
          <6>1. CASE j = L BY <1>1, <1>4, <4>1, <6>1, SMTT(20)
          <6>2. CASE j # L
            <7>1. j + 1 \in 1 .. L BY <1>4, <4>3, <6>2
            <7> QED BY <1>4, <4>2, <6>2, <7>1
          <6> QED BY <6>1, <6>2
        <5>3. c[k][x] # heap[p].prev
          <6>1. CASE j = 1 BY <1>1, <1>4, <4>1, <6>1
          <6>2. CASE j # 1
            <7>1. j - 1 \in 1 .. L BY <1>4, <4>3, <6>2
            <7> QED BY <1>4, <4>2, <6>2, <7>1
          <6> QED BY <6>1, <6>2
        <5> QED BY <5>1, <5>2, <5>3
      <4> QED BY <1>5, <4>1, <4>4
    <3>3. Spells(c[k], bucket[k], g) BY <1>2, <3>2 DEF Spells
    <3>4. Home(c[k], k, size, g) BY <1>2, <3>2 DEF Home
    <3> QED BY <1>2, <3>1, <3>3, <3>4
  <2> QED BY <2>1, <2>2
<1>10. Chained(d, b, g, size) BY <1>5, <1>6, <1>9 DEF Chained
<1>11. ASSUME NEW q \in T
       PROVE  LET k == Index(heap[q].key, size)
              IN  k \in 0 .. size - 1 /\ \E x \in 1 .. Len(d[k]) : d[k][x] = q
  <2> DEFINE k == Index(heap[q].key, size)
  <2>1. k \in 0 .. size - 1 /\ \E x \in 1 .. Len(c[k]) : c[k][x] = q BY <1>1
  <2>2. CASE k = i
    <3>1. PICK y \in 1 .. L : s[y] = q BY <2>1, <2>2 DEF s, L
    <3>2. y # j BY <1>4, <3>1
    <3>3. PICK x \in 1 .. L - 1 : Skip(j, x) = y BY <1>3, <3>2
    <3>4. t[x] = q BY <1>3, <3>1, <3>3
    <3> QED BY <1>3, <1>6, <2>1, <2>2, <3>4
  <2>3. CASE k # i BY <1>6, <2>1, <2>3
  <2> QED BY <2>2, <2>3
<1>12. \A k \in 0 .. size - 1 : \A x \in 1 .. Len(d[k]) : d[k][x] \in T
  <2>1. \A k \in 0 .. size - 1 : d[k] \in Seq(T) BY <1>6
  <2> QED BY <2>1, Places
<1>13. Has(d, size, T) BY <1>11, <1>12 DEF Has
<1>14. ASSUME NEW q \in T
       PROVE  g[q].next \in T \cup {None} /\ g[q].prev \in T \cup {None}
  <2>1. PICK k \in 0 .. size - 1 : \E x \in 1 .. Len(d[k]) : d[k][x] = q BY <1>11
  <2>2. PICK x \in 1 .. Len(d[k]) : d[k][x] = q BY <2>1
  <2>3. Len(d[k]) \in Nat /\ \A y \in 1 .. Len(d[k]) : d[k][y] \in T
    <3>1. d[k] \in Seq(T) BY <1>6
    <3> QED BY <3>1, Places
  <2>4. /\ g[q].next = IF x = Len(d[k]) THEN None ELSE d[k][x + 1]
        /\ g[q].prev = IF x = 1 THEN None ELSE d[k][x - 1]
    BY <1>9, <2>2 DEF Spells
  <2>5. x = Len(d[k]) \/ x + 1 \in 1 .. Len(d[k]) BY <2>3
  <2>6. x = 1 \/ x - 1 \in 1 .. Len(d[k]) BY <2>3
  <2> QED BY <2>3, <2>4, <2>5, <2>6
<1>15. Typed(g)
  <2>1. ASSUME NEW q \in T PROVE g[q] \in Entry(T)
    <3>1. g[q] \in Entry(S) BY <1>5
    <3> QED BY <1>14, <3>1 DEF Entry
  <2>2. T \subseteq Cells BY <1>1
  <2> QED BY <1>5, <2>1, <2>2 DEF Typed
<1>16. b \in Heads(size, g)
  <2>1. ASSUME NEW k \in 0 .. size - 1 PROVE b[k] \in T \cup {None}
    <3>1. d[k] \in Seq(T) /\ Len(d[k]) \in Nat BY <1>6, Places
    <3>2. b[k] = IF Len(d[k]) = 0 THEN None ELSE d[k][1] BY <1>9 DEF Spells
    <3>3. Len(d[k]) = 0 \/ 1 \in 1 .. Len(d[k]) BY <3>1
    <3> QED BY <1>12, <3>2, <3>3
  <2> QED BY <1>5, <1>7, <2>1 DEF Heads
<1>17. Linked(d, b, g, size) BY <1>5, <1>10, <1>13, <1>15, <1>16 DEF Linked
<1>18. ASSUME NEW q \in T, NEW r \in T
       PROVE  Comes(c, size, heap, q, r) <=> Comes(d, size, g, q, r)
  <2> DEFINE k == Index(heap[q].key, size)
  <2>1. g[q].key = heap[q].key /\ g[r].key = heap[r].key BY <1>5
  <2>2. k \in 0 .. size - 1 BY <1>1
  <2>3. Before(c[k], q, r) <=> Before(d[k], q, r)
    <3>1. CASE k # i BY <1>6, <2>2, <3>1
    <3>2. CASE k = i
      <4>1. ASSUME NEW x \in 1 .. L, NEW y \in 1 .. L, x < y, s[x] = q, s[y] = r
            PROVE  \E v, w \in 1 .. L - 1 : v < w /\ t[v] = q /\ t[w] = r
        <5>1. x # j /\ y # j BY <1>4, <4>1
        <5>2. PICK v \in 1 .. L - 1 : Skip(j, v) = x BY <1>3, <5>1
        <5>3. PICK w \in 1 .. L - 1 : Skip(j, w) = y BY <1>3, <5>1
        <5>4. v < w BY <1>3, <4>1, <5>2, <5>3
        <5>5. t[v] = q /\ t[w] = r BY <1>3, <4>1, <5>2, <5>3
        <5> QED BY <5>4, <5>5
      <4>2. ASSUME NEW v \in 1 .. L - 1, NEW w \in 1 .. L - 1, v < w, t[v] = q, t[w] = r
            PROVE  \E x, y \in 1 .. L : x < y /\ s[x] = q /\ s[y] = r
        <5>1. Skip(j, v) \in 1 .. L /\ Skip(j, w) \in 1 .. L /\ Skip(j, v) < Skip(j, w)
          BY <1>3, <4>2
        <5>2. s[Skip(j, v)] = q /\ s[Skip(j, w)] = r BY <1>3, <4>2
        <5> QED BY <5>1, <5>2
      <4>3. c[k] = s /\ Len(c[k]) = L /\ d[k] = t /\ Len(d[k]) = L - 1
        BY <1>3, <1>6, <3>2 DEF s, L
      <4> QED BY <4>1, <4>2, <4>3, SMTT(20) DEF Before
    <3> QED BY <3>1, <3>2
  <2>4. /\ Comes(c, size, heap, q, r) <=>
              (k < Index(heap[r].key, size) \/ (k = Index(heap[r].key, size) /\ Before(c[k], q, r)))
        /\ Comes(d, size, g, q, r) <=>
              (k < Index(heap[r].key, size) \/ (k = Index(heap[r].key, size) /\ Before(d[k], q, r)))
    BY <2>1 DEF Comes
  <2> HIDE DEF k
  <2> QED BY <2>3, <2>4
<1> QED BY <1>17, <1>18 DEF SameOrder, b, g, S
-----------------------------------------------------------------------------
\* The table a new entry goes into: grown, or as it is.
Roomed(c) == \E d : /\ Store(Roomy, d, Room, DOMAIN heap, heap)
                    /\ ~Crowded => d = c /\ Room = size

LEMMA RoomyIs ==
  ASSUME TableAssumption, size \in Nat \ {0}, NEW c, Linked(c, bucket, heap, size)
  PROVE  Room \in Nat \ {0} /\ Roomed(c)
<1>1. Room \in Nat \ {0}
  <2>1. 2 * size \in Nat \ {0} OBVIOUS
  <2> QED BY <2>1 DEF Room
<1>2. CASE Crowded
  <2>1. Typed(heap) /\ Chained(c, bucket, heap, size) /\ Has(c, size, DOMAIN heap)
    BY DEF Linked
  <2>2. Grown(Room) BY <1>1, <2>1, RehashedIs
  <2>3. Roomy = Rehashed(Room) BY <1>2 DEF Roomy
  <2> QED BY <1>1, <1>2, <2>2, <2>3 DEF Grown, Roomed
<1>3. CASE ~Crowded
  <2>1. Room = size /\ Roomy = [bucket |-> bucket, heap |-> heap] BY <1>3 DEF Room, Roomy
  <2>2. Store([bucket |-> bucket, heap |-> heap], c, size, DOMAIN heap, heap)
    BY LinkedStore
  <2> QED BY <1>1, <2>1, <2>2 DEF Roomed
<1> QED BY <1>2, <1>3

\* An entry allocated, and then put in front of its chain.
Fresh(r, k, v, p) ==
    [c \in DOMAIN heap \cup {p} |->
        IF c = p THEN [key |-> k, value |-> v, prev |-> None, next |-> None] ELSE r.heap[c]]
Stored(k, v, p) ==
    Push([bucket |-> Roomy.bucket, heap |-> Fresh(Roomy, k, v, p)], p, Slot(k))

FreshRight(r, d, n, k, v, p) ==
    LET f == Fresh(r, k, v, p)
    IN  /\ Store([bucket |-> r.bucket, heap |-> f], d, n, DOMAIN heap, f)
        /\ DOMAIN f = DOMAIN heap \cup {p} /\ f[p].key = k /\ f[p].value = v
        /\ \A q \in DOMAIN heap : f[q].key = heap[q].key /\ f[q].value = heap[q].value

LEMMA FreshIs ==
  ASSUME TableAssumption, NEW r, NEW d, NEW n \in Nat \ {0},
         Store(r, d, n, DOMAIN heap, heap),
         NEW k \in Keys, NEW v \in Vals, NEW p \in Cells \ DOMAIN heap
  PROVE  FreshRight(r, d, n, k, v, p)
<1> DEFINE f == Fresh(r, k, v, p)
           S == DOMAIN heap
           T == S \cup {p}
           new0 == [key |-> k, value |-> v, prev |-> None, next |-> None]
<1>1. /\ Typed(r.heap) /\ DOMAIN r.heap = S /\ r.bucket \in Heads(n, heap)
      /\ Chained(d, r.bucket, r.heap, n) /\ Has(d, n, S)
      /\ \A q \in S : r.heap[q].key = heap[q].key /\ r.heap[q].value = heap[q].value
  BY DEF Store
<1>2. /\ f = [q \in T |-> f[q]] /\ DOMAIN f = T /\ f[p] = new0
      /\ \A q \in S : f[q] = r.heap[q]
  BY DEF Fresh
<1>3. p \notin S OBVIOUS
<1> HIDE DEF f, S
<1>4. \A q \in T : f[q] \in Entry(T)
  <2>1. new0 \in Entry(T) BY DEF Entry
  <2>2. ASSUME NEW q \in S PROVE f[q] \in Entry(T)
    <3>1. r.heap[q] \in Entry(S) BY <1>1 DEF Typed
    <3> QED BY <1>2, <3>1 DEF Entry
  <2> QED BY <1>2, <2>1, <2>2
<1>5. Typed(f)
  <2>1. T \subseteq Cells BY <1>1 DEF Typed
  <2> HIDE DEF T
  <2> QED BY <1>2, <1>4, <2>1 DEF Typed
<1>6. Chained(d, r.bucket, f, n)
  <2>1. d \in [0 .. n - 1 -> Seq(S)] BY <1>1 DEF Chained
  <2>2. \A i \in 0 .. n - 1 : d[i] \in Seq(S) BY <2>1
  <2>3. d \in [0 .. n - 1 -> Seq(T)]
    <3>1. \A i \in 0 .. n - 1 : d[i] \in Seq(T) BY <2>2, SeqMonotonic
    <3> QED BY <2>1, <3>1
  <2>4. ASSUME NEW i \in 0 .. n - 1
        PROVE  Spells(d[i], r.bucket[i], f) /\ Apiece(d[i]) /\ Home(d[i], i, n, f)
    <3>1. /\ Spells(d[i], r.bucket[i], r.heap) /\ Apiece(d[i]) /\ Home(d[i], i, n, r.heap)
      BY <1>1 DEF Chained
    <3>2. \A x \in 1 .. Len(d[i]) : d[i][x] \in S BY <2>2, Places
    <3>3. \A x \in 1 .. Len(d[i]) : f[d[i][x]] = r.heap[d[i][x]] BY <1>2, <3>2
    <3>4. Spells(d[i], r.bucket[i], f) BY <3>1, <3>3 DEF Spells
    <3>5. Home(d[i], i, n, f) BY <3>1, <3>3 DEF Home
    <3> QED BY <3>1, <3>4, <3>5
  <2> QED BY <1>2, <2>3, <2>4 DEF Chained
<1>7. r.bucket \in Heads(n, f) BY <1>1, <1>2 DEF Heads, S
<1>8. Store([bucket |-> r.bucket, heap |-> f], d, n, S, f)
  BY <1>1, <1>2, <1>5, <1>6, <1>7 DEF Store
<1>9. f[p].key = k /\ f[p].value = v BY <1>2
<1> QED BY <1>1, <1>2, <1>8, <1>9 DEF FreshRight, f, S

\* It leaves the order of the others as it was.
LEMMA FrontOrder ==
  ASSUME NEW S, NEW T, NEW s \in Seq(S), S \subseteq T, NEW p \in T, NEW q \in S, NEW r \in S,
         p \notin S
  PROVE  Before(s, q, r) <=> Before(<<p>> \o s, q, r)
<1> DEFINE t == <<p>> \o s
           L == Len(s)
<1>1. /\ Len(t) = L + 1 /\ t[1] = p /\ L \in Nat
      /\ \A x \in 1 .. L : t[x + 1] = s[x]
      /\ \A y \in 1 .. L + 1 : y = 1 \/ y - 1 \in 1 .. L
  <2>1. s \in Seq(T) BY SeqMonotonic
  <2>2. L \in Nat BY Places
  <2> QED BY <2>1, <2>2, InFront
<1> HIDE DEF t, L
<1>2. ASSUME NEW x \in 1 .. L, NEW y \in 1 .. L, x < y, s[x] = q, s[y] = r
      PROVE  \E z, w \in 1 .. L + 1 : z < w /\ t[z] = q /\ t[w] = r
  <2>1. x + 1 \in 1 .. L + 1 /\ y + 1 \in 1 .. L + 1 /\ x + 1 < y + 1 BY <1>1, <1>2
  <2>2. t[x + 1] = q /\ t[y + 1] = r BY <1>1, <1>2
  <2> QED BY <2>1, <2>2
<1>3. ASSUME NEW z \in 1 .. L + 1, NEW w \in 1 .. L + 1, z < w, t[z] = q, t[w] = r
      PROVE  \E x, y \in 1 .. L : x < y /\ s[x] = q /\ s[y] = r
  <2>1. z # 1 /\ w # 1 BY <1>1, <1>3
  <2>2. z - 1 \in 1 .. L /\ w - 1 \in 1 .. L /\ z - 1 < w - 1 BY <1>1, <1>3, <2>1
  <2>3. t[(z - 1) + 1] = s[z - 1] /\ t[(w - 1) + 1] = s[w - 1] BY <1>1, <2>2
  <2>4. (z - 1) + 1 = z /\ (w - 1) + 1 = w OBVIOUS
  <2>5. s[z - 1] = q /\ s[w - 1] = r BY <1>3, <2>3, <2>4
  <2> QED BY <2>2, <2>5
<1> QED BY <1>1, <1>2, <1>3 DEF Before, t, L

\* The table with a new entry.
Added(c, k, v, p) ==
    LET s == Stored(k, v, p)
    IN  /\ DOMAIN s.heap = DOMAIN heap \cup {p} /\ s.heap[p].key = k /\ s.heap[p].value = v
        /\ \A q \in DOMAIN heap :
              s.heap[q].key = heap[q].key /\ s.heap[q].value = heap[q].value
        /\ \E d : /\ Linked(d, s.bucket, s.heap, Room)
                  /\ ~Crowded => SameOrder(c, d, DOMAIN heap, heap, s.heap)

LEMMA StoredIs ==
  ASSUME TableAssumption, size \in Nat \ {0}, NEW c, Linked(c, bucket, heap, size),
         NEW k \in Keys, NEW v \in Vals, NEW p \in Cells \ DOMAIN heap
  PROVE  Room \in Nat \ {0} /\ Added(c, k, v, p)
<1> DEFINE S == DOMAIN heap
           T == S \cup {p}
           r == Roomy
           f == Fresh(r, k, v, p)
           s == Stored(k, v, p)
           i == Slot(k)
<1>1. Room \in Nat \ {0} /\ Roomed(c) BY RoomyIs
<1>2. PICK d : Store(r, d, Room, S, heap) /\ (~Crowded => d = c /\ Room = size)
  BY <1>1 DEF Roomed
<1>3. /\ Store([bucket |-> r.bucket, heap |-> f], d, Room, S, f)
      /\ DOMAIN f = T /\ f[p].key = k /\ f[p].value = v
      /\ \A q \in S : f[q].key = heap[q].key /\ f[q].value = heap[q].value
  <2>1. Store(r, d, Room, DOMAIN heap, heap) BY <1>2
  <2> HIDE DEF r
  <2>2. FreshRight(r, d, Room, k, v, p) BY <1>1, <2>1, FreshIs
  <2> QED BY <2>2 DEF FreshRight
<1>4. s = Push([bucket |-> r.bucket, heap |-> f], p, i) BY DEF Stored
<1> HIDE DEF r, f, s
<1>5. i = Index(f[p].key, Room) BY <1>3 DEF Slot
<1> HIDE DEF i
<1> DEFINE e == [d EXCEPT ![i] = <<p>> \o d[i]]
<1>6. Store(s, e, Room, S \cup {p}, f) BY <1>1, <1>3, <1>4, <1>5, PushIs
<1>7. Linked(e, s.bucket, s.heap, Room) BY <1>3, <1>6, StoreLinked
<1>8. DOMAIN s.heap = T /\ \A q \in T : s.heap[q].key = f[q].key /\ s.heap[q].value = f[q].value
  BY <1>3, <1>6 DEF Store
<1>9. ASSUME ~Crowded PROVE SameOrder(c, e, S, heap, s.heap)
  <2> SUFFICES ASSUME NEW q \in S, NEW z \in S
               PROVE  Comes(c, size, heap, q, z) <=> Comes(e, size, s.heap, q, z)
    BY DEF SameOrder
  <2> DEFINE j == Index(heap[q].key, size)
  <2>1. s.heap[q].key = heap[q].key /\ s.heap[z].key = heap[z].key BY <1>3, <1>8
  <2>2. d = c /\ Room = size BY <1>2, <1>9
  <2>3. j \in 0 .. size - 1 /\ c[j] \in Seq(S)
    <3>1. Parts(c, heap, size) BY LinkedParts
    <3>2. j \in 0 .. size - 1 BY <3>1 DEF Parts
    <3> QED BY <3>1, <3>2 DEF Parts
  <2>4. j \in DOMAIN d BY <2>2, <2>3 DEF Linked, Chained
  <2>5. Before(c[j], q, z) <=> Before(e[j], q, z)
    <3>1. CASE j = i
      <4>1. e[j] = <<p>> \o c[j] BY <2>2, <2>4, <3>1
      <4>2. S \subseteq T /\ p \in T /\ p \notin S OBVIOUS
      <4> HIDE DEF e, j, S, T
      <4>3. Before(c[j], q, z) <=> Before(<<p>> \o c[j], q, z) BY <2>3, <4>2, FrontOrder
      <4> QED BY <4>1, <4>3
    <3>2. CASE j # i
      <4>1. e[j] = c[j] BY <2>2, <2>4, <3>2
      <4> QED BY <4>1
    <3> QED BY <3>1, <3>2
  <2> HIDE DEF e
  <2>6. /\ Comes(c, size, heap, q, z) <=>
              (j < Index(heap[z].key, size) \/ (j = Index(heap[z].key, size) /\ Before(c[j], q, z)))
        /\ Comes(e, size, s.heap, q, z) <=>
              (j < Index(heap[z].key, size) \/ (j = Index(heap[z].key, size) /\ Before(e[j], q, z)))
    BY <2>1 DEF Comes
  <2> HIDE DEF j
  <2> QED BY <2>5, <2>6
<1>10. s.heap[p].key = k /\ s.heap[p].value = v BY <1>3, <1>8
<1>11. \A q \in S : s.heap[q].key = heap[q].key /\ s.heap[q].value = heap[q].value
  BY <1>3, <1>8
<1> HIDE DEF e
<1> QED BY <1>1, <1>7, <1>8, <1>9, <1>10, <1>11 DEF Added, s
-----------------------------------------------------------------------------
\* q is the entry htab_foreach begins with, from bucket i on; r the one it has after p.
Place(q) == Index(heap[q].key, size)
Begins(c, i, q) ==
    IF q = None THEN \A e \in DOMAIN heap : ~(Place(e) >= i)
    ELSE /\ q \in DOMAIN heap /\ ~Comes(c, size, heap, q, q)
         /\ \A e \in DOMAIN heap : Place(e) >= i <=> e = q \/ Comes(c, size, heap, q, e)
Follows(c, p, r) ==
    IF r = None THEN \A e \in DOMAIN heap : ~Comes(c, size, heap, p, e)
    ELSE /\ r \in DOMAIN heap /\ ~Comes(c, size, heap, r, r)
         /\ \A e \in DOMAIN heap : Comes(c, size, heap, p, e)
                                      <=> e = r \/ Comes(c, size, heap, r, e)

\* Where an entry is tells what comes later.
LEMMA ComesAt ==
  ASSUME TableAssumption, size \in Nat \ {0}, NEW c, Linked(c, bucket, heap, size),
         NEW p \in DOMAIN heap, NEW x \in 1 .. Len(c[Place(p)]), c[Place(p)][x] = p,
         NEW q \in DOMAIN heap
  PROVE  Comes(c, size, heap, p, q) <=>
            \/ Place(p) < Place(q)
            \/ /\ Place(p) = Place(q)
               /\ \E y \in 1 .. Len(c[Place(p)]) : x < y /\ c[Place(p)][y] = q
<1> DEFINE i == Place(p)
<1>1. Place(p) \in 0 .. size - 1
  <2>1. Parts(c, heap, size) BY LinkedParts
  <2> QED BY <2>1 DEF Parts, Place
<1>2. Apiece(c[i]) BY <1>1 DEF Linked, Chained
<1> HIDE DEF i
<1>3. Before(c[i], p, q) <=> \E y \in 1 .. Len(c[i]) : x < y /\ c[i][y] = q
  <2>1. x \in 1 .. Len(c[i]) /\ c[i][x] = p BY DEF i
  <2> QED BY <1>2, <2>1 DEF Before, Apiece
<1> QED BY <1>3 DEF Comes, Place, i

LEMMA FirstIs ==
  ASSUME TableAssumption, size \in Nat \ {0}, NEW c, Linked(c, bucket, heap, size),
         NEW i \in 0 .. size
  PROVE  Begins(c, i, FirstFrom(i))
<1> DEFINE S == DOMAIN heap
           taken == {j \in i .. size - 1 : bucket[j] # None}
<1>1. /\ None \notin S
      /\ \A j \in 0 .. size - 1 : /\ c[j] \in Seq(S) /\ Len(c[j]) \in Nat
                                  /\ \A x \in 1 .. Len(c[j]) : c[j][x] \in S
      /\ \A q \in S : /\ Place(q) \in 0 .. size - 1
                      /\ \E x \in 1 .. Len(c[Place(q)]) : c[Place(q)][x] = q
  <2>1. Parts(c, heap, size) BY LinkedParts
  <2> QED BY <2>1 DEF Parts, Place
<1>2. \A j \in 0 .. size - 1 : /\ bucket[j] = IF Len(c[j]) = 0 THEN None ELSE c[j][1]
                               /\ \A x \in 1 .. Len(c[j]) : Place(c[j][x]) = j
  BY DEF Linked, Chained, Spells, Home, Place
<1> HIDE DEF S
<1>3. ASSUME NEW q \in S, Place(q) >= i PROVE Place(q) \in taken
  <2>1. Place(q) \in i .. size - 1 BY <1>1, <1>3
  <2>2. PICK x \in 1 .. Len(c[Place(q)]) : c[Place(q)][x] = q BY <1>1
  <2>3. Place(q) \in 0 .. size - 1 BY <1>1
  <2>4. Len(c[Place(q)]) \in Nat /\ 1 \in 1 .. Len(c[Place(q)]) BY <1>1, <2>2, <2>3
  <2>5. bucket[Place(q)] = c[Place(q)][1] /\ c[Place(q)][1] \in S BY <1>1, <1>2, <2>3, <2>4
  <2> QED BY <1>1, <2>1, <2>5
<1>4. CASE taken = {}
  <2>1. FirstFrom(i) = None BY <1>4 DEF FirstFrom
  <2>2. \A e \in S : ~(Place(e) >= i) BY <1>3, <1>4
  <2> QED BY <2>1, <2>2 DEF Begins, S
<1>5. CASE taken # {}
  <2> DEFINE least(j) == \A h \in taken : j <= h
             k == CHOOSE j \in taken : least(j)
  <2>1. k \in taken /\ least(k)
    <3>1. taken \in SUBSET Nat OBVIOUS
    <3>2. \E j \in taken : \A h \in taken : j <= h
      <4> HIDE DEF taken
      <4> QED BY <1>5, <3>1, HasLeast
    <3> HIDE DEF taken
    <3> QED BY <3>2
  <2>2. FirstFrom(i) = bucket[k] BY <1>5 DEF FirstFrom
  <2> HIDE DEF k
  <2> DEFINE f == bucket[k]
  <2>3. k \in 0 .. size - 1 /\ k >= i /\ f # None BY <2>1
  <2>4. f = c[k][1] /\ 1 \in 1 .. Len(c[k]) /\ f \in S /\ Place(f) = k
    <3>1. Len(c[k]) # 0 /\ f = c[k][1] BY <1>2, <2>3
    <3>2. 1 \in 1 .. Len(c[k]) BY <1>1, <2>3, <3>1
    <3> QED BY <1>1, <1>2, <2>3, <3>1, <3>2
  <2> HIDE DEF f, taken
  <2>5. ASSUME NEW q \in S
        PROVE  Comes(c, size, heap, f, q) <=>
                  \/ k < Place(q)
                  \/ k = Place(q) /\ \E y \in 1 .. Len(c[k]) : 1 < y /\ c[k][y] = q
    BY <2>4, ComesAt DEF S
  <2>6. ~Comes(c, size, heap, f, f)
    <3>1. Apiece(c[k]) BY <2>3 DEF Linked, Chained
    <3>2. \A y \in 1 .. Len(c[k]) : c[k][y] = f => y = 1 BY <2>4, <3>1 DEF Apiece
    <3>3. ~(k < k) BY <2>3
    <3> QED BY <2>4, <2>5, <3>2, <3>3
  <2>7. ASSUME NEW e \in S PROVE Place(e) >= i <=> e = f \/ Comes(c, size, heap, f, e)
    <3>1. Place(e) \in 0 .. size - 1 BY <1>1
    <3>2. ASSUME Place(e) >= i PROVE e = f \/ Comes(c, size, heap, f, e)
      <4>1. k <= Place(e) BY <1>3, <2>1, <3>2
      <4>2. CASE k < Place(e) BY <2>5, <4>2
      <4>3. CASE k = Place(e)
        <5>1. PICK y \in 1 .. Len(c[k]) : c[k][y] = e BY <1>1, <4>3
        <5>2. y = 1 \/ 1 < y OBVIOUS
        <5> QED BY <2>4, <2>5, <4>3, <5>1, <5>2
      <4> QED BY <2>3, <3>1, <4>1, <4>2, <4>3
    <3>3. ASSUME e = f \/ Comes(c, size, heap, f, e) PROVE Place(e) >= i
      <4>1. k <= Place(e) BY <2>3, <2>4, <2>5, <3>1, <3>3
      <4> QED BY <2>3, <3>1, <4>1
    <3> QED BY <3>2, <3>3
  <2>8. FirstFrom(i) = f BY <2>2 DEF f
  <2>9. f # None BY <1>1, <2>4
  <2> QED BY <2>4, <2>6, <2>7, <2>8, <2>9 DEF Begins, S
<1> QED BY <1>4, <1>5

LEMMA FollowingIs ==
  ASSUME TableAssumption, size \in Nat \ {0}, NEW c, Linked(c, bucket, heap, size),
         NEW p \in DOMAIN heap
  PROVE  Follows(c, p, Following(p))
<1> DEFINE S == DOMAIN heap
           i == Place(p)
           L == Len(c[i])
<1>1. /\ None \notin S /\ i \in 0 .. size - 1 /\ L \in Nat
      /\ \A x \in 1 .. L : c[i][x] \in S
      /\ \A q \in S : /\ Place(q) \in 0 .. size - 1
                      /\ \E x \in 1 .. Len(c[Place(q)]) : c[Place(q)][x] = q
  <2>1. Parts(c, heap, size) BY LinkedParts
  <2>2. /\ None \notin S /\ i \in 0 .. size - 1
        /\ \A q \in S : /\ Place(q) \in 0 .. size - 1
                        /\ \E x \in 1 .. Len(c[Place(q)]) : c[Place(q)][x] = q
    BY <2>1 DEF Parts, Place
  <2> QED BY <2>1, <2>2 DEF Parts
<1>2. PICK x \in 1 .. L : c[i][x] = p BY <1>1
<1>3. /\ Apiece(c[i]) /\ \A y \in 1 .. L : Place(c[i][y]) = i
      /\ heap[p].next = IF x = L THEN None ELSE c[i][x + 1]
  <2>1. Spells(c[i], bucket[i], heap) /\ Apiece(c[i]) /\ Home(c[i], i, size, heap)
    BY <1>1 DEF Linked, Chained
  <2>2. \A y \in 1 .. L : Index(heap[c[i][y]].key, size) = i BY <2>1 DEF Home
  <2>3. heap[c[i][x]].next = IF x = L THEN None ELSE c[i][x + 1] BY <2>1 DEF Spells
  <2> HIDE DEF i
  <2> QED BY <1>2, <2>1, <2>2, <2>3 DEF Place
<1>4. ASSUME NEW q \in S
      PROVE  Comes(c, size, heap, p, q) <=>
                \/ i < Place(q)
                \/ i = Place(q) /\ \E y \in 1 .. L : x < y /\ c[i][y] = q
  BY <1>2, ComesAt
<1>5. Index(heap[p].key, size) = i BY DEF Place
<1> HIDE DEF i
<1>6. CASE x = L
  <2> DEFINE f == FirstFrom(i + 1)
  <2>1. Following(p) = f BY <1>3, <1>5, <1>6 DEF Following
  <2>2. Begins(c, i + 1, f)
    <3>1. i + 1 \in 0 .. size BY <1>1
    <3> QED BY <3>1, FirstIs
  <2>3. ASSUME NEW q \in S PROVE Comes(c, size, heap, p, q) <=> Place(q) >= i + 1
    <3>1. i < Place(q) <=> Place(q) >= i + 1 BY <1>1
    <3>2. \A y \in 1 .. L : ~(x < y) BY <1>1, <1>6
    <3> QED BY <1>4, <3>1, <3>2
  <2> HIDE DEF f
  <2> QED BY <2>1, <2>2, <2>3 DEF Begins, Follows, S
<1>7. CASE x # L
  <2> DEFINE r == c[i][x + 1]
  <2>1. x + 1 \in 1 .. L BY <1>1, <1>7
  <2>2. r \in S /\ Place(r) = i /\ r # None BY <1>1, <1>3, <2>1
  <2>3. Following(p) = r BY <1>3, <1>7, <2>2 DEF Following
  <2>4. ASSUME NEW q \in S
        PROVE  Comes(c, size, heap, r, q) <=>
                  \/ i < Place(q)
                  \/ i = Place(q) /\ \E y \in 1 .. L : x + 1 < y /\ c[i][y] = q
    <3>1. c[Place(r)][x + 1] = r /\ x + 1 \in 1 .. Len(c[Place(r)]) BY <2>1, <2>2
    <3> HIDE DEF r
    <3>2. Comes(c, size, heap, r, q) <=>
             \/ Place(r) < Place(q)
             \/ /\ Place(r) = Place(q)
                /\ \E y \in 1 .. Len(c[Place(r)]) : x + 1 < y /\ c[Place(r)][y] = q
      BY <2>2, <3>1, ComesAt DEF S
    <3> QED BY <2>2, <3>2
  <2>5. ~Comes(c, size, heap, r, r)
    <3>1. \A y \in 1 .. L : c[i][y] = r => y = x + 1 BY <1>3, <2>1 DEF Apiece
    <3>2. ~(x + 1 < x + 1) /\ ~(i < i) BY <1>1
    <3> HIDE DEF r
    <3> QED BY <2>2, <2>4, <3>1, <3>2
  <2>6. ASSUME NEW e \in S
        PROVE  Comes(c, size, heap, p, e) <=> e = r \/ Comes(c, size, heap, r, e)
    <3>1. (\E y \in 1 .. L : x < y /\ c[i][y] = e)
             <=> e = r \/ \E y \in 1 .. L : x + 1 < y /\ c[i][y] = e
      <4>1. \A y \in 1 .. L : x < y <=> y = x + 1 \/ x + 1 < y BY <1>1
      <4> QED BY <2>1, <4>1
    <3> HIDE DEF r
    <3> QED BY <1>4, <2>2, <2>4, <3>1
  <2> HIDE DEF r
  <2> QED BY <2>2, <2>3, <2>5, <2>6 DEF Follows, S
<1> QED BY <1>6, <1>7
-----------------------------------------------------------------------------
(***************************************************************************)
(* The inductive invariant of the table.                                   *)
(***************************************************************************)
Rets == {"ok", "err", None} \cup Vals
KeysOnce == \A p, q \in DOMAIN heap : heap[p].key = heap[q].key => p = q

\* What htab_foreach has yet to reach comes later than where it is, and of what comes
\* later nothing else was there when it began.
IterSound(c) ==
    /\ due \cup new \subseteq DOMAIN heap
    /\ at = None => due = {} /\ new = {}
    /\ at # None =>
          /\ at \in DOMAIN heap
          /\ \A q \in DOMAIN heap : /\ q \in due => Comes(c, size, heap, at, q)
                                    /\ Comes(c, size, heap, at, q) => q \in due \cup new

TableInv ==
    /\ size \in Nat \ {0} /\ items = Cardinality(DOMAIN heap) /\ call.ret \in Rets
    /\ KeysOnce
    /\ \E c : Linked(c, bucket, heap, size) /\ IterSound(c)

LEMMA HeapFinite == ASSUME TableAssumption, NEW S, S \subseteq Cells
                    PROVE  IsFiniteSet(S) /\ Cardinality(S) \in Nat
BY FS_Subset, FS_CardinalityType DEF TableAssumption, CellsAssumption

LEMMA TypeIs == TableAssumption /\ TableInv => TypeOK
<1> SUFFICES ASSUME TableAssumption, TableInv PROVE TypeOK
  OBVIOUS
<1>1. PICK c : Linked(c, bucket, heap, size) /\ IterSound(c) BY DEF TableInv
<1>2. Typed(heap) /\ bucket \in Heads(size, heap) BY <1>1 DEF Linked
<1>3. items \in Nat
  <2>1. DOMAIN heap \subseteq Cells BY <1>2 DEF Typed
  <2> QED BY <2>1, HeapFinite DEF TableInv
<1>4. \A q \in DOMAIN heap : heap[q] \in [key : Keys, value : Vals,
         prev : DOMAIN heap \cup {None}, next : DOMAIN heap \cup {None}]
  BY <1>2 DEF Typed, Entry
<1>5. at \in DOMAIN heap \cup {None} /\ due \cup new \subseteq DOMAIN heap
  BY <1>1 DEF IterSound
<1>6. /\ size \in Nat \ {0} /\ DOMAIN heap \subseteq Cells
      /\ bucket \in [0 .. size - 1 -> DOMAIN heap \cup {None}]
      /\ call.ret \in {"ok", "err", None} \cup Vals
  BY <1>2 DEF TableInv, Typed, Heads, Rets
<1> QED BY <1>3, <1>4, <1>5, <1>6 DEF TypeOK

\* No entries, no chains.
LEMMA EmptyIs ==
  ASSUME NEW n \in Nat, NEW h, Typed(h), DOMAIN h = {}
  PROVE  \E c : Linked(c, NoEntries(n), h, n)
<1> DEFINE c == [i \in 0 .. n - 1 |-> <<>>]
<1>1. <<>> \in Seq(DOMAIN h) /\ Len(<<>>) = 0 BY EmptySeq
<1>2. NoEntries(n) \in Heads(n, h) /\ \A i \in 0 .. n - 1 : NoEntries(n)[i] = None
  BY DEF NoEntries, Heads
<1>3. \A x : x \notin 1 .. 0 OBVIOUS
<1>4. Chained(c, NoEntries(n), h, n)
  <2>1. c \in [0 .. n - 1 -> Seq(DOMAIN h)] BY <1>1
  <2> QED BY <1>1, <1>2, <1>3, <2>1 DEF Chained, Spells, Apiece, Home
<1>5. Has(c, n, DOMAIN h) BY <1>1, <1>3 DEF Has
<1>6. Linked(c, NoEntries(n), h, n)
  <2> HIDE DEF c
  <2> QED BY <1>2, <1>4, <1>5 DEF Linked
<1> QED BY <1>6

LEMMA InitTable == TableAssumption /\ Init => TableInv
<1> SUFFICES ASSUME TableAssumption, Init PROVE TableInv
  OBVIOUS
<1>1. /\ size = InitialSize /\ items = 0 /\ bucket = NoEntries(size) /\ heap = <<>>
      /\ at = None /\ due = {} /\ new = {} /\ call.ret = "ok"
  BY DEF Init, Call
<1>2. size \in Nat \ {0} BY <1>1 DEF TableAssumption, SizeAssumption
<1>3. DOMAIN heap = {} /\ Typed(heap) /\ Cardinality(DOMAIN heap) = 0
  BY <1>1, FS_EmptySet DEF Typed
<1>4. PICK c : Linked(c, bucket, heap, size) BY <1>1, <1>2, <1>3, EmptyIs
<1>5. IterSound(c) BY <1>1 DEF IterSound
<1> QED BY <1>1, <1>2, <1>3, <1>4, <1>5 DEF TableInv, KeysOnce, Rets

\* Calls that look, or fail at once.
LEMMA QuietKeeps ==
  ASSUME TableInv, UNCHANGED <<size, items, bucket, heap, at, due, new>>, call'.ret \in Rets
  PROVE  TableInv'
<1>1. PICK c : Linked(c, bucket, heap, size) /\ IterSound(c) BY DEF TableInv
<1>2. Linked(c, bucket', heap', size') /\ IterSound(c)' BY <1>1 DEF IterSound
<1>3. KeysOnce' /\ size' \in Nat \ {0} /\ items' = Cardinality(DOMAIN heap')
  BY DEF TableInv, KeysOnce
<1> QED BY <1>2, <1>3 DEF TableInv

\* What htab_get finds is the value of the entry with the key.
Values == \A k \in Keys :
    \/ ValueOf(k) = None /\ Found(k) = None /\ \A q \in DOMAIN heap : heap[q].key # k
    \/ \E q \in DOMAIN heap : /\ heap[q].key = k /\ Found(k) = q
                              /\ ValueOf(k) = heap[q].value /\ heap[q].value \in Vals

LEMMA ValuesAre == TableAssumption /\ TableInv => Values /\ None \notin DOMAIN heap
<1> SUFFICES ASSUME TableAssumption, TableInv PROVE Values /\ None \notin DOMAIN heap
  OBVIOUS
<1>1. PICK c : Linked(c, bucket, heap, size) BY DEF TableInv
<1>2. /\ Typed(heap) /\ Chained(c, bucket, heap, size) /\ Has(c, size, DOMAIN heap)
      /\ size \in Nat \ {0}
  BY <1>1 DEF Linked, TableInv
<1>3. None \notin DOMAIN heap BY <1>2, NoneIsNoCell DEF Typed
<1>4. ASSUME NEW k \in Keys
      PROVE  \/ ValueOf(k) = None /\ Found(k) = None /\ \A q \in DOMAIN heap : heap[q].key # k
             \/ \E q \in DOMAIN heap : /\ heap[q].key = k /\ Found(k) = q
                                       /\ ValueOf(k) = heap[q].value /\ heap[q].value \in Vals
  <2>1. Right(Found(k), k) BY <1>2, FoundIs
  <2>2. CASE Found(k) = None
    <3>1. ValueOf(k) = None BY <2>2 DEF ValueOf
    <3> QED BY <1>3, <2>1, <2>2, <3>1 DEF Right
  <2>3. CASE Found(k) # None
    <3>1. Found(k) \in DOMAIN heap /\ heap[Found(k)].key = k BY <2>1, <2>3 DEF Right
    <3>2. ValueOf(k) = heap[Found(k)].value BY <2>3 DEF ValueOf
    <3>3. heap[Found(k)].value \in Vals BY <1>2, <3>1, Fields
    <3> QED BY <3>1, <3>2, <3>3
  <2> QED BY <2>2, <2>3
<1> QED BY <1>3, <1>4 DEF Values

LEMMA GetKeeps == ASSUME TableAssumption, TableInv, NEW k \in Keys, htab_get(k)
                  PROVE  TableInv'
<1>1. call'.ret \in Rets BY ValuesAre DEF Values, htab_get, Call, Rets
<1> QED BY <1>1, QuietKeeps DEF htab_get

\* The same links make the same chains, whatever the values.
LEMMA SameLinks ==
  ASSUME NEW c, NEW b, NEW h, NEW n, Linked(c, b, h, n), NEW g, Typed(g),
         DOMAIN g = DOMAIN h,
         \A q \in DOMAIN h : /\ g[q].key = h[q].key
                             /\ g[q].next = h[q].next /\ g[q].prev = h[q].prev
  PROVE  Linked(c, b, g, n)
<1>1. Chained(c, b, h, n) /\ Has(c, n, DOMAIN h) /\ b \in Heads(n, h) BY DEF Linked
<1>2. c \in [0 .. n - 1 -> Seq(DOMAIN h)] BY <1>1 DEF Chained
<1>3. ASSUME NEW i \in 0 .. n - 1
      PROVE  Spells(c[i], b[i], g) /\ Apiece(c[i]) /\ Home(c[i], i, n, g)
  <2>1. \A x \in 1 .. Len(c[i]) : c[i][x] \in DOMAIN h
    <3>1. c[i] \in Seq(DOMAIN h) BY <1>2
    <3> QED BY <3>1, Places
  <2>2. Spells(c[i], b[i], h) /\ Apiece(c[i]) /\ Home(c[i], i, n, h) BY <1>1 DEF Chained
  <2>3. Spells(c[i], b[i], g) BY <2>1, <2>2 DEF Spells
  <2>4. Home(c[i], i, n, g) BY <2>1, <2>2 DEF Home
  <2> QED BY <2>2, <2>3, <2>4
<1>4. Chained(c, b, g, n) BY <1>2, <1>3 DEF Chained
<1>5. Has(c, n, DOMAIN g) /\ b \in Heads(n, g) BY <1>1 DEF Heads
<1> QED BY <1>4, <1>5 DEF Linked

\* htab_put where the key is.
LEMMA PutOldKeeps ==
  ASSUME TableAssumption, TableInv, NEW k \in Keys, NEW v \in Vals, PutOld(k, v)
  PROVE  /\ TableInv'
         /\ DOMAIN heap' = DOMAIN heap
         /\ \A q \in DOMAIN heap : /\ heap'[q].key = heap[q].key
                                   /\ heap'[q].value = IF heap[q].key = k THEN v
                                                       ELSE heap[q].value
<1> DEFINE p == Found(k)
<1>1. PICK c : Linked(c, bucket, heap, size) /\ IterSound(c) BY DEF TableInv
<1>2. p \in DOMAIN heap /\ heap[p].key = k BY ValuesAre DEF Values, PutOld
<1>3. /\ heap' = [heap EXCEPT ![p].value = v] /\ call'.ret = "ok"
      /\ UNCHANGED <<size, items, bucket, at, due, new>>
  BY DEF PutOld, Call
<1> HIDE DEF p
<1>4. Typed(heap) /\ heap \in [DOMAIN heap -> Entry(DOMAIN heap)] /\ DOMAIN heap' = DOMAIN heap
  BY <1>1, <1>3 DEF Linked, Typed
<1>5. ASSUME NEW q \in DOMAIN heap
      PROVE  /\ heap'[q] \in Entry(DOMAIN heap) /\ heap'[q].key = heap[q].key
             /\ heap'[q].next = heap[q].next /\ heap'[q].prev = heap[q].prev
             /\ heap'[q].value = IF q = p THEN v ELSE heap[q].value
  <2>1. heap[q] \in Entry(DOMAIN heap) BY <1>4
  <2>2. CASE q = p
    <3>1. heap'[q] = [heap[q] EXCEPT !.value = v] BY <1>2, <1>3, <2>2
    <3> QED BY <2>1, <2>2, <3>1 DEF Entry
  <2>3. CASE q # p
    <3>1. heap'[q] = heap[q] BY <1>3, <2>3
    <3> QED BY <2>1, <2>3, <3>1
  <2> QED BY <2>2, <2>3
<1>6. Typed(heap')
  <2>1. heap' = [q \in DOMAIN heap |-> heap'[q]] BY <1>3, <1>4
  <2> QED BY <1>4, <1>5, <2>1 DEF Typed
<1>7. Linked(c, bucket', heap', size')
  <2>1. Linked(c, bucket, heap', size) BY <1>1, <1>4, <1>5, <1>6, SameLinks
  <2> QED BY <1>3, <2>1
<1>8. IterSound(c)'
  <2>1. \A q, r \in DOMAIN heap : Comes(c, size, heap, q, r) <=> Comes(c, size', heap', q, r)
    BY <1>3, <1>5 DEF Comes
  <2> QED BY <1>1, <1>3, <1>4, <2>1 DEF IterSound
<1>9. KeysOnce' BY <1>4, <1>5 DEF TableInv, KeysOnce
<1>10. \A q \in DOMAIN heap : q = p <=> heap[q].key = k BY <1>2 DEF TableInv, KeysOnce
<1>11. TableInv' BY <1>3, <1>4, <1>7, <1>8, <1>9 DEF TableInv, Rets
<1> QED BY <1>4, <1>5, <1>10, <1>11

\* htab_put of a new key, whether the table grows or not.
LEMMA PutNewKeeps ==
  ASSUME TableAssumption, TableInv, NEW k \in Keys, NEW v \in Vals, PutNew(k, v)
  PROVE  /\ TableInv'
         /\ \A q \in DOMAIN heap : heap[q].key # k
         /\ \E p : /\ DOMAIN heap' = DOMAIN heap \cup {p} /\ p \notin DOMAIN heap
                   /\ heap'[p].key = k /\ heap'[p].value = v
                   /\ \A q \in DOMAIN heap : /\ heap'[q].key = heap[q].key
                                             /\ heap'[q].value = heap[q].value
<1>1. PICK c : Linked(c, bucket, heap, size) /\ IterSound(c) BY DEF TableInv
<1>2. \A q \in DOMAIN heap : heap[q].key # k BY ValuesAre DEF Values, PutNew
<1>3. /\ size' = Room /\ items' = items + 1 /\ call'.ret = "ok" /\ UNCHANGED <<at, due>>
      /\ at # None => ~Crowded
  BY DEF PutNew, MayAdd, Call
<1>4. PICK p \in Cells \ DOMAIN heap :
         /\ bucket' = Stored(k, v, p).bucket /\ heap' = Stored(k, v, p).heap
         /\ new' = IF at = None THEN {} ELSE new \cup {p}
  BY DEF PutNew, Stored, Fresh
<1>5. Room \in Nat \ {0} /\ Added(c, k, v, p) BY <1>1, StoredIs DEF TableInv
<1>6. /\ DOMAIN heap' = DOMAIN heap \cup {p} /\ heap'[p].key = k /\ heap'[p].value = v
      /\ \A q \in DOMAIN heap : heap'[q].key = heap[q].key /\ heap'[q].value = heap[q].value
  BY <1>4, <1>5 DEF Added
<1>7. PICK d : /\ Linked(d, bucket', heap', Room)
               /\ ~Crowded => SameOrder(c, d, DOMAIN heap, heap, heap')
  BY <1>4, <1>5 DEF Added
<1>8. Linked(d, bucket', heap', size') BY <1>3, <1>7
<1>9. IterSound(d)'
  <2>1. CASE at = None BY <1>1, <1>3, <1>4, <2>1 DEF IterSound
  <2>2. CASE at # None
    <3>1. size' = size /\ new' = new \cup {p} BY <1>3, <1>4, <2>2 DEF Room
    <3>2. \A q, r \in DOMAIN heap : Comes(c, size, heap, q, r) <=> Comes(d, size', heap', q, r)
      BY <1>3, <1>7, <2>2, <3>1 DEF SameOrder
    <3>3. at \in DOMAIN heap /\ due \cup new \subseteq DOMAIN heap BY <1>1, <2>2 DEF IterSound
    <3>4. ASSUME NEW q \in DOMAIN heap'
          PROVE  /\ q \in due' => Comes(d, size', heap', at', q)
                 /\ Comes(d, size', heap', at', q) => q \in due' \cup new'
      <4>1. CASE q = p BY <1>3, <3>1, <3>3, <4>1
      <4>2. CASE q # p
        <5>1. q \in DOMAIN heap BY <1>6, <4>2
        <5>2. /\ q \in due => Comes(c, size, heap, at, q)
              /\ Comes(c, size, heap, at, q) => q \in due \cup new
          BY <1>1, <2>2, <5>1 DEF IterSound
        <5> QED BY <1>3, <3>1, <3>2, <3>3, <5>1, <5>2
      <4> QED BY <4>1, <4>2
    <3>5. due' \cup new' \subseteq DOMAIN heap' /\ at' \in DOMAIN heap' /\ at' # None
      BY <1>3, <1>6, <2>2, <3>1, <3>3
    <3> QED BY <3>4, <3>5 DEF IterSound
  <2> QED BY <2>1, <2>2
<1>10. items' = Cardinality(DOMAIN heap')
  <2>1. DOMAIN heap \subseteq Cells BY <1>1 DEF Linked, Typed
  <2>2. IsFiniteSet(DOMAIN heap) BY <2>1, HeapFinite
  <2>3. Cardinality(DOMAIN heap \cup {p}) = Cardinality(DOMAIN heap) + 1
    BY <2>2, FS_AddElement
  <2> QED BY <1>3, <1>6, <2>3 DEF TableInv
<1>11. KeysOnce' BY <1>2, <1>6 DEF TableInv, KeysOnce
<1>12. TableInv' BY <1>3, <1>5, <1>8, <1>9, <1>10, <1>11 DEF TableInv, Rets
<1> QED BY <1>2, <1>6, <1>12

\* htab_put that finds no memory for the entry, when it may have found it to grow.
LEMMA EntryFailsKeeps ==
  ASSUME TableAssumption, TableInv, NEW k \in Keys, NEW v \in Vals, EntryFails(k, v)
  PROVE  /\ TableInv'
         /\ DOMAIN heap' = DOMAIN heap
         /\ \A q \in DOMAIN heap : /\ heap'[q].key = heap[q].key
                                   /\ heap'[q].value = heap[q].value
<1>1. PICK c : Linked(c, bucket, heap, size) /\ IterSound(c) BY DEF TableInv
<1>2. /\ size' = Room /\ bucket' = Roomy.bucket /\ heap' = Roomy.heap /\ call'.ret = "err"
      /\ UNCHANGED <<items, at, due, new>> /\ (at # None => ~Crowded)
  BY DEF EntryFails, MayAdd, Call
<1>3. Room \in Nat \ {0} /\ Roomed(c) BY <1>1, RoomyIs DEF TableInv
<1>4. PICK d : /\ Store(Roomy, d, Room, DOMAIN heap, heap)
               /\ ~Crowded => d = c /\ Room = size
  BY <1>3 DEF Roomed
<1>5. Linked(d, bucket', heap', size') BY <1>2, <1>4, StoreLinked
<1>6. /\ DOMAIN heap' = DOMAIN heap
      /\ \A q \in DOMAIN heap : heap'[q].key = heap[q].key /\ heap'[q].value = heap[q].value
  BY <1>2, <1>4 DEF Store
<1>7. IterSound(d)'
  <2>1. CASE at = None BY <1>1, <1>2, <2>1 DEF IterSound
  <2>2. CASE at # None
    <3>1. ~Crowded BY <1>2, <2>2
    <3>2. size' = size /\ d = c BY <1>2, <1>4, <3>1
    <3>3. heap' = heap BY <1>2, <3>1 DEF Roomy
    <3> QED BY <1>1, <1>2, <3>2, <3>3 DEF IterSound
  <2> QED BY <2>1, <2>2
<1>8. items' = Cardinality(DOMAIN heap') /\ KeysOnce'
  BY <1>2, <1>6 DEF TableInv, KeysOnce
<1>9. TableInv' BY <1>2, <1>3, <1>5, <1>7, <1>8 DEF TableInv, Rets
<1> QED BY <1>6, <1>9

\* htab_remove of a key that is there.
Takes(k) ==
    /\ Found(k) # None /\ Found(k) # at
    /\ heap' = Unlink(Found(k)) /\ bucket' = Unhooked(Found(k))
    /\ due' = due \ {Found(k)} /\ new' = new \ {Found(k)}
    /\ items' = Uncount(items) /\ call' = Call("remove", k, "ok") /\ UNCHANGED <<size, at>>

LEMMA TakesKeeps ==
  ASSUME TableAssumption, TableInv, NEW k \in Keys, Takes(k)
  PROVE  /\ TableInv'
         /\ \E p \in DOMAIN heap :
               /\ heap[p].key = k /\ DOMAIN heap' = DOMAIN heap \ {p}
               /\ \A q \in DOMAIN heap \ {p} : /\ heap'[q].key = heap[q].key
                                               /\ heap'[q].value = heap[q].value
<1> DEFINE p == Found(k)
           i == Index(heap[p].key, size)
<1>1. PICK c : Linked(c, bucket, heap, size) /\ IterSound(c) BY DEF TableInv
<1>2. p \in DOMAIN heap /\ heap[p].key = k BY ValuesAre DEF Values, Takes
<1>3. /\ heap' = Unlink(p) /\ bucket' = Unhooked(p) /\ p # at
      /\ due' = due \ {p} /\ new' = new \ {p}
      /\ items' = items - 1 /\ call'.ret = "ok" /\ UNCHANGED <<size, at>>
  BY DEF Takes, Uncount, Call
<1> HIDE DEF p
<1>4. PICK j \in 1 .. Len(c[i]) : c[i][j] = p
  <2>1. Parts(c, heap, size) BY <1>1, LinkedParts DEF TableInv
  <2> QED BY <1>2, <2>1 DEF Parts
<1>5. PICK d : d = [c EXCEPT ![i] = Cut(c[i], j)] OBVIOUS
<1>6. /\ Linked(d, bucket', heap', size')
      /\ SameOrder(c, d, DOMAIN heap \ {p}, heap, heap')
  <2>1. size \in Nat \ {0} BY DEF TableInv
  <2> HIDE DEF i
  <2>2. i = Index(heap[p].key, size) /\ d = [c EXCEPT ![i] = Cut(c[i], j)] BY <1>5 DEF i
  <2>3. /\ Linked(d, Unhooked(p), Unlink(p), size)
        /\ SameOrder(c, d, DOMAIN heap \ {p}, heap, Unlink(p))
    BY <1>1, <1>2, <1>4, <2>1, <2>2, UnlinkIs
  <2> QED BY <1>3, <2>3
<1>7. /\ DOMAIN heap' = DOMAIN heap \ {p}
      /\ \A q \in DOMAIN heap \ {p} : heap'[q].key = heap[q].key /\ heap'[q].value = heap[q].value
  <2>1. DOMAIN heap' = DOMAIN heap \ {p} BY <1>3 DEF Unlink
  <2>2. Typed(heap) BY <1>1 DEF Linked
  <2> QED BY <1>2, <1>3, <2>1, <2>2, UnlinkFields
<1>8. IterSound(d)'
  <2>1. CASE at = None BY <1>1, <1>3, <2>1 DEF IterSound
  <2>2. CASE at # None
    <3>1. at \in DOMAIN heap \ {p} /\ due \cup new \subseteq DOMAIN heap
      BY <1>1, <1>3, <2>2 DEF IterSound
    <3>2. ASSUME NEW q \in DOMAIN heap \ {p}
          PROVE  /\ q \in due' => Comes(d, size', heap', at', q)
                 /\ Comes(d, size', heap', at', q) => q \in due' \cup new'
      <4>1. Comes(c, size, heap, at, q) <=> Comes(d, size, heap', at, q)
        BY <1>6, <3>1 DEF SameOrder
      <4>2. /\ q \in due => Comes(c, size, heap, at, q)
            /\ Comes(c, size, heap, at, q) => q \in due \cup new
        BY <1>1, <2>2 DEF IterSound
      <4> QED BY <1>3, <4>1, <4>2
    <3>3. due' \cup new' \subseteq DOMAIN heap' /\ at' \in DOMAIN heap'
      BY <1>3, <1>7, <3>1
    <3>4. \A q \in DOMAIN heap' : /\ q \in due' => Comes(d, size', heap', at', q)
                                  /\ Comes(d, size', heap', at', q) => q \in due' \cup new'
      BY <1>7, <3>2
    <3>5. at' # None BY <1>3, <2>2
    <3>6. \A q : q \in due' \cup new' => q \in DOMAIN heap' BY <3>3
    <3> HIDE DEF Comes
    <3> QED BY <3>3, <3>4, <3>5 DEF IterSound
  <2> QED BY <2>1, <2>2
<1>9. items' = Cardinality(DOMAIN heap')
  <2>1. DOMAIN heap \subseteq Cells BY <1>1 DEF Linked, Typed
  <2>2. IsFiniteSet(DOMAIN heap) BY <2>1, HeapFinite
  <2>3. Cardinality(DOMAIN heap \ {p}) = Cardinality(DOMAIN heap) - 1
    BY <1>2, <2>2, FS_RemoveElement
  <2> QED BY <1>3, <1>7, <2>3 DEF TableInv
<1>10. KeysOnce' BY <1>7 DEF TableInv, KeysOnce
<1>11. TableInv'
  <2>1. \E e : Linked(e, bucket', heap', size') /\ IterSound(e)' BY <1>6, <1>8
  <2>2. size' \in Nat \ {0} /\ call'.ret \in Rets BY <1>3 DEF TableInv, Rets
  <2> QED BY <1>9, <1>10, <2>1, <2>2 DEF TableInv
<1> QED BY <1>2, <1>7, <1>11

LEMMA RemoveIs ==
  ASSUME TableAssumption, TableInv, NEW k \in Keys, htab_remove(k)
  PROVE  \/ Takes(k)
         \/ /\ Found(k) = None /\ call' = Call("remove", k, "ok")
            /\ UNCHANGED <<size, items, bucket, heap, at, due, new>>
<1>1. CASE Found(k) = None
  BY <1>1 DEF htab_remove
<1>2. CASE Found(k) # None
  <2>1. heap[Found(k)].key = k BY <1>2, ValuesAre DEF Values
  <2> QED BY <1>2, <2>1 DEF htab_remove, Takes, Unhooked
<1> QED BY <1>1, <1>2

\* htab_destroy frees every entry.
LEMMA DestroyKeeps ==
  ASSUME TableAssumption, TableInv, htab_destroy
  PROVE  TableInv' /\ DOMAIN heap' = {}
<1>1. PICK c : Linked(c, bucket, heap, size) /\ IterSound(c) BY DEF TableInv
<1>2. Range(Entries) = DOMAIN heap
  <2>1. /\ Typed(heap) /\ Chained(c, bucket, heap, size) /\ Has(c, size, DOMAIN heap)
        /\ size \in Nat
    BY <1>1 DEF Linked, TableInv
  <2> QED BY <2>1, EntriesAre
<1>3. /\ at = None /\ UNCHANGED <<at, due, new>> /\ call'.ret = "ok" /\ items' = 0
      /\ size' = InitialSize /\ bucket' = NoEntries(InitialSize)
      /\ heap' = [q \in DOMAIN heap \ Range(Entries) |-> heap[q]]
  BY DEF htab_destroy, Call
<1>4. DOMAIN heap' = {} /\ heap' = [q \in {} |-> heap[q]] BY <1>2, <1>3
<1>5. Typed(heap') BY <1>4 DEF Typed
<1>6. InitialSize \in Nat \ {0} BY DEF TableAssumption, SizeAssumption
<1>7. PICK d : Linked(d, bucket', heap', size') BY <1>3, <1>4, <1>5, <1>6, EmptyIs
<1>8. IterSound(d)' BY <1>1, <1>3 DEF IterSound
<1>9. items' = Cardinality(DOMAIN heap') BY <1>3, <1>4, FS_EmptySet
<1>10. KeysOnce' BY <1>4 DEF KeysOnce
<1> QED BY <1>3, <1>4, <1>6, <1>7, <1>8, <1>9, <1>10 DEF TableInv, Rets

\* The loop of htab_foreach.
LEMMA BeginKeeps == ASSUME TableAssumption, TableInv, htab_begin PROVE TableInv'
<1>1. PICK c : Linked(c, bucket, heap, size) /\ IterSound(c) BY DEF TableInv
<1>2. /\ at = None /\ at' = FirstFrom(0) /\ due' = Range(Entries) \ {at'}
      /\ UNCHANGED <<size, items, bucket, heap, new, call>>
  BY DEF htab_begin
<1>3. Range(Entries) = DOMAIN heap /\ size \in Nat \ {0}
  <2>1. /\ Typed(heap) /\ Chained(c, bucket, heap, size) /\ Has(c, size, DOMAIN heap)
        /\ size \in Nat \ {0}
    BY <1>1 DEF Linked, TableInv
  <2> QED BY <2>1, EntriesAre
<1>4. Begins(c, 0, at')
  <2>1. 0 \in 0 .. size BY <1>3
  <2> QED BY <1>1, <1>2, <1>3, <2>1, FirstIs
<1>5. \A q \in DOMAIN heap : Place(q) >= 0
  <2>1. Parts(c, heap, size) BY <1>1, <1>3, LinkedParts
  <2> QED BY <2>1 DEF Parts, Place
<1>6. IterSound(c)'
  <2>1. new = {} BY <1>1, <1>2 DEF IterSound
  <2>2. CASE at' = None
    <3>1. DOMAIN heap = {} BY <1>4, <1>5, <2>2 DEF Begins
    <3> QED BY <1>2, <1>3, <2>1, <2>2, <3>1 DEF IterSound
  <2>3. CASE at' # None
    <3>1. /\ at' \in DOMAIN heap /\ ~Comes(c, size, heap, at', at')
          /\ \A e \in DOMAIN heap : Place(e) >= 0 <=> e = at' \/ Comes(c, size, heap, at', e)
      BY <1>4, <2>3 DEF Begins
    <3> QED BY <1>2, <1>3, <1>5, <2>1, <2>3, <3>1 DEF IterSound
  <2> QED BY <2>2, <2>3
<1>7. Linked(c, bucket', heap', size') /\ KeysOnce' BY <1>1, <1>2 DEF TableInv, KeysOnce
<1> QED BY <1>2, <1>6, <1>7 DEF TableInv

LEMMA NextKeeps ==
  ASSUME TableAssumption, TableInv, htab_next
  PROVE  TableInv' /\ IF at' = None THEN due = {} ELSE at' \in due \cup new
<1>1. PICK c : Linked(c, bucket, heap, size) /\ IterSound(c) BY DEF TableInv
<1>2. /\ at # None /\ at' = Following(at) /\ due' = due \ {at'}
      /\ new' = IF at' = None THEN {} ELSE new \ {at'}
      /\ UNCHANGED <<size, items, bucket, heap, call>>
  BY DEF htab_next
<1>3. /\ at \in DOMAIN heap /\ due \cup new \subseteq DOMAIN heap
      /\ \A q \in DOMAIN heap : /\ q \in due => Comes(c, size, heap, at, q)
                                /\ Comes(c, size, heap, at, q) => q \in due \cup new
  BY <1>1, <1>2 DEF IterSound
<1>4. Follows(c, at, at') BY <1>1, <1>2, <1>3, FollowingIs DEF TableInv
<1>5. CASE at' = None
  <2>1. due = {} BY <1>3, <1>4, <1>5 DEF Follows
  <2>2. IterSound(c)' BY <1>2, <1>5, <2>1 DEF IterSound
  <2>3. Linked(c, bucket', heap', size') /\ KeysOnce' BY <1>1, <1>2 DEF TableInv, KeysOnce
  <2>4. TableInv' BY <1>2, <2>2, <2>3 DEF TableInv
  <2> QED BY <1>5, <2>1, <2>4
<1>6. CASE at' # None
  <2>1. /\ at' \in DOMAIN heap /\ ~Comes(c, size, heap, at', at')
        /\ \A e \in DOMAIN heap : Comes(c, size, heap, at, e)
                                     <=> e = at' \/ Comes(c, size, heap, at', e)
    BY <1>4, <1>6 DEF Follows
  <2>2. at' \in due \cup new BY <1>3, <2>1
  <2>3. IterSound(c)' BY <1>2, <1>3, <1>6, <2>1 DEF IterSound
  <2>4. Linked(c, bucket', heap', size') /\ KeysOnce' BY <1>1, <1>2 DEF TableInv, KeysOnce
  <2>5. TableInv' BY <1>2, <2>3, <2>4 DEF TableInv
  <2> QED BY <1>6, <2>2, <2>5
<1> QED BY <1>5, <1>6

LEMMA BreakKeeps == ASSUME TableInv, Break PROVE TableInv'
<1>1. PICK c : Linked(c, bucket, heap, size) /\ IterSound(c) BY DEF TableInv
<1>2. IterSound(c)' BY DEF Break, IterSound
<1>3. Linked(c, bucket', heap', size') /\ KeysOnce' BY <1>1 DEF TableInv, KeysOnce, Break
<1> QED BY <1>2, <1>3 DEF TableInv, Break
-----------------------------------------------------------------------------
(***************************************************************************)
(* The table as a map.                                                     *)
(***************************************************************************)
Mapped == [k \in Keys |-> ValueOf(k)]

\* An entry gives its key its value, and a key without one has none.
ValueIs == \A k \in Keys :
    /\ \A q \in DOMAIN heap : heap[q].key = k => Mapped[k] = heap[q].value /\ Mapped[k] # None
    /\ (\A q \in DOMAIN heap : heap[q].key # k) => Mapped[k] = None
    /\ Mapped[k] = None <=> Found(k) = None

LEMMA MappedIs == TableAssumption /\ TableInv => ValueIs
<1> SUFFICES ASSUME TableAssumption, TableInv, NEW k \in Keys
             PROVE  /\ \A q \in DOMAIN heap : heap[q].key = k => /\ Mapped[k] = heap[q].value
                                                                 /\ Mapped[k] # None
                    /\ (\A q \in DOMAIN heap : heap[q].key # k) => Mapped[k] = None
                    /\ Mapped[k] = None <=> Found(k) = None
  BY DEF ValueIs
<1>1. Values /\ KeysOnce /\ None \notin DOMAIN heap BY ValuesAre DEF TableInv
<1>2. None \notin Vals BY NoneIsNoCell
<1>3. Mapped[k] = ValueOf(k) BY DEF Mapped
<1> QED BY <1>1, <1>2, <1>3 DEF Values, KeysOnce

LEMMA MappedThen == ASSUME TableAssumption, TableInv' PROVE ValueIs'
<1>1. (TableAssumption /\ TableInv => ValueIs)' BY MappedIs, PTL
<1>2. TableAssumption'
  BY DEF TableAssumption, HashAssumption, SizeAssumption, NoneAssumption, CellsAssumption
<1> QED BY <1>1, <1>2

\* Calls that move entries about, or none.
LEMMA SameMap ==
  ASSUME TableAssumption, TableInv, TableInv', DOMAIN heap' = DOMAIN heap,
         \A q \in DOMAIN heap : /\ heap'[q].key = heap[q].key
                                /\ heap'[q].value = heap[q].value
  PROVE  Mapped' = Mapped
<1>1. ValueIs /\ ValueIs' BY MappedIs, MappedThen
<1>2. ASSUME NEW k \in Keys PROVE Mapped'[k] = Mapped[k]
  <2>1. CASE \E q \in DOMAIN heap : heap[q].key = k BY <1>1, <2>1 DEF ValueIs
  <2>2. CASE \A q \in DOMAIN heap : heap[q].key # k BY <1>1, <2>2 DEF ValueIs
  <2> QED BY <2>1, <2>2
<1> QED BY <1>2 DEF Mapped

\* What htab_put does to the map.
PutEffect(k, v) ==
    \/ call' = Call("put", <<k, v>>, "err") /\ Mapped' = Mapped /\ Mapped[k] = None
    \/ call' = Call("put", <<k, v>>, "ok") /\ Mapped' = [Mapped EXCEPT ![k] = v]

LEMMA PutIs ==
  ASSUME TableAssumption, TableInv, NEW k \in Keys, NEW v \in Vals, htab_put(k, v)
  PROVE  TableInv' /\ PutEffect(k, v)
<1>1. ValueIs BY MappedIs
<1>2. CASE PutOld(k, v)
  <2>1. /\ TableInv' /\ DOMAIN heap' = DOMAIN heap
        /\ \A q \in DOMAIN heap : /\ heap'[q].key = heap[q].key
                                  /\ heap'[q].value = IF heap[q].key = k THEN v
                                                      ELSE heap[q].value
    BY <1>2, PutOldKeeps
  <2>2. ValueIs' BY <2>1, MappedThen
  <2>3. Mapped[k] # None /\ call' = Call("put", <<k, v>>, "ok") BY <1>1, <1>2 DEF PutOld, ValueIs
  <2>4. \E q \in DOMAIN heap : heap[q].key = k BY <1>1, <2>3 DEF ValueIs
  <2>5. ASSUME NEW j \in Keys PROVE Mapped'[j] = IF j = k THEN v ELSE Mapped[j]
    <3>1. CASE \E q \in DOMAIN heap : heap[q].key = j BY <1>1, <2>1, <2>2, <3>1 DEF ValueIs
    <3>2. CASE \A q \in DOMAIN heap : heap[q].key # j
      BY <1>1, <2>1, <2>2, <2>4, <3>2 DEF ValueIs
    <3> QED BY <3>1, <3>2
  <2>6. Mapped' = [Mapped EXCEPT ![k] = v] BY <2>5 DEF Mapped
  <2> QED BY <2>1, <2>3, <2>6 DEF PutEffect
<1>3. CASE PutNew(k, v)
  <2>1. TableInv' /\ call' = Call("put", <<k, v>>, "ok") BY <1>3, PutNewKeeps DEF PutNew
  <2>2. PICK p : /\ DOMAIN heap' = DOMAIN heap \cup {p} /\ p \notin DOMAIN heap
                 /\ heap'[p].key = k /\ heap'[p].value = v
                 /\ \A q \in DOMAIN heap : /\ heap'[q].key = heap[q].key
                                           /\ heap'[q].value = heap[q].value
    BY <1>3, PutNewKeeps
  <2>3. \A q \in DOMAIN heap : heap[q].key # k BY <1>3, PutNewKeeps
  <2>4. ValueIs' BY <2>1, MappedThen
  <2>5. Mapped[k] = None BY <1>1, <2>3 DEF ValueIs
  <2>6. ASSUME NEW j \in Keys PROVE Mapped'[j] = IF j = k THEN v ELSE Mapped[j]
    <3>1. CASE j = k BY <2>2, <2>4, <3>1 DEF ValueIs
    <3>2. CASE j # k /\ \E q \in DOMAIN heap : heap[q].key = j
      BY <1>1, <2>2, <2>4, <3>2 DEF ValueIs
    <3>3. CASE j # k /\ \A q \in DOMAIN heap : heap[q].key # j
      <4>1. \A q \in DOMAIN heap' : heap'[q].key # j BY <2>2, <3>3
      <4> QED BY <1>1, <2>4, <3>3, <4>1 DEF ValueIs
    <3> QED BY <3>1, <3>2, <3>3
  <2>7. Mapped' = [Mapped EXCEPT ![k] = v] BY <2>6 DEF Mapped
  <2> QED BY <2>1, <2>5, <2>7 DEF PutEffect
<1>4. CASE ResizeFails(k, v)
  <2>1. /\ call' = Call("put", <<k, v>>, "err") /\ Found(k) = None
        /\ UNCHANGED <<size, items, bucket, heap, at, due, new>>
    BY <1>4 DEF ResizeFails
  <2>2. TableInv' BY <2>1, QuietKeeps DEF Rets, Call
  <2>3. Mapped' = Mapped BY <2>1, <2>2, SameMap
  <2> QED BY <1>1, <2>1, <2>2, <2>3 DEF PutEffect, ValueIs
<1>5. CASE EntryFails(k, v)
  <2>1. call' = Call("put", <<k, v>>, "err") /\ Found(k) = None BY <1>5 DEF EntryFails
  <2>2. TableInv' BY <1>5, EntryFailsKeeps
  <2>3. Mapped' = Mapped BY <1>5, <2>2, EntryFailsKeeps, SameMap
  <2> QED BY <1>1, <2>1, <2>2, <2>3 DEF PutEffect, ValueIs
<1> QED BY <1>2, <1>3, <1>4, <1>5 DEF htab_put

LEMMA TakenIs ==
  ASSUME TableAssumption, TableInv, NEW k \in Keys, htab_remove(k)
  PROVE  /\ TableInv' /\ call' = Call("remove", k, "ok")
         /\ Mapped' = [Mapped EXCEPT ![k] = None]
<1>1. ValueIs /\ KeysOnce BY MappedIs DEF TableInv
<1>2. CASE Takes(k)
  <2>1. TableInv' /\ call' = Call("remove", k, "ok") BY <1>2, TakesKeeps DEF Takes
  <2>2. PICK p \in DOMAIN heap :
           /\ heap[p].key = k /\ DOMAIN heap' = DOMAIN heap \ {p}
           /\ \A q \in DOMAIN heap \ {p} : /\ heap'[q].key = heap[q].key
                                           /\ heap'[q].value = heap[q].value
    BY <1>2, TakesKeeps
  <2>3. ValueIs' BY <2>1, MappedThen
  <2>4. \A q \in DOMAIN heap' : heap'[q].key # k BY <1>1, <2>2 DEF KeysOnce
  <2>5. ASSUME NEW j \in Keys PROVE Mapped'[j] = IF j = k THEN None ELSE Mapped[j]
    <3>1. CASE j = k BY <2>3, <2>4, <3>1 DEF ValueIs
    <3>2. CASE j # k /\ \E q \in DOMAIN heap : heap[q].key = j
      BY <1>1, <2>2, <2>3, <3>2 DEF ValueIs
    <3>3. CASE j # k /\ \A q \in DOMAIN heap : heap[q].key # j
      <4>1. \A q \in DOMAIN heap' : heap'[q].key # j BY <2>2, <3>3
      <4> QED BY <1>1, <2>3, <3>3, <4>1 DEF ValueIs
    <3> QED BY <3>1, <3>2, <3>3
  <2>6. Mapped' = [Mapped EXCEPT ![k] = None] BY <2>5 DEF Mapped
  <2> QED BY <2>1, <2>6
<1>3. CASE /\ Found(k) = None /\ call' = Call("remove", k, "ok")
           /\ UNCHANGED <<size, items, bucket, heap, at, due, new>>
  <2>1. TableInv' BY <1>3, QuietKeeps DEF Rets, Call
  <2>2. Mapped' = Mapped BY <1>3, <2>1, SameMap
  <2>3. Mapped[k] = None BY <1>1, <1>3 DEF ValueIs
  <2>4. Mapped = [Mapped EXCEPT ![k] = None] BY <2>3 DEF Mapped
  <2> QED BY <1>3, <2>1, <2>2, <2>4
<1> QED BY <1>2, <1>3, RemoveIs

LEMMA DestroyedIs ==
  ASSUME TableAssumption, TableInv, htab_destroy
  PROVE  TableInv' /\ call' = Call("clear", None, "ok") /\ Mapped' = [k \in Keys |-> None]
<1>1. TableInv' /\ DOMAIN heap' = {} /\ call' = Call("clear", None, "ok")
  BY DestroyKeeps DEF htab_destroy
<1>2. ValueIs' BY <1>1, MappedThen
<1>3. \A k \in Keys : Mapped'[k] = None BY <1>1, <1>2 DEF ValueIs
<1> QED BY <1>1, <1>3 DEF Mapped

\* Calls that only look.
LEMMA LooksIs ==
  ASSUME TableAssumption, TableInv, TableInv', UNCHANGED heap
  PROVE  Mapped' = Mapped
BY SameMap

LEMMA GotIs ==
  ASSUME TableAssumption, TableInv, NEW k \in Keys, htab_get(k)
  PROVE  TableInv' /\ call' = Call("get", k, Mapped[k]) /\ Mapped' = Mapped
<1>1. TableInv' BY GetKeeps
<1>2. call' = Call("get", k, Mapped[k]) BY DEF htab_get, Mapped
<1>3. UNCHANGED heap BY DEF htab_get
<1> QED BY <1>1, <1>2, <1>3, LooksIs
-----------------------------------------------------------------------------
(***************************************************************************)
(* The file above the table.                                               *)
(***************************************************************************)
\* What the file has said is what its settings' keys are mapped to.
SaidIs == \A p \in Settings : Mapped[Key[p]] = IF p \in dropped THEN None ELSE said[p]

ConfInv ==
    /\ use \in {"table", "file"} /\ (use = "table" => conf = "none")
    /\ said \in [Settings -> Vals \cup {None}] /\ section \in LowerSections
    /\ use = "file" => SaidIs

LEMMA Setting == ASSUME ConfAssumption, NEW s \in LowerSections, NEW n \in Names
                 PROVE  <<s, Lower[n]>> \in Settings /\ Key[<<s, Lower[n]>>] \in Keys
<1>1. Lower[n] \in LowerNames BY DEF LowerNames
<1>2. <<s, Lower[n]>> \in Settings BY <1>1 DEF Settings
<1> QED BY <1>2 DEF ConfAssumption

LEMMA Lowered == ASSUME ConfAssumption, NEW s \in Sections \cup {Nowhere}
                 PROVE  Lower[s] \in LowerSections
BY DEF ConfAssumption, LowerSections

LEMMA InitConf == ASSUME TableAssumption, ConfAssumption, MCInit PROVE ConfInv
<1>1. TableInv BY InitTable DEF MCInit
<1>2. ValueIs BY <1>1, MappedIs
<1>3. DOMAIN heap = {} BY DEF MCInit, Init
<1>4. \A k \in Keys : Mapped[k] = None BY <1>2, <1>3 DEF ValueIs
<1>5. \A p \in Settings : Key[p] \in Keys BY DEF ConfAssumption
<1>6. /\ said = NothingSaid /\ dropped = {} /\ conf = "none" /\ section = Nowhere
      /\ use \in {"table", "file"}
  BY DEF MCInit, ConfInit
<1> QED BY <1>4, <1>5, <1>6 DEF ConfInv, SaidIs, NothingSaid, LowerSections

\* Calls on the file that leave the table's map as it is.
LEMMA FileLooks ==
  ASSUME ConfInv, Mapped' = Mapped, section' \in LowerSections,
         UNCHANGED <<said, dropped>>, OnFile, use = "file"
  PROVE  ConfInv'
BY DEF ConfInv, SaidIs, OnFile

\* The key of a line is that of no other setting.
LEMMA LineKeeps ==
  ASSUME TableAssumption, ConfAssumption, TableInv, ConfInv, NEW n \in Names, NEW v \in Vals,
         SettingLine(n, v), OnFile
  PROVE  TableInv' /\ ConfInv' /\ PutEffect(Perm(section, n), v) /\ Perm(section, n) \in Keys
<1> DEFINE p == <<section, Lower[n]>>
           k == Key[<<section, Lower[n]>>]
<1>1. p \in Settings /\ k \in Keys /\ k = Key[p] BY Setting DEF ConfInv
<1>2. /\ htab_put(k, v) /\ said' = [said EXCEPT ![p] = v] /\ UNCHANGED <<conf, section>>
      /\ dropped' = IF call'.ret = "err" THEN dropped \cup {p} ELSE dropped \ {p}
      /\ use = "file" /\ use' = "file"
  BY DEF SettingLine, Perm, OnFile
<1> HIDE DEF p, k
<1>3. TableInv' /\ PutEffect(k, v) BY <1>1, <1>2, PutIs
<1>4. \A q, r \in Settings : Key[q] = Key[r] => q = r
  BY DEF ConfAssumption, IsInjective
<1>5. \A q \in Settings : Key[q] \in Keys BY DEF ConfAssumption
<1>6. said \in [Settings -> Vals \cup {None}] /\ SaidIs BY <1>2 DEF ConfInv
<1>7. ASSUME NEW q \in Settings
      PROVE  Mapped'[Key[q]] = IF q \in dropped' THEN None ELSE said'[q]
  <2>1. Mapped[Key[q]] = IF q \in dropped THEN None ELSE said[q] BY <1>6 DEF SaidIs
  <2>2. CASE q = p
    <3>1. said'[q] = v BY <1>1, <1>2, <1>6, <2>2
    <3>2. CASE call'.ret = "err" /\ Mapped' = Mapped /\ Mapped[k] = None
      BY <1>1, <1>2, <2>2, <3>2
    <3>3. CASE call'.ret = "ok" /\ Mapped' = [Mapped EXCEPT ![k] = v]
      <4>1. call'.ret # "err" BY <3>3
      <4>2. Mapped'[k] = v BY <1>1, <3>3 DEF Mapped
      <4> QED BY <1>1, <1>2, <2>2, <3>1, <4>1, <4>2
    <3> QED BY <1>3, <3>2, <3>3 DEF PutEffect, Call
  <2>3. CASE q # p
    <3>1. Key[q] # k BY <1>1, <1>4, <2>3
    <3>2. Mapped'[Key[q]] = Mapped[Key[q]] BY <1>3, <1>5, <3>1 DEF PutEffect, Mapped
    <3>3. said'[q] = said[q] /\ (q \in dropped' <=> q \in dropped) BY <1>2, <1>6, <2>3
    <3> QED BY <2>1, <3>2, <3>3
  <2> QED BY <2>2, <2>3
<1>8. said' \in [Settings -> Vals \cup {None}] BY <1>1, <1>2, <1>6
<1>9. ConfInv'
  <2>1. SaidIs' BY <1>7 DEF SaidIs
  <2> QED BY <1>2, <1>8, <2>1 DEF ConfInv
<1>10. Perm(section, n) = k BY DEF Perm, k
<1> QED BY <1>1, <1>3, <1>9, <1>10

LEMMA FileClosed ==
  ASSUME TableAssumption, ConfAssumption, TableInv, ConfInv, conf_destroy, OnFile
  PROVE  /\ TableInv' /\ ConfInv' /\ call' = Call("clear", None, "ok")
         /\ Mapped' = [k \in Keys |-> None]
<1>1. TableInv' /\ call' = Call("clear", None, "ok") /\ Mapped' = [k \in Keys |-> None]
  BY DestroyedIs DEF conf_destroy
<1>2. \A p \in Settings : Key[p] \in Keys BY DEF ConfAssumption
<1>3. /\ section' = Nowhere /\ said' = [p \in Settings |-> None] /\ dropped' = {}
      /\ use = "file" /\ use' = "file"
  BY DEF conf_destroy, OnFile, NothingSaid
<1>4. SaidIs' BY <1>1, <1>2, <1>3 DEF SaidIs
<1>5. ConfInv' BY <1>3, <1>4 DEF ConfInv, LowerSections
<1> QED BY <1>1, <1>5
-----------------------------------------------------------------------------
(***************************************************************************)
(* Every step of a client of the table, or of one of the file.             *)
(***************************************************************************)
Inv == TableInv /\ ConfInv

\* What a step is to the map: a call of its, or nothing.
MapStep == [Map!Next]_(Map!mapVars)

LEMMA MapIs == ASSUME TRUE
               PROVE  /\ (Mapped' = Mapped /\ call' = call) => MapStep
                      /\ (/\ call' = Call("clear", None, "ok")
                          /\ Mapped' = [k \in Keys |-> None]) => MapStep
                      /\ \A k \in Keys :
                            /\ (/\ call' = Call("get", k, Mapped[k])
                                /\ Mapped' = Mapped) => MapStep
                            /\ (/\ call' = Call("remove", k, "ok")
                                /\ Mapped' = [Mapped EXCEPT ![k] = None]) => MapStep
                            /\ \A v \in Vals : PutEffect(k, v) => MapStep
<1>0. /\ [k \in Keys |-> ValueOf(k)] = Mapped
      /\ [k \in Keys |-> ValueOf(k)]' = Mapped'
  BY DEF Mapped
<1>1. ASSUME Mapped' = Mapped, call' = call PROVE MapStep
  BY <1>0, <1>1 DEF MapStep, Map!mapVars
<1>2. ASSUME Mapped' = [k \in Keys |-> None], call' = Call("clear", None, "ok") PROVE MapStep
  BY <1>0, <1>2 DEF MapStep, Map!Next, Map!Clear, Call, Map!Call
<1>3. ASSUME NEW k \in Keys, Mapped' = Mapped, call' = Call("get", k, Mapped[k]) PROVE MapStep
  <2>1. Map!Get(k) BY <1>0, <1>3 DEF Map!Get, Call, Map!Call
  <2> QED BY <2>1 DEF MapStep, Map!Next
<1>4. ASSUME NEW k \in Keys, call' = Call("remove", k, "ok"),
             Mapped' = [Mapped EXCEPT ![k] = None]
      PROVE  MapStep
  <2>1. Map!Remove(k) BY <1>0, <1>4 DEF Map!Remove, Call, Map!Call
  <2> QED BY <2>1 DEF MapStep, Map!Next
<1>5. ASSUME NEW k \in Keys, NEW v \in Vals, PutEffect(k, v) PROVE MapStep
  <2>1. Map!Put(k, v) BY <1>0, <1>5 DEF Map!Put, PutEffect, Call, Map!Call
  <2> QED BY <2>1 DEF MapStep, Map!Next
<1> QED BY <1>1, <1>2, <1>3, <1>4, <1>5

\* A client of the table keeps what the file has said: there is no file.
LEMMA TableStep == ASSUME ConfInv, OnTable PROVE ConfInv'
BY DEF ConfInv, OnTable, confVars


LEMMA MCStep ==
  ASSUME TableAssumption, ConfAssumption, Inv, [MCNext]_<<vars, confVars, use>>
  PROVE  Inv' /\ MapStep
<1> USE DEF Inv
<1>t. ASSUME OnTable, TableInv', MapStep PROVE Inv' /\ MapStep BY <1>t, TableStep
<1>1. ASSUME NEW k \in Keys, NEW v \in Vals, htab_put(k, v), OnTable PROVE Inv' /\ MapStep
  <2>1. TableInv' /\ PutEffect(k, v) BY <1>1, PutIs
  <2>2. MapStep BY <2>1, MapIs
  <2> QED BY <1>1, <1>t, <2>1, <2>2
<1>2. ASSUME NEW k \in Keys, htab_get(k), OnTable PROVE Inv' /\ MapStep
  <2>1. TableInv' /\ call' = Call("get", k, Mapped[k]) /\ Mapped' = Mapped BY <1>2, GotIs
  <2>2. MapStep BY <2>1, MapIs
  <2> QED BY <1>2, <1>t, <2>1, <2>2
<1>3. ASSUME NEW k \in Keys, htab_remove(k), OnTable PROVE Inv' /\ MapStep
  <2>1. /\ TableInv' /\ call' = Call("remove", k, "ok")
        /\ Mapped' = [Mapped EXCEPT ![k] = None]
    BY <1>3, TakenIs
  <2>2. MapStep BY <2>1, MapIs
  <2> QED BY <1>3, <1>t, <2>1, <2>2
<1>4. ASSUME htab_destroy, OnTable PROVE Inv' /\ MapStep
  <2>1. TableInv' /\ call' = Call("clear", None, "ok") /\ Mapped' = [k \in Keys |-> None]
    BY <1>4, DestroyedIs
  <2>2. MapStep BY <2>1, MapIs
  <2> QED BY <1>4, <1>t, <2>1, <2>2
<1>5. ASSUME htab_begin \/ htab_next \/ Break, OnTable PROVE Inv' /\ MapStep
  <2>1. TableInv' BY <1>5, BeginKeeps, NextKeeps, BreakKeeps
  <2>2. UNCHANGED <<heap, call>> BY <1>5 DEF htab_begin, htab_next, Break
  <2>3. Mapped' = Mapped BY <2>1, <2>2, LooksIs
  <2>4. MapStep BY <2>2, <2>3, MapIs
  <2> QED BY <1>5, <1>t, <2>1, <2>4
\* Steps of the file that leave the table alone.
<1>f. ASSUME use = "file", UNCHANGED <<vars, said, dropped>>, section' \in LowerSections, OnFile
      PROVE  Inv' /\ MapStep
  <2>1. UNCHANGED <<size, items, bucket, heap, at, due, new>> /\ call' = call
    BY <1>f DEF vars
  <2>2. TableInv' BY <2>1, QuietKeeps DEF TableInv
  <2>3. Mapped' = Mapped BY <2>1, <2>2, LooksIs
  <2>4. ConfInv' BY <1>f, <2>3, FileLooks
  <2> QED BY <2>1, <2>2, <2>3, <2>4, MapIs
<1>6. ASSUME conf_create \/ conf_load \/ OtherLine \/ LineCrashes \/ LoadReturns, OnFile
      PROVE  Inv' /\ MapStep
  <2>1. UNCHANGED <<vars, said, dropped>> /\ section' \in {section, Nowhere}
    BY <1>6 DEF conf_create, conf_load, OtherLine, LineCrashes, LoadReturns, confVars
  <2>2. section' \in LowerSections BY <2>1 DEF ConfInv, LowerSections
  <2> QED BY <1>6, <1>f, <2>1, <2>2 DEF OnFile
<1>7. ASSUME NEW s \in Sections, SectionLine(s), OnFile PROVE Inv' /\ MapStep
  <2>1. UNCHANGED <<vars, said, dropped>> /\ section' = Lower[s] BY <1>7 DEF SectionLine
  <2>2. section' \in LowerSections BY <2>1, Lowered
  <2> QED BY <1>7, <1>f, <2>1, <2>2 DEF OnFile
<1>8. ASSUME NEW n \in Names, NEW v \in Vals, SettingLine(n, v), OnFile PROVE Inv' /\ MapStep
  <2>1. /\ TableInv' /\ ConfInv' /\ PutEffect(Perm(section, n), v)
        /\ Perm(section, n) \in Keys
    BY <1>8, LineKeeps
  <2>2. MapStep BY <2>1, MapIs
  <2> QED BY <2>1, <2>2
<1>9. ASSUME NEW s \in Sections \cup {Nowhere}, NEW n \in Names, conf_get(s, n), OnFile
      PROVE  Inv' /\ MapStep
  <2>1. CASE htab_get(Key[<<Lower[s], Lower[n]>>])
    <3>1. Key[<<Lower[s], Lower[n]>>] \in Keys BY Lowered, Setting
    <3>2. /\ TableInv' /\ Mapped' = Mapped
          /\ call' = Call("get", Key[<<Lower[s], Lower[n]>>],
                          Mapped[Key[<<Lower[s], Lower[n]>>]])
      BY <2>1, <3>1, GotIs
    <3>3. UNCHANGED confVars BY <1>9 DEF conf_get
    <3>4. ConfInv' BY <1>9, <3>2, <3>3, FileLooks DEF confVars, OnFile, ConfInv
    <3>5. MapStep BY <3>1, <3>2, MapIs
    <3> QED BY <3>2, <3>4, <3>5
  <2>2. CASE UNCHANGED vars
    <3>1. UNCHANGED confVars BY <1>9 DEF conf_get
    <3>2. section' \in LowerSections BY <3>1 DEF ConfInv, confVars
    <3> QED BY <1>9, <1>f, <2>2, <3>1, <3>2 DEF OnFile, confVars
  <2> QED BY <1>9, <2>1, <2>2 DEF conf_get
<1>10. ASSUME conf_destroy, OnFile PROVE Inv' /\ MapStep
  <2>1. /\ TableInv' /\ ConfInv' /\ call' = Call("clear", None, "ok")
        /\ Mapped' = [k \in Keys |-> None]
    BY <1>10, FileClosed
  <2> QED BY <2>1, MapIs
<1>11. CASE UNCHANGED <<vars, confVars, use>>
  <2>1. UNCHANGED <<size, items, bucket, heap, at, due, new>> /\ call' = call
    BY <1>11 DEF vars
  <2>2. TableInv' BY <2>1, QuietKeeps DEF TableInv
  <2>3. Mapped' = Mapped BY <2>1, <2>2, LooksIs
  <2>4. ConfInv' BY <1>11, <2>3 DEF ConfInv, SaidIs, confVars
  <2> QED BY <2>1, <2>2, <2>3, <2>4, MapIs
<1> QED
  BY <1>1, <1>2, <1>3, <1>4, <1>5, <1>6, <1>7, <1>8, <1>9, <1>10, <1>11 DEF MCNext
-----------------------------------------------------------------------------
(***************************************************************************)
(* What the invariant says of the runs' properties.                        *)
(***************************************************************************)
LEMMA LinksAre == TableAssumption /\ TableInv => WellLinked
<1> SUFFICES ASSUME TableAssumption, TableInv PROVE WellLinked
  OBVIOUS
<1>1. PICK c : Linked(c, bucket, heap, size) BY DEF TableInv
<1>2. /\ Typed(heap) /\ Chained(c, bucket, heap, size) /\ Has(c, size, DOMAIN heap)
      /\ size \in Nat
  BY <1>1 DEF Linked, TableInv
<1>3. ASSUME NEW i \in 0 .. size - 1, NEW j \in 1 .. Len(Chain(i))
      PROVE  /\ heap[Chain(i)[j]].prev = IF j = 1 THEN None ELSE Chain(i)[j - 1]
             /\ Index(heap[Chain(i)[j]].key, size) = i
  <2>1. Chain(i) = c[i] BY <1>2, ChainIs
  <2>2. Spells(c[i], bucket[i], heap) /\ Home(c[i], i, size, heap) BY <1>2 DEF Chained
  <2> QED BY <1>3, <2>1, <2>2 DEF Spells, Home
<1>4. Entries \in Seq(DOMAIN heap) /\ Apiece(Entries) /\ Range(Entries) = DOMAIN heap
  BY <1>2, EntriesAre
<1>5. IsInjective(Entries)
  <2>1. DOMAIN Entries = 1 .. Len(Entries) BY <1>4, Places
  <2> QED BY <1>4, <2>1 DEF IsInjective, Apiece
<1>6. TypeOK /\ items = Cardinality(DOMAIN heap) BY TypeIs DEF TableInv
<1> QED BY <1>3, <1>4, <1>5, <1>6 DEF WellLinked

LEMMA FileIs == ASSUME ConfAssumption, ConfInv PROVE ConfExact
<1> SUFFICES ASSUME conf # "none", NEW p \in Settings
             PROVE  ValueOf(Key[p]) = IF p \in dropped THEN None ELSE said[p]
  BY DEF ConfExact
<1>1. use = "file" /\ SaidIs BY DEF ConfInv
<1>2. Mapped[Key[p]] = ValueOf(Key[p]) BY DEF ConfAssumption, Mapped
<1> QED BY <1>1, <1>2 DEF SaidIs

THEOREM Invariance ==
  ASSUME TableAssumption, ConfAssumption PROVE MCSpec => []Inv
<1>1. MCInit => Inv BY InitTable, InitConf DEF Inv, MCInit
<1>2. Inv /\ [MCNext]_<<vars, confVars, use>> => Inv' BY MCStep
<1> QED BY <1>1, <1>2, PTL DEF MCSpec

\* No sequence of puts, failed puts, growths, removals and loops, nor of files read
\* into the table, leaks an entry, leaves one unfindable or dangles a pointer: chains
\* are linked both ways and complete, for any hash function and any number of cells.
THEOREM ChainsStayLinked ==
  ASSUME TableAssumption, ConfAssumption PROVE MCSpec => []WellLinked
<1>1. Inv => WellLinked BY LinksAre DEF Inv
<1> QED BY <1>1, Invariance, PTL

\* htab_foreach reaches, once each, the entries there when it began and not removed
\* since, whatever its body puts and removes short of making the table grow.
THEOREM ForeachIsExact ==
  ASSUME TableAssumption, ConfAssumption PROVE MCSpec => ForeachExact
<1>1. Inv => [htab_next => IF at' = None THEN due = {} ELSE at' \in due \cup new]_vars
  BY NextKeeps DEF Inv
<1> QED BY <1>1, Invariance, PTL DEF ForeachExact

\* The table is a map, through growths and failures: a call changes the one key it
\* names, if any, and returns what the map would.
THEOREM TableRefinesMap ==
  ASSUME TableAssumption, ConfAssumption PROVE MCSpec => ImplementsMap
<1>1. MCInit => Map!Init
  <2> SUFFICES ASSUME MCInit PROVE Map!Init
    OBVIOUS
  <2>1. TableInv BY InitTable DEF MCInit
  <2>2. DOMAIN heap = {} /\ call = Call("create", None, "ok") BY DEF MCInit, Init
  <2>3. \A k \in Keys : ValueOf(k) = None BY <2>1, <2>2, MappedIs DEF ValueIs, Mapped
  <2> QED BY <2>2, <2>3 DEF Map!Init, Call, Map!Call
<1>2. Inv /\ [MCNext]_<<vars, confVars, use>> => [Map!Next]_(Map!mapVars)
  BY MCStep DEF MapStep
<1> QED BY <1>1, <1>2, Invariance, PTL DEF MCSpec, ImplementsMap, Map!Spec

\* Once a file is open, what the table gives for a setting, however it is written, is
\* the last value the file gave it, or nothing where its memory could not be had.
THEOREM FileIsExact ==
  ASSUME TableAssumption, ConfAssumption PROVE MCSpec => []ConfExact
<1>1. Inv => ConfExact BY FileIs DEF Inv
<1> QED BY <1>1, Invariance, PTL
=============================================================================
