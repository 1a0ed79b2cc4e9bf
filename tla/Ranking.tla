------------------------------- MODULE Ranking -------------------------------
(***************************************************************************)
(* Lemmas about numbers and finite sets that the proofs about chains and   *)
(* trees need: induction stated with sets, functions defined by iteration, *)
(* places numbered in an order, and what hangs below the nodes of a binary *)
(* tree as it grows and shrinks.                                           *)
(***************************************************************************)
EXTENDS Integers, FiniteSets, BinaryTrees, FiniteSetTheorems, SequenceTheorems, TLAPS

\* A set of numbers that has 0, and with each number the next, has them all.
LEMMA Induct == ASSUME NEW D \in SUBSET Nat, 0 \in D, \A i \in D : i + 1 \in D
                PROVE  D = Nat
<1> SUFFICES ASSUME NEW k \in Nat, k \notin D PROVE FALSE
  OBVIOUS
<1> DEFINE E == {i \in D : i < k}
           step == [i \in E |-> i + 1]
<1>1. 0 \in E /\ \A i \in E : i + 1 \in E
  OBVIOUS
<1>2. IsFiniteSet(E)
  <2>1. IsFiniteSet(0 .. k) BY FS_Interval
  <2>2. ASSUME NEW i \in E PROVE i \in 0 .. k
    <3>1. i \in Nat /\ i < k OBVIOUS
    <3> QED BY <3>1
  <2> HIDE DEF E
  <2>3. E \subseteq 0 .. k BY <2>2
  <2> QED BY <2>1, <2>3, FS_Subset
<1>3. /\ IsFiniteSet(E \ {0})
      /\ Cardinality(E \ {0}) = Cardinality(E) - 1
      /\ Cardinality(E) \in Nat
  BY <1>1, <1>2, FS_RemoveElement, FS_CardinalityType
<1>4. step \in [E -> E \ {0}]
  <2>1. \A i \in E : i + 1 \in E \ {0} BY <1>1
  <2> HIDE DEF E
  <2> QED BY <2>1
<1>5. PICK x, y \in E : x # y /\ step[x] = step[y]
  <2> HIDE DEF E, step
  <2>1. Cardinality(E \ {0}) < Cardinality(E) BY <1>3
  <2> QED BY <1>2, <1>3, <1>4, <2>1, FS_PigeonHole
<1> QED BY <1>5

\* A set of numbers that is not empty has a least one.
LEMMA HasLeast == ASSUME NEW M \in SUBSET Nat, M # {}
                  PROVE  \E m \in M : \A n \in M : m <= n
<1> SUFFICES ASSUME \A m \in M : \E n \in M : n < m PROVE FALSE
  OBVIOUS
<1> DEFINE D == {i \in Nat : \A m \in M : i <= m}
<1>1. 0 \in D
  OBVIOUS
<1>2. \A i \in D : i + 1 \in D
  OBVIOUS
<1>3. D = Nat
  <2> HIDE DEF D
  <2>1. D \in SUBSET Nat BY DEF D
  <2> QED BY <1>1, <1>2, <2>1, Induct
<1>4. PICK m \in M : TRUE
  OBVIOUS
<1>5. m + 1 \in D
  BY <1>3
<1> QED BY <1>4, <1>5

\* A step that is taken again and again, from a given start, makes a sequence.
IteratesTo(g, n, start, step) ==
    g[0] = start /\ \A i \in Nat : i < n => g[i + 1] = step[<<g[i], i>>]
Iterates(g, S, start, step) ==
    /\ g \in [Nat -> S] /\ g[0] = start
    /\ \A n \in Nat : g[n + 1] = step[<<g[n], n>>]

LEMMA Iterate == ASSUME NEW S, NEW start \in S, NEW step \in [S \X Nat -> S]
                 PROVE  \E g : Iterates(g, S, start, step)
<1> DEFINE D == {n \in Nat : \E g \in [0 .. n -> S] : IteratesTo(g, n, start, step)}
           best(n) == CHOOSE g \in [0 .. n -> S] : IteratesTo(g, n, start, step)
           all == [n \in Nat |-> best(n)[n]]
<1>1. D = Nat
  <2>1. 0 \in D
    <3>1. /\ [i \in 0 .. 0 |-> start] \in [0 .. 0 -> S]
          /\ IteratesTo([i \in 0 .. 0 |-> start], 0, start, step)
      BY DEF IteratesTo
    <3> QED BY <3>1
  <2>2. ASSUME NEW n \in D PROVE n + 1 \in D
    <3>1. PICK g \in [0 .. n -> S] : IteratesTo(g, n, start, step)
      OBVIOUS
    <3> DEFINE h == [i \in 0 .. n + 1 |-> IF i <= n THEN g[i] ELSE step[<<g[n], n>>]]
    <3>2. n \in Nat /\ g[n] \in S
      OBVIOUS
    <3>3. step[<<g[n], n>>] \in S
      BY <3>2
    <3>4. h \in [0 .. n + 1 -> S]
      BY <3>2, <3>3
    <3>5. h[0] = start
      BY <3>1 DEF IteratesTo
    <3>6. ASSUME NEW i \in Nat, i < n + 1 PROVE h[i + 1] = step[<<h[i], i>>]
      <4>1. CASE i < n
        <5>1. h[i + 1] = g[i + 1] /\ h[i] = g[i] BY <3>2, <4>1
        <5>2. g[i + 1] = step[<<g[i], i>>] BY <3>1, <4>1 DEF IteratesTo
        <5> HIDE DEF h
        <5> QED BY <5>1, <5>2
      <4>2. CASE i = n
        <5>1. h[n] = g[n] /\ h[n + 1] = step[<<g[n], n>>] BY <3>2
        <5> HIDE DEF h
        <5> QED BY <4>2, <5>1
      <4> QED BY <3>2, <3>6, <4>1, <4>2
    <3>7. IteratesTo(h, n + 1, start, step)
      BY <3>5, <3>6 DEF IteratesTo
    <3> HIDE DEF h
    <3> QED BY <3>2, <3>4, <3>7
  <2>3. D \in SUBSET Nat OBVIOUS
  <2> HIDE DEF D
  <2> QED BY <2>1, <2>2, <2>3, Induct
<1>2. \A n \in Nat : best(n) \in [0 .. n -> S] /\ IteratesTo(best(n), n, start, step)
  <2>1. ASSUME NEW n \in Nat PROVE \E g \in [0 .. n -> S] : IteratesTo(g, n, start, step)
    BY <1>1
  <2> QED BY <2>1
<1>3. ASSUME NEW n \in Nat PROVE best(n + 1)[n] = best(n)[n]
  <2> DEFINE g == best(n)
             h == best(n + 1)
             same == {i \in Nat : i <= n => h[i] = g[i]}
  <2>1. IteratesTo(g, n, start, step) /\ IteratesTo(h, n + 1, start, step)
    BY <1>2
  <2> HIDE DEF g, h, best
  <2>2. 0 \in same
    BY <2>1 DEF IteratesTo
  <2>3. ASSUME NEW i \in same PROVE i + 1 \in same
    <3>1. CASE i + 1 <= n
      <4>1. i \in Nat /\ i < n /\ i < n + 1 /\ h[i] = g[i] BY <3>1
      <4>2. h[i + 1] = step[<<h[i], i>>] /\ g[i + 1] = step[<<g[i], i>>]
        BY <2>1, <4>1 DEF IteratesTo
      <4>3. h[i + 1] = g[i + 1] BY <4>1, <4>2, Zenon
      <4> QED BY <4>1, <4>3
    <3> QED BY <3>1
  <2>4. same = Nat
    <3>1. same \in SUBSET Nat OBVIOUS
    <3> HIDE DEF same
    <3> QED BY <2>2, <2>3, <3>1, Induct
  <2>5. h[n] = g[n] BY <2>4
  <2> QED BY <2>5 DEF g, h
<1> HIDE DEF best, D
<1>4. all \in [Nat -> S]
  BY <1>2
<1>5. all[0] = start
  BY <1>2 DEF IteratesTo
<1>6. ASSUME NEW n \in Nat PROVE all[n + 1] = step[<<all[n], n>>]
  <2>1. IteratesTo(best(n + 1), n + 1, start, step) BY <1>2
  <2>2. best(n + 1)[n + 1] = step[<<best(n + 1)[n], n>>] BY <2>1 DEF IteratesTo
  <2>3. all[n + 1] = best(n + 1)[n + 1] /\ all[n] = best(n)[n] OBVIOUS
  <2> HIDE DEF all
  <2> QED BY <1>3, <2>2, <2>3, Zenon
<1> HIDE DEF all
<1>7. Iterates(all, S, start, step) BY <1>4, <1>5, <1>6 DEF Iterates
<1> QED BY <1>7
-----------------------------------------------------------------------------
\* from gives each member of P those that come with it or after it.
Nested(P, from) ==
    /\ \A i \in P : from[i] \in SUBSET P /\ i \in from[i]
    /\ \A i, j \in P : i # j => \/ from[j] \subseteq from[i] \ {i}
                                \/ from[i] \subseteq from[j] \ {j}

\* Each member has a number of its own, and each number up to theirs is taken.
Ranked(P, from) ==
    /\ Cardinality(P) \in Nat
    /\ \A i \in P : Cardinality(from[i]) \in 1 .. Cardinality(P)
    /\ \A i, j \in P : Cardinality(from[i]) = Cardinality(from[j]) => i = j
    /\ \A k \in 1 .. Cardinality(P) : \E i \in P : Cardinality(from[i]) = k

\* Counting those from each on numbers the members of a finite set.
LEMMA NestedRanks == ASSUME NEW P, IsFiniteSet(P), NEW from, Nested(P, from)
                     PROVE  Ranked(P, from)
<1> DEFINE n == Cardinality(P)
<1>1. n \in Nat BY FS_CardinalityType
<1>2. ASSUME NEW i \in P
      PROVE  /\ IsFiniteSet(from[i]) /\ Cardinality(from[i]) \in 1 .. n
             /\ IsFiniteSet(from[i] \ {i})
             /\ Cardinality(from[i] \ {i}) = Cardinality(from[i]) - 1
  <2>1. from[i] \in SUBSET P /\ i \in from[i] BY DEF Nested
  <2>2. /\ IsFiniteSet(from[i]) /\ Cardinality(from[i]) <= n
        /\ Cardinality(from[i]) \in Nat
    BY <2>1, FS_Subset, FS_CardinalityType
  <2>3. /\ IsFiniteSet(from[i] \ {i})
        /\ Cardinality(from[i] \ {i}) = Cardinality(from[i]) - 1
    BY <2>1, <2>2, FS_RemoveElement
  <2>4. Cardinality(from[i] \ {i}) \in Nat BY <2>3, FS_CardinalityType
  <2> HIDE DEF n
  <2> QED BY <1>1, <2>2, <2>3, <2>4
<1>3. ASSUME NEW i \in P, NEW j \in P, from[j] \subseteq from[i] \ {i}
      PROVE  Cardinality(from[j]) # Cardinality(from[i])
  <2>1. Cardinality(from[j]) <= Cardinality(from[i] \ {i}) BY <1>2, <1>3, FS_Subset
  <2>2. Cardinality(from[i]) \in Nat /\ Cardinality(from[j]) \in Nat
    <3>1. Cardinality(from[i]) \in 1 .. n /\ Cardinality(from[j]) \in 1 .. n BY <1>2
    <3> HIDE DEF n
    <3> QED BY <1>1, <3>1
  <2>3. Cardinality(from[i] \ {i}) = Cardinality(from[i]) - 1 BY <1>2
  <2> QED BY <2>1, <2>2, <2>3
<1>4. ASSUME NEW i \in P, NEW j \in P, i # j
      PROVE  Cardinality(from[i]) # Cardinality(from[j])
  <2>1. from[j] \subseteq from[i] \ {i} \/ from[i] \subseteq from[j] \ {j}
    BY <1>4 DEF Nested
  <2> QED BY <1>3, <2>1
<1>5. ASSUME NEW k \in 1 .. n, \A i \in P : Cardinality(from[i]) # k PROVE FALSE
  <2> DEFINE rank == [i \in P |-> Cardinality(from[i])]
             others == (1 .. n) \ {k}
  <2>1. IsFiniteSet(1 .. n) /\ Cardinality(1 .. n) = n BY <1>1, FS_Interval
  <2>2. IsFiniteSet(others) /\ Cardinality(others) = n - 1
    BY <2>1, FS_RemoveElement
  <2>3. rank \in [P -> others] BY <1>2, <1>5
  <2> HIDE DEF rank, others
  <2>4. Cardinality(others) < Cardinality(P) BY <1>1, <2>2
  <2>5. PICK i, j \in P : i # j /\ rank[i] = rank[j]
    BY <2>2, <2>3, <2>4, FS_PigeonHole
  <2> QED BY <1>4, <2>5 DEF rank
<1> QED BY <1>1, <1>2, <1>4, <1>5 DEF Ranked
-----------------------------------------------------------------------------
\* A loop that stays in P and comes down some ranking ends in P, where next stays.
ComesToRest(next, P, rank) ==
    \A y \in P : /\ next[y] \in P /\ rank[y] \in Nat
                 /\ next[y] # y => rank[next[y]] < rank[y]

LEMMA LoopSettles ==
  ASSUME NEW P, NEW next, NEW rank, ComesToRest(next, P, rank), NEW c \in P, NEW n \in Nat,
         rank[c] <= n
  PROVE  Loop(next, c, n) \in P /\ next[Loop(next, c, n)] = Loop(next, c, n)
<1> DEFINE body(w) == [d \in 0 .. n |-> IF d = 0 THEN c ELSE next[w[d - 1]]]
           step == [p \in P \X Nat |-> next[p[1]]]
           at == CHOOSE w : w = body(w)
<1>1. PICK g \in [Nat -> P] : g[0] = c /\ \A i \in Nat : g[i + 1] = step[<<g[i], i>>]
  <2>1. step \in [P \X Nat -> P]
    <3>1. \A p \in P \X Nat : next[p[1]] \in P BY DEF ComesToRest
    <3> QED BY <3>1
  <2> HIDE DEF step
  <2>2. \E g : Iterates(g, P, c, step) BY <2>1, Iterate
  <2> QED BY <2>2 DEF Iterates
<1>2. \A i \in Nat : g[i + 1] = next[g[i]]
  <2>1. ASSUME NEW i \in Nat PROVE step[<<g[i], i>>] = next[g[i]]
    <3>1. <<g[i], i>> \in P \X Nat OBVIOUS
    <3> QED BY <3>1
  <2> QED BY <1>1, <2>1
<1> HIDE DEF step
<1>3. \E w : w = body(w)
  <2> DEFINE f == [d \in 0 .. n |-> g[d]]
  <2>1. ASSUME NEW d \in 0 .. n PROVE f[d] = body(f)[d]
    <3>1. CASE d = 0 BY <1>1, <3>1
    <3>2. CASE d # 0
      <4>1. d - 1 \in Nat /\ (d - 1) + 1 = d /\ d - 1 \in 0 .. n BY <3>2
      <4>2. f[d] = next[g[d - 1]] /\ f[d - 1] = g[d - 1]
        <5>1. g[(d - 1) + 1] = next[g[d - 1]] BY <1>2, <4>1
        <5> QED BY <4>1, <5>1
      <4>3. body(f)[d] = next[f[d - 1]] BY <3>2
      <4> HIDE DEF f, body
      <4> QED BY <4>2, <4>3
    <3> QED BY <3>1, <3>2
  <2>2. body(f) = [d \in 0 .. n |-> body(f)[d]] OBVIOUS
  <2>3. f = [d \in 0 .. n |-> f[d]] OBVIOUS
  <2> HIDE DEF body, f
  <2>4. f = body(f) BY <2>1, <2>2, <2>3
  <2> QED BY <2>4
<1>4. at = body(at)
  <2> HIDE DEF body
  <2> QED BY <1>3
<1>5. Loop(next, c, n) = at[n] BY DEF Loop
<1> HIDE DEF at
<1>6. at[0] = c /\ \A i \in Nat : i + 1 <= n => at[i + 1] = next[at[i]]
  <2>1. \A d \in 0 .. n : at[d] = IF d = 0 THEN c ELSE next[at[d - 1]]
    <3>1. ASSUME NEW d \in 0 .. n PROVE at[d] = IF d = 0 THEN c ELSE next[at[d - 1]]
      <4>1. at[d] = body(at)[d] BY <1>4, Zenon
      <4> QED BY <4>1
    <3> QED BY <3>1
  <2> QED BY <2>1
<1> DEFINE D == {i \in Nat : i <= n => at[i] \in P /\ \/ next[at[i]] = at[i]
                                                      \/ rank[at[i]] + i <= n}
<1>7. 0 \in D BY <1>6 DEF ComesToRest
<1>8. ASSUME NEW i \in D PROVE i + 1 \in D
  <2> SUFFICES ASSUME i + 1 <= n
               PROVE  at[i + 1] \in P /\ \/ next[at[i + 1]] = at[i + 1]
                                         \/ rank[at[i + 1]] + (i + 1) <= n
    OBVIOUS
  <2>1. i \in Nat /\ at[i] \in P /\ at[i + 1] = next[at[i]]
    BY <1>6
  <2>2. CASE next[at[i]] = at[i] BY <2>1, <2>2
  <2>3. CASE next[at[i]] # at[i]
    <3>1. rank[at[i]] + i <= n /\ rank[at[i + 1]] < rank[at[i]] /\ at[i + 1] \in P
      BY <2>1, <2>3 DEF ComesToRest
    <3>2. rank[at[i]] \in Nat /\ rank[at[i + 1]] \in Nat
      BY <2>1, <3>1 DEF ComesToRest
    <3> QED BY <2>1, <3>1, <3>2
  <2> QED BY <2>2, <2>3
<1>9. n \in D
  <2>1. D \in SUBSET Nat OBVIOUS
  <2> HIDE DEF D
  <2>2. D = Nat BY <1>7, <1>8, <2>1, Induct
  <2> QED BY <2>2
<1>10. at[n] \in P /\ (next[at[n]] = at[n] \/ rank[at[n]] <= 0)
  <2>1. at[n] \in P BY <1>9
  <2>2. rank[at[n]] \in Nat BY <2>1 DEF ComesToRest
  <2> QED BY <1>9, <2>1, <2>2
<1>11. rank[at[n]] <= 0 => next[at[n]] = at[n]
  <2>1. rank[at[n]] \in Nat /\ next[at[n]] \in P /\ rank[next[at[n]]] \in Nat
    BY <1>10 DEF ComesToRest
  <2> QED BY <1>10, <2>1 DEF ComesToRest
<1> QED BY <1>5, <1>10, <1>11
-----------------------------------------------------------------------------
\* kid makes of the nodes T one tree below root: sub gives the nodes below each, itself
\* among them.
Spans(sub, T, kid, root, none) ==
    /\ IsFiniteSet(T) /\ none \notin T /\ T \subseteq DOMAIN kid
    /\ root \in T \cup {none} /\ sub[root] = T /\ sub[none] = {}
    /\ \A c \in T :
          /\ kid[c]["left"] \in T \cup {none} /\ kid[c]["right"] \in T \cup {none}
          /\ sub[c] = {c} \cup sub[kid[c]["left"]] \cup sub[kid[c]["right"]]
          /\ sub[c] \subseteq T
          /\ c \notin sub[kid[c]["left"]] /\ c \notin sub[kid[c]["right"]]
          /\ sub[kid[c]["left"]] \cap sub[kid[c]["right"]] = {}

LEMMA SubtreeSizes ==
  ASSUME NEW T, NEW sub, NEW kid, NEW root, NEW none, Spans(sub, T, kid, root, none)
  PROVE  /\ \A c \in T \cup {none} : /\ IsFiniteSet(sub[c]) /\ sub[c] \subseteq T
                                     /\ Cardinality(sub[c]) \in Nat
                                     /\ Cardinality(sub[c]) <= Cardinality(T)
         /\ \A c \in T, s \in Side :
               /\ kid[c][s] \in T \cup {none} /\ sub[kid[c][s]] \subseteq sub[c] \ {c}
               /\ Cardinality(sub[kid[c][s]]) < Cardinality(sub[c])
<1>1. ASSUME NEW c \in T \cup {none}
      PROVE  /\ IsFiniteSet(sub[c]) /\ sub[c] \subseteq T /\ Cardinality(sub[c]) \in Nat
             /\ Cardinality(sub[c]) <= Cardinality(T)
  <2>1. sub[c] \subseteq T /\ IsFiniteSet(T) BY DEF Spans
  <2> QED BY <2>1, FS_Subset, FS_CardinalityType
<1>2. ASSUME NEW c \in T, NEW s \in Side
      PROVE  /\ kid[c][s] \in T \cup {none} /\ sub[kid[c][s]] \subseteq sub[c] \ {c}
             /\ Cardinality(sub[kid[c][s]]) < Cardinality(sub[c])
  <2>1. kid[c][s] \in T \cup {none} /\ sub[kid[c][s]] \subseteq sub[c] \ {c} /\ c \in sub[c]
    BY DEF Spans, Side
  <2>2. /\ IsFiniteSet(sub[c] \ {c}) /\ Cardinality(sub[c] \ {c}) = Cardinality(sub[c]) - 1
        /\ Cardinality(sub[c]) \in Nat
    BY <1>1, <2>1, FS_RemoveElement
  <2>3. Cardinality(sub[kid[c][s]]) <= Cardinality(sub[c] \ {c}) BY <2>1, <2>2, FS_Subset
  <2>4. Cardinality(sub[kid[c][s]]) \in Nat BY <1>1, <2>1
  <2> QED BY <2>1, <2>2, <2>3, <2>4
<1> QED BY <1>1, <1>2

\* A node is below itself; what else is below it is below one child of it.
LEMMA Splits ==
  ASSUME NEW T, NEW sub, NEW kid, NEW root, NEW none, Spans(sub, T, kid, root, none),
         NEW c \in T
  PROVE  /\ c \in sub[c] /\ c \in sub[root] /\ root \in T
         /\ \A x \in sub[c] : x \in T /\ (x = c \/ \E s \in Side : x \in sub[kid[c][s]])
         /\ \A s \in Side : \A x \in sub[kid[c][s]] :
               x \in sub[c] /\ x # c /\ kid[c][s] \in T
         /\ \A s, z \in Side : \A x \in sub[kid[c][s]] : x \in sub[kid[c][z]] => s = z
<1>1. /\ c \in sub[c] /\ c \in sub[root] /\ root \in T /\ sub[c] \subseteq T
      /\ sub[none] = {} BY DEF Spans
<1>2. ASSUME NEW x \in sub[c], x # c PROVE \E s \in Side : x \in sub[kid[c][s]]
  <2>1. x \in sub[kid[c]["left"]] \/ x \in sub[kid[c]["right"]] BY <1>2 DEF Spans
  <2> QED BY <2>1 DEF Side
<1>3. ASSUME NEW s \in Side, NEW x \in sub[kid[c][s]]
      PROVE  x \in sub[c] /\ x # c /\ kid[c][s] \in T
  <2>1. sub[kid[c][s]] \subseteq sub[c] \ {c} /\ kid[c][s] \in T \cup {none} BY SubtreeSizes
  <2> QED BY <1>1, <2>1
<1>4. sub[kid[c]["left"]] \cap sub[kid[c]["right"]] = {} BY DEF Spans
<1>5. ASSUME NEW s \in Side, NEW z \in Side, NEW x \in sub[kid[c][s]], x \in sub[kid[c][z]]
      PROVE  s = z
  BY <1>4, <1>5 DEF Side
<1> QED BY <1>1, <1>2, <1>3, <1>5

\* The same, said of either side and the other.
LEMMA Halves ==
  ASSUME NEW T, NEW sub, NEW kid, NEW root, NEW none, Spans(sub, T, kid, root, none),
         NEW p \in T, NEW z \in Side, NEW y \in Side, z # y
  PROVE  /\ sub[p] = {p} \cup sub[kid[p][z]] \cup sub[kid[p][y]]
         /\ p \notin sub[kid[p][z]] /\ p \notin sub[kid[p][y]]
         /\ sub[kid[p][z]] \cap sub[kid[p][y]] = {}
         /\ sub[p] \subseteq T
<1>1. (z = "left" /\ y = "right") \/ (z = "right" /\ y = "left") BY DEF Side
<1>2. /\ sub[p] = {p} \cup sub[kid[p]["left"]] \cup sub[kid[p]["right"]]
      /\ p \notin sub[kid[p]["left"]] /\ p \notin sub[kid[p]["right"]]
      /\ sub[kid[p]["left"]] \cap sub[kid[p]["right"]] = {}
      /\ sub[p] \subseteq T
  BY DEF Spans
<1>3. CASE z = "left" /\ y = "right" BY <1>2, <1>3
<1>4. CASE z = "right" /\ y = "left" BY <1>2, <1>4
<1> QED BY <1>1, <1>3, <1>4

\* What is below a node below c is below c.
LEMMA SubtreeBelow ==
  ASSUME NEW T, NEW sub, NEW kid, NEW root, NEW none, Spans(sub, T, kid, root, none),
         NEW c \in T, NEW a \in sub[c]
  PROVE  a \in T /\ sub[a] \subseteq sub[c]
<1> DEFINE bad == {x \in T : \E y \in sub[x] : ~(sub[y] \subseteq sub[x])}
           M == {Cardinality(sub[x]) : x \in bad}
<1>1. ASSUME bad # {} PROVE FALSE
  <2>1. M \in SUBSET Nat /\ M # {} BY <1>1, SubtreeSizes
  <2>2. PICK m \in M : \A n \in M : m <= n BY <2>1, HasLeast
  <2>3. PICK x \in bad : m = Cardinality(sub[x]) BY <2>2
  <2>4. x \in T OBVIOUS
  <2>5. PICK y \in sub[x] : ~(sub[y] \subseteq sub[x]) OBVIOUS
  <2>a. y = x \/ \E s \in Side : y \in sub[kid[x][s]]
    <3> HIDE DEF bad
    <3> QED BY <2>4, <2>5, Splits
  <2>6. PICK s \in Side : y \in sub[kid[x][s]] BY <2>5, <2>a
  <2>7. kid[x][s] \in T BY <2>4, <2>6, Splits
  <2>8. /\ Cardinality(sub[kid[x][s]]) < Cardinality(sub[x])
        /\ sub[kid[x][s]] \subseteq sub[x]
        /\ Cardinality(sub[kid[x][s]]) \in Nat /\ Cardinality(sub[x]) \in Nat
    BY <2>4, <2>7, SubtreeSizes
  <2>9. kid[x][s] \notin bad
    <3>1. SUFFICES ASSUME kid[x][s] \in bad PROVE FALSE OBVIOUS
    <3>2. Cardinality(sub[kid[x][s]]) \in M BY <3>1
    <3> HIDE DEF bad, M
    <3> QED BY <2>2, <2>3, <2>8, <3>2
  <2> QED BY <2>5, <2>6, <2>7, <2>8, <2>9
<1>2. a \in T BY DEF Spans
<1> QED BY <1>1, <1>2

\* Two nodes are one below the other, or have nothing below both.
LEMMA SubtreesApart ==
  ASSUME NEW T, NEW sub, NEW kid, NEW root, NEW none, Spans(sub, T, kid, root, none),
         NEW a \in T, NEW b \in T
  PROVE  a \in sub[b] \/ b \in sub[a] \/ sub[a] \cap sub[b] = {}
<1> DEFINE far(x, y) == x \notin sub[y] /\ y \notin sub[x] /\ sub[x] \cap sub[y] # {}
           bad == {x \in T : a \in sub[x] /\ b \in sub[x]}
           M == {Cardinality(sub[x]) : x \in bad}
<1>1. SUFFICES ASSUME far(a, b) PROVE FALSE OBVIOUS
<1>2. root \in bad BY Splits
<1>3. M \in SUBSET Nat /\ M # {} BY <1>2, SubtreeSizes
<1>4. PICK m \in M : \A n \in M : m <= n BY <1>3, HasLeast
<1>5. PICK x \in bad : m = Cardinality(sub[x]) BY <1>4
<1>6. x \in T /\ a \in sub[x] /\ b \in sub[x] /\ x # a /\ x # b BY <1>1
<1>7. PICK s \in Side : a \in sub[kid[x][s]] BY <1>6, Splits
<1>8. PICK z \in Side : b \in sub[kid[x][z]] BY <1>6, Splits
<1>9. kid[x][s] \in T /\ kid[x][z] \in T BY <1>6, <1>7, <1>8, Splits
<1>10. CASE s = z
  <2>1. kid[x][s] \in bad BY <1>7, <1>8, <1>9, <1>10
  <2>2. Cardinality(sub[kid[x][s]]) \in M BY <2>1
  <2>3. Cardinality(sub[kid[x][s]]) < Cardinality(sub[x]) /\ Cardinality(sub[x]) \in Nat
        /\ Cardinality(sub[kid[x][s]]) \in Nat
    BY <1>6, <1>9, SubtreeSizes
  <2> HIDE DEF M, bad
  <2> QED BY <1>4, <1>5, <2>2, <2>3
<1>11. CASE s # z
  <2>1. sub[a] \subseteq sub[kid[x][s]] /\ sub[b] \subseteq sub[kid[x][z]]
    BY <1>7, <1>8, <1>9, SubtreeBelow
  <2>2. sub[kid[x][s]] \cap sub[kid[x][z]] = {} BY <1>6, <1>11, Splits
  <2> QED BY <1>1, <2>1, <2>2
<1> QED BY <1>10, <1>11

\* What a node is below, but for the node itself, its parent is below, on the same side.
LEMMA ParentAbove ==
  ASSUME NEW T, NEW sub, NEW kid, NEW root, NEW none, Spans(sub, T, kid, root, none),
         NEW p \in T, NEW s \in Side, kid[p][s] \in T, NEW a \in T
  PROVE  /\ kid[p][s] \in sub[a] /\ a # kid[p][s] => p \in sub[a]
         /\ a # p => \A z \in Side : kid[p][s] \in sub[kid[a][z]] <=> p \in sub[kid[a][z]]
<1> DEFINE m == kid[p][s]
<1>0. m \in sub[m] /\ m \in sub[p] /\ p \in sub[p] /\ a \in sub[a]
  <2>1. m \in sub[m] BY Splits
  <2>2. m \in sub[p] BY <2>1, Splits
  <2> QED BY <2>1, <2>2, Splits
<1> HIDE DEF m
<1>1. ASSUME m \in sub[a], a # m PROVE p \in sub[a]
  <2>1. CASE a \in sub[p] /\ a # p
    <3>1. PICK z \in Side : a \in sub[kid[p][z]] BY <2>1, Splits
    <3>2. kid[p][z] \in T BY <3>1, Splits
    <3>3. sub[a] \subseteq sub[kid[p][z]] BY <3>1, <3>2, SubtreeBelow
    <3>4. z = s BY <1>0, <1>1, <3>3, Splits DEF m
    <3>5. PICK y \in Side : a \in sub[kid[m][y]]
      <4>1. a \in sub[m] /\ m \in T BY <3>1, <3>4 DEF m
      <4> QED BY <1>1, <4>1, Splits
    <3>6. m \in T /\ kid[m][y] \in T BY <3>5, Splits DEF m
    <3>7. sub[a] \subseteq sub[kid[m][y]] BY <3>5, <3>6, SubtreeBelow
    <3> QED BY <1>1, <3>6, <3>7, Splits
  <2>2. CASE sub[a] \cap sub[p] = {} BY <1>0, <1>1, <2>2
  <2>3. CASE a = p BY <1>0, <2>3
  <2> QED BY <2>1, <2>2, <2>3, SubtreesApart
<1>2. ASSUME a # p, NEW z \in Side, p \in sub[kid[a][z]] PROVE m \in sub[kid[a][z]]
  <2>1. kid[a][z] \in T BY <1>2, Splits
  <2> QED BY <1>0, <1>2, <2>1, SubtreeBelow
<1>3. ASSUME a # p, NEW z \in Side, m \in sub[kid[a][z]] PROVE p \in sub[kid[a][z]]
  <2>1. m \in sub[a] /\ a # m BY <1>3, Splits
  <2>2. p \in sub[a] BY <1>1, <2>1
  <2>3. PICK y \in Side : p \in sub[kid[a][y]] BY <1>3, <2>2, Splits
  <2>4. m \in sub[kid[a][y]] BY <1>2, <1>3, <2>3
  <2>5. y = z BY <1>3, <2>4, Splits
  <2> QED BY <2>3, <2>5
<1> QED BY <1>1, <1>2, <1>3 DEF m
-----------------------------------------------------------------------------
\* s has the members of X, each once, in the order of K.
Lists(s, X) ==
    /\ s \in Seq(X)
    /\ \A x \in X : \E i \in 1 .. Len(s) : s[i] = x
    /\ \A i, j \in 1 .. Len(s) : s[i] = s[j] => i = j
Ascends(s, K) == \A i, j \in 1 .. Len(s) : i < j => K[s[i]] <= K[s[j]]

LEMMA ListsJoin ==
  ASSUME NEW X, NEW Y, NEW c, c \notin X, c \notin Y, X \cap Y = {},
         NEW a, NEW b, Lists(a, X), Lists(b, Y),
         NEW K, \A x \in X : K[x] <= K[c], \A y \in Y : K[c] <= K[y],
         \A x \in X \cup {c} \cup Y : K[x] \in Int, Ascends(a, K), Ascends(b, K)
  PROVE  /\ Lists(a \o <<c>> \o b, {c} \cup X \cup Y)
         /\ Ascends(a \o <<c>> \o b, K)
<1> DEFINE Z == {c} \cup X \cup Y
           m == a \o <<c>>
           s == m \o b
           p == Len(a)
           q == Len(b)
<1>1. /\ a \in Seq(Z) /\ b \in Seq(Z) /\ <<c>> \in Seq(Z) /\ p \in Nat /\ q \in Nat
      /\ \A i \in 1 .. p : a[i] \in X
      /\ \A i \in 1 .. q : b[i] \in Y
  <2>1. a \in Seq(X) /\ b \in Seq(Y) BY DEF Lists
  <2>2. p \in Nat /\ q \in Nat BY <2>1, LenProperties
  <2>3. \A i \in 1 .. p : a[i] \in X BY <2>1, ElementOfSeq
  <2>4. \A i \in 1 .. q : b[i] \in Y BY <2>1, ElementOfSeq
  <2>5. a \in Seq(Z) BY <2>1, SeqMonotonic
  <2>6. b \in Seq(Z) BY <2>1, SeqMonotonic
  <2>7. <<c>> \in Seq(Z) OBVIOUS
  <2> QED BY <2>2, <2>3, <2>4, <2>5, <2>6, <2>7
<1>2. /\ m \in Seq(Z) /\ Len(m) = p + 1
      /\ \A i \in 1 .. p + 1 : m[i] = IF i <= p THEN a[i] ELSE c
  <2>1. Len(<<c>>) = 1 /\ <<c>>[1] = c OBVIOUS
  <2>2. /\ m \in Seq(Z) /\ Len(m) = p + Len(<<c>>)
        /\ \A i \in 1 .. p + Len(<<c>>) : m[i] = IF i <= p THEN a[i] ELSE <<c>>[i - p]
    BY <1>1, ConcatProperties
  <2> HIDE DEF m, p
  <2>3. \A i \in 1 .. p + 1 : i <= p \/ i - p = 1 BY <1>1
  <2> QED BY <2>1, <2>2, <2>3
<1>3. /\ s \in Seq(Z) /\ Len(s) = p + 1 + q
      /\ \A i \in 1 .. p + 1 + q : s[i] = IF i <= p THEN a[i]
                                         ELSE IF i = p + 1 THEN c ELSE b[i - (p + 1)]
  <2>0. m \in Seq(Z) /\ b \in Seq(Z) BY <1>1, <1>2
  <2> HIDE DEF m, Z
  <2>1. /\ s \in Seq(Z) /\ Len(s) = Len(m) + q
        /\ \A i \in 1 .. Len(m) + q : s[i] = IF i <= Len(m) THEN m[i] ELSE b[i - Len(m)]
    BY <2>0, ConcatProperties, Zenon
  <2> HIDE DEF s, p, q
  <2> QED BY <1>1, <1>2, <2>1
<1>4. a \o <<c>> \o b = s OBVIOUS
<1> HIDE DEF s, m
<1>5. \A i \in 1 .. p + 1 + q :
         \/ i <= p /\ i \in 1 .. p /\ s[i] = a[i] /\ s[i] \in X
         \/ i = p + 1 /\ s[i] = c
         \/ p + 1 < i /\ i - (p + 1) \in 1 .. q /\ s[i] = b[i - (p + 1)] /\ s[i] \in Y
  <2> HIDE DEF p, q
  <2> QED BY <1>1, <1>3
<1>6. ASSUME NEW x \in Z PROVE \E i \in 1 .. p + 1 + q : s[i] = x
  <2>1. CASE x = c
    <3> HIDE DEF p, q
    <3>1. p + 1 \in 1 .. p + 1 + q /\ ~(p + 1 <= p) BY <1>1
    <3> QED BY <1>3, <2>1, <3>1
  <2>2. CASE x \in X
    <3>1. PICK i \in 1 .. p : a[i] = x BY <2>2 DEF Lists
    <3> HIDE DEF p, q
    <3>2. i \in 1 .. p + 1 + q /\ i <= p BY <1>1
    <3> QED BY <1>3, <3>1, <3>2
  <2>3. CASE x \in Y
    <3>1. PICK i \in 1 .. q : b[i] = x BY <2>3 DEF Lists
    <3> HIDE DEF p, q
    <3>2. /\ i + (p + 1) \in 1 .. p + 1 + q /\ (i + (p + 1)) - (p + 1) = i
          /\ ~(i + (p + 1) <= p) /\ i + (p + 1) # p + 1 BY <1>1
    <3> QED BY <1>3, <3>1, <3>2
  <2> QED BY <2>1, <2>2, <2>3
<1>7. ASSUME NEW i \in 1 .. p + 1 + q, NEW j \in 1 .. p + 1 + q, s[i] = s[j] PROVE i = j
  <2>1. \A x, y \in 1 .. p : a[x] = a[y] => x = y BY DEF Lists
  <2>2. \A x, y \in 1 .. q : b[x] = b[y] => x = y BY DEF Lists
  <2> HIDE DEF p, q
  <2>3. CASE i <= p
    <3>1. i \in 1 .. p /\ s[i] = a[i] /\ s[i] \in X BY <1>5, <2>3, <1>1
    <3>2. j \in 1 .. p /\ s[j] = a[j] BY <1>5, <1>7, <3>1
    <3> QED BY <1>7, <2>1, <3>1, <3>2
  <2>4. CASE i = p + 1
    <3>1. s[i] = c BY <1>5, <2>4, <1>1
    <3> QED BY <1>5, <1>7, <2>4, <3>1
  <2>5. CASE p + 1 < i
    <3>1. i - (p + 1) \in 1 .. q /\ s[i] = b[i - (p + 1)] /\ s[i] \in Y BY <1>5, <2>5, <1>1
    <3>2. j - (p + 1) \in 1 .. q /\ s[j] = b[j - (p + 1)] BY <1>5, <1>7, <3>1
    <3>3. i - (p + 1) = j - (p + 1) BY <1>7, <2>2, <3>1, <3>2
    <3> QED BY <1>1, <3>3
  <2> QED BY <1>1, <2>3, <2>4, <2>5
<1>8. ASSUME NEW i \in 1 .. p + 1 + q, NEW j \in 1 .. p + 1 + q, i < j
      PROVE  K[s[i]] <= K[s[j]]
  <2>1. \A x, y \in 1 .. p : x < y => K[a[x]] <= K[a[y]] BY DEF Ascends
  <2>2. \A x, y \in 1 .. q : x < y => K[b[x]] <= K[b[y]] BY DEF Ascends
  <2> HIDE DEF p, q
  <2>3. CASE j <= p
    <3>1. i \in 1 .. p /\ s[i] = a[i] BY <1>1, <1>5, <1>8, <2>3
    <3>2. j \in 1 .. p /\ s[j] = a[j] BY <1>1, <1>5, <2>3
    <3> QED BY <1>8, <2>1, <3>1, <3>2
  <2>4. CASE p + 1 < i
    <3>1. i - (p + 1) \in 1 .. q /\ s[i] = b[i - (p + 1)] BY <1>1, <1>5, <2>4
    <3>2. j - (p + 1) \in 1 .. q /\ s[j] = b[j - (p + 1)] BY <1>1, <1>5, <1>8, <2>4
    <3>3. i - (p + 1) < j - (p + 1) BY <1>1, <1>8
    <3> QED BY <2>2, <3>1, <3>2, <3>3
  <2>5. CASE i <= p + 1 /\ p + 1 <= j
    <3>1. (s[i] \in X \/ s[i] = c) /\ (s[j] \in Y \/ s[j] = c) BY <1>1, <1>5, <2>5
    <3>2. K[s[i]] \in Int /\ K[s[j]] \in Int /\ K[c] \in Int BY <3>1
    <3>3. K[s[i]] <= K[c] /\ K[c] <= K[s[j]] BY <3>1, <3>2
    <3> QED BY <3>2, <3>3
  <2> QED BY <1>1, <2>3, <2>4, <2>5
<1>9. Lists(s, Z) BY <1>3, <1>6, <1>7 DEF Lists
<1>10. Ascends(s, K) BY <1>3, <1>8 DEF Ascends
<1> QED BY <1>4, <1>9, <1>10

\* The recursion of InorderFrom is what its definition says it is.
Unfolds(of, N, none, kid, n) ==
    /\ \A c : InorderFrom(kid, none, c, n) = of[n][c]
    /\ \A d \in 0 .. n : \A c \in N \cup {none} :
          of[d][c] = IF d = 0 \/ c = none THEN <<>>
                     ELSE of[d - 1][kid[c]["left"]] \o <<c>> \o of[d - 1][kid[c]["right"]]

LEMMA InorderUnfolds ==
  ASSUME NEW N, NEW none, NEW kid \in [N -> [Side -> N \cup {none}]], NEW n \in Nat
  PROVE  \E of : Unfolds(of, N, none, kid, n)
<1> DEFINE L == N \cup {none}
           S == [L -> Seq(L)]
           start == [c \in L |-> <<>>]
           deeper(w) == [c \in L |-> IF c = none THEN <<>>
                                     ELSE w[kid[c]["left"]] \o <<c>> \o w[kid[c]["right"]]]
           step == [p \in S \X Nat |-> deeper(p[1])]
           body(w) == [d \in 0 .. n |->
                         [m \in L |->
                            IF d = 0 \/ m = none THEN <<>>
                            ELSE w[d - 1][kid[m]["left"]] \o <<m>>
                                    \o w[d - 1][kid[m]["right"]]]]
<1>1. start \in S
  <2>1. <<>> \in Seq(L) BY EmptySeq
  <2> HIDE DEF L
  <2> QED BY <2>1
<1>2. step \in [S \X Nat -> S]
  <2>1. ASSUME NEW w \in S PROVE deeper(w) \in S
    <3>1. ASSUME NEW c \in L, c # none
          PROVE  w[kid[c]["left"]] \o <<c>> \o w[kid[c]["right"]] \in Seq(L)
      <4>1. kid[c]["left"] \in L /\ kid[c]["right"] \in L BY <3>1 DEF Side
      <4> HIDE DEF L
      <4>2. /\ w[kid[c]["left"]] \in Seq(L) /\ <<c>> \in Seq(L)
            /\ w[kid[c]["right"]] \in Seq(L) BY <4>1
      <4>3. w[kid[c]["left"]] \o <<c>> \in Seq(L) BY <4>2, ConcatProperties
      <4> QED BY <4>2, <4>3, ConcatProperties
    <3>2. <<>> \in Seq(L) BY EmptySeq
    <3> HIDE DEF L
    <3> QED BY <3>1, <3>2
  <2>2. \A p \in S \X Nat : p[1] \in S OBVIOUS
  <2> HIDE DEF S, deeper
  <2> QED BY <2>1, <2>2
<1>3. PICK g \in [Nat -> S] : g[0] = start /\ \A i \in Nat : g[i + 1] = step[<<g[i], i>>]
  <2> HIDE DEF S, step, start
  <2>1. \E g : Iterates(g, S, start, step) BY <1>1, <1>2, Iterate
  <2> QED BY <2>1 DEF Iterates
<1>4. \A i \in Nat : g[i + 1] = deeper(g[i])
  <2>1. ASSUME NEW i \in Nat PROVE step[<<g[i], i>>] = deeper(g[i])
    <3>1. <<g[i], i>> \in S \X Nat OBVIOUS
    <3> HIDE DEF deeper, S
    <3> QED BY <3>1
  <2> HIDE DEF step, deeper
  <2> QED BY <1>3, <2>1
<1> HIDE DEF step
<1>5. \E w : w = body(w)
  <2> DEFINE f == [d \in 0 .. n |-> g[d]]
  <2>1. ASSUME NEW d \in 0 .. n PROVE f[d] = body(f)[d]
    <3>1. CASE d = 0 BY <1>3, <3>1
    <3>2. CASE d # 0
      <4>1. d - 1 \in Nat /\ (d - 1) + 1 = d /\ d - 1 \in 0 .. n BY <3>2
      <4>2. f[d] = deeper(g[d - 1]) /\ f[d - 1] = g[d - 1]
        <5>1. g[(d - 1) + 1] = deeper(g[d - 1]) BY <1>4, <4>1
        <5> HIDE DEF deeper
        <5> QED BY <4>1, <5>1
      <4>3. body(f)[d] = deeper(f[d - 1])
        <5> HIDE DEF f
        <5> QED BY <3>2
      <4> HIDE DEF f, body, deeper
      <4> QED BY <4>2, <4>3
    <3> QED BY <3>1, <3>2
  <2>2. body(f) = [d \in 0 .. n |-> body(f)[d]] OBVIOUS
  <2>3. f = [d \in 0 .. n |-> f[d]] OBVIOUS
  <2> HIDE DEF body, f
  <2>4. f = body(f) BY <2>1, <2>2, <2>3
  <2> QED BY <2>4
<1> DEFINE of == CHOOSE w : w = body(w)
<1>6. of = body(of)
  <2> HIDE DEF body
  <2> QED BY <1>5
<1>7. \A c : InorderFrom(kid, none, c, n) = of[n][c]
  <2>1. DOMAIN kid = N OBVIOUS
  <2> QED BY <2>1, Zenon DEF InorderFrom
<1> HIDE DEF of
<1>8. ASSUME NEW d \in 0 .. n, NEW c \in L
      PROVE  of[d][c] = IF d = 0 \/ c = none THEN <<>>
                        ELSE of[d - 1][kid[c]["left"]] \o <<c>> \o of[d - 1][kid[c]["right"]]
  <2>1. of[d] = body(of)[d] BY <1>6, Zenon
  <2> QED BY <2>1
<1> QED BY <1>7, <1>8 DEF Unfolds

\* The order of the tree: K of what is left of a node is at most K of the node, which is
\* at most K of what is right.
SortedBy(sub, T, kid, K) ==
    \A c \in T : /\ K[c] \in Int
                 /\ \A x \in sub[kid[c]["left"]] : K[x] <= K[c]
                 /\ \A x \in sub[kid[c]["right"]] : K[c] <= K[x]

\* Printing a subtree prints each of its nodes once, in the order of the tree.
LEMMA InorderIs ==
  ASSUME NEW N, NEW none, NEW kid \in [N -> [Side -> N \cup {none}]],
         NEW T, NEW sub, NEW root, Spans(sub, T, kid, root, none),
         NEW K, SortedBy(sub, T, kid, K),
         NEW n \in Nat, NEW c \in T \cup {none}, Cardinality(sub[c]) <= n
  PROVE  /\ Lists(InorderFrom(kid, none, c, n), sub[c])
         /\ Ascends(InorderFrom(kid, none, c, n), K)
<1>0. PICK of : Unfolds(of, N, none, kid, n) BY InorderUnfolds
<1>1. /\ \A x : InorderFrom(kid, none, x, n) = of[n][x]
      /\ \A d \in 0 .. n : \A x \in N \cup {none} :
            of[d][x] = IF d = 0 \/ x = none THEN <<>>
                       ELSE of[d - 1][kid[x]["left"]] \o <<x>> \o of[d - 1][kid[x]["right"]]
  BY <1>0 DEF Unfolds
<1> DEFINE good(d, x) == Cardinality(sub[x]) <= d => Lists(of[d][x], sub[x]) /\ Ascends(of[d][x], K)
           D == {d \in Nat : d <= n => \A x \in T \cup {none} : good(d, x)}
<1>2. sub[none] = {} /\ T \subseteq N /\ none \notin T
  <2>1. DOMAIN kid = N OBVIOUS
  <2> QED BY <2>1 DEF Spans
<1>3. Lists(<<>>, {}) /\ Ascends(<<>>, K)
  <2>1. Len(<<>>) = 0 /\ <<>> \in Seq({}) BY EmptySeq
  <2>2. \A i \in 1 .. 0 : FALSE OBVIOUS
  <2> QED BY <2>1, <2>2 DEF Lists, Ascends
<1>4. ASSUME NEW d \in 0 .. n PROVE good(d, none)
  <2>1. of[d][none] = <<>> BY <1>1
  <2> QED BY <1>2, <1>3, <2>1
<1>5. 0 \in D
  <2>1. ASSUME NEW x \in T \cup {none} PROVE good(0, x)
    <3>1. CASE x = none BY <1>4, <3>1
    <3>2. CASE x \in T
      <4>1. 0 < Cardinality(sub[x])
        <5>1. Cardinality(sub[kid[x]["left"]]) < Cardinality(sub[x]) BY <3>2, SubtreeSizes DEF Side
        <5>2. kid[x]["left"] \in T \cup {none} BY <3>2 DEF Spans
        <5>3. Cardinality(sub[kid[x]["left"]]) \in Nat /\ Cardinality(sub[x]) \in Nat
          BY <5>2, SubtreeSizes
        <5> QED BY <5>1, <5>3
      <4>2. Cardinality(sub[x]) \in Nat BY SubtreeSizes
      <4> QED BY <4>1, <4>2
    <3> QED BY <3>1, <3>2
  <2> HIDE DEF good
  <2> QED BY <2>1
<1>6. ASSUME NEW d \in D PROVE d + 1 \in D
  <2> SUFFICES ASSUME d + 1 <= n, NEW x \in T \cup {none} PROVE good(d + 1, x)
    <3> HIDE DEF good
    <3>1. d + 1 \in Nat OBVIOUS
    <3> QED BY <3>1
  <2>1. d \in Nat /\ d + 1 \in 0 .. n /\ d + 1 # 0 /\ (d + 1) - 1 = d
    OBVIOUS
  <2>2. CASE x = none BY <1>4, <2>1, <2>2
  <2>3. CASE x \in T
    <3> SUFFICES ASSUME Cardinality(sub[x]) <= d + 1
                 PROVE  Lists(of[d + 1][x], sub[x]) /\ Ascends(of[d + 1][x], K)
      OBVIOUS
    <3> DEFINE l == kid[x]["left"]
               r == kid[x]["right"]
    <3>1. /\ l \in T \cup {none} /\ r \in T \cup {none}
          /\ sub[x] = {x} \cup sub[l] \cup sub[r] /\ sub[x] \subseteq T
          /\ x \notin sub[l] /\ x \notin sub[r] /\ sub[l] \cap sub[r] = {}
      BY <2>3 DEF Spans
    <3>2. Cardinality(sub[l]) <= d /\ Cardinality(sub[r]) <= d
      <4>1. Cardinality(sub[l]) < Cardinality(sub[x]) /\ Cardinality(sub[r]) < Cardinality(sub[x])
        BY <2>3, SubtreeSizes DEF Side
      <4>2. /\ Cardinality(sub[l]) \in Nat /\ Cardinality(sub[r]) \in Nat
            /\ Cardinality(sub[x]) \in Nat
        <5> HIDE DEF l, r
        <5>1. \A y \in T \cup {none} : Cardinality(sub[y]) \in Nat BY SubtreeSizes
        <5> QED BY <2>3, <3>1, <5>1
      <4> HIDE DEF l, r
      <4> QED BY <2>1, <4>1, <4>2
    <3>3. good(d, l) /\ good(d, r)
      <4> HIDE DEF good, l, r
      <4>1. d <= n BY <2>1
      <4> QED BY <3>1, <4>1
    <3>4. of[d + 1][x] = of[d][l] \o <<x>> \o of[d][r]
      <4>1. x \in N \cup {none} /\ x # none BY <1>2, <2>3
      <4>2. \A y \in N \cup {none} :
               of[d + 1][y] = IF d + 1 = 0 \/ y = none THEN <<>>
                              ELSE of[(d + 1) - 1][kid[y]["left"]] \o <<y>>
                                      \o of[(d + 1) - 1][kid[y]["right"]]
        BY <1>1, <2>1
      <4> QED BY <2>1, <4>1, <4>2
    <3>5. /\ \A y \in sub[l] : K[y] <= K[x]
          /\ \A y \in sub[r] : K[x] <= K[y]
          /\ \A y \in sub[l] \cup {x} \cup sub[r] : K[y] \in Int
      BY <2>3, <3>1 DEF SortedBy
    <3>6. /\ Lists(of[d][l], sub[l]) /\ Lists(of[d][r], sub[r])
          /\ Ascends(of[d][l], K) /\ Ascends(of[d][r], K)
      BY <3>2, <3>3
    <3> HIDE DEF l, r
    <3>7. /\ Lists(of[d][l] \o <<x>> \o of[d][r], {x} \cup sub[l] \cup sub[r])
          /\ Ascends(of[d][l] \o <<x>> \o of[d][r], K)
      BY <3>1, <3>5, <3>6, ListsJoin
    <3> QED BY <3>1, <3>4, <3>7
  <2> QED BY <2>2, <2>3
<1>7. n \in D
  <2>1. D \in SUBSET Nat OBVIOUS
  <2> HIDE DEF D
  <2>2. D = Nat BY <1>5, <1>6, <2>1, Induct
  <2> QED BY <2>2
<1>8. good(n, c)
  <2> HIDE DEF good
  <2> QED BY <1>7
<1> QED BY <1>1, <1>8
-----------------------------------------------------------------------------
\* Tree kid with c, a leaf, as child s of b.
Hung(sub, T, none, b, c) ==
    [a \in T \cup {none, c} |-> IF a = none THEN {} ELSE IF a = c THEN {c}
                                ELSE IF b \in sub[a] THEN sub[a] \cup {c} ELSE sub[a]]

HangsFrom(T, kid, none, b, s, c, kid2) ==
    /\ b \in T /\ s \in Side /\ kid[b][s] = none /\ c \notin T /\ c # none
    /\ DOMAIN kid2 = DOMAIN kid /\ c \in DOMAIN kid
    /\ \A p \in T, z \in Side : kid2[p][z] = IF p = b /\ z = s THEN c ELSE kid[p][z]
    /\ \A z \in Side : kid2[c][z] = none

\* new has c as well below child s of b and all that b is below.
Adds(new, sub, T, kid, kid2, b, s, c) ==
    \A p \in T, z \in Side :
       new[kid2[p][z]] = IF (p = b /\ z = s) \/ b \in sub[kid[p][z]]
                         THEN sub[kid[p][z]] \cup {c} ELSE sub[kid[p][z]]

LEMMA LeafHung ==
  ASSUME NEW T, NEW sub, NEW kid, NEW root, NEW none, Spans(sub, T, kid, root, none),
         NEW b, NEW s, NEW c, NEW kid2, HangsFrom(T, kid, none, b, s, c, kid2)
  PROVE  /\ Spans(Hung(sub, T, none, b, c), T \cup {c}, kid2, root, none)
         /\ Adds(Hung(sub, T, none, b, c), sub, T, kid, kid2, b, s, c)
<1> DEFINE new == Hung(sub, T, none, b, c)
           U == T \cup {c}
<1> USE DEF HangsFrom
<1>1. /\ new[none] = {} /\ new[c] = {c}
      /\ \A a \in T : new[a] = IF b \in sub[a] THEN sub[a] \cup {c} ELSE sub[a]
  <2>1. none \notin T BY DEF Spans
  <2> QED BY <2>1 DEF Hung
<1> HIDE DEF new
<1>2. /\ IsFiniteSet(U) /\ none \notin U /\ U \subseteq DOMAIN kid2 /\ root \in U /\ root \in T
      /\ sub[none] = {} /\ sub[root] = T
  <2>1. /\ IsFiniteSet(T) /\ none \notin T /\ T \subseteq DOMAIN kid /\ sub[none] = {}
        /\ sub[root] = T
    BY DEF Spans
  <2>2. root \in T BY Splits
  <2>3. IsFiniteSet(U) BY <2>1, FS_AddElement
  <2> QED BY <2>1, <2>2, <2>3
<1>3. ASSUME NEW p \in T, NEW z \in Side
      PROVE  /\ new[kid2[p][z]] = IF (p = b /\ z = s) \/ b \in sub[kid[p][z]]
                                  THEN sub[kid[p][z]] \cup {c} ELSE sub[kid[p][z]]
             /\ kid2[p][z] \in U \cup {none} /\ kid[p][z] \in T \cup {none}
             /\ sub[kid[p][z]] \subseteq T
  <2>1. kid[p][z] \in T \cup {none} /\ sub[kid[p][z]] \subseteq T BY SubtreeSizes
  <2>2. CASE p = b /\ z = s BY <1>1, <1>2, <2>1, <2>2
  <2>3. CASE ~(p = b /\ z = s)
    <3>1. kid2[p][z] = kid[p][z] BY <2>3
    <3> HIDE DEF HangsFrom
    <3> QED BY <1>1, <1>2, <2>1, <2>3, <3>1
  <2> QED BY <2>1, <2>2, <2>3
<1>4. ASSUME NEW p \in T, NEW z \in Side, NEW y \in Side, z # y
      PROVE  /\ new[p] = {p} \cup new[kid2[p][z]] \cup new[kid2[p][y]]
             /\ p \notin new[kid2[p][z]] /\ p \notin new[kid2[p][y]]
             /\ new[kid2[p][z]] \cap new[kid2[p][y]] = {}
             /\ new[p] \subseteq U
  <2>1. /\ sub[p] = {p} \cup sub[kid[p][z]] \cup sub[kid[p][y]]
        /\ p \notin sub[kid[p][z]] /\ p \notin sub[kid[p][y]]
        /\ sub[kid[p][z]] \cap sub[kid[p][y]] = {}
        /\ sub[p] \subseteq T
    BY <1>4, Halves
  <2>2. b \in sub[b] /\ (p = b => kid[p][s] = none) BY Splits
  <2>3. /\ p # c
        /\ c \notin sub[kid[p][z]] /\ c \notin sub[kid[p][y]]
    BY <2>1
  <2>4. p = b => b \in sub[p] /\ b \notin sub[kid[p][z]] /\ b \notin sub[kid[p][y]] /\ (z = s \/ y = s)
    BY <1>4, <2>1 DEF Side
  <2>5. p # b => (b \in sub[p] <=> b \in sub[kid[p][z]] \/ b \in sub[kid[p][y]])
    BY <2>1
  <2>6. ~(b \in sub[kid[p][z]] /\ b \in sub[kid[p][y]]) BY <2>1
  <2>7. /\ new[p] = IF b \in sub[p] THEN sub[p] \cup {c} ELSE sub[p]
        /\ new[kid2[p][z]] = IF (p = b /\ z = s) \/ b \in sub[kid[p][z]]
                                  THEN sub[kid[p][z]] \cup {c} ELSE sub[kid[p][z]]
        /\ new[kid2[p][y]] = IF (p = b /\ y = s) \/ b \in sub[kid[p][y]]
                                  THEN sub[kid[p][y]] \cup {c} ELSE sub[kid[p][y]]
    <3> HIDE DEF HangsFrom
    <3>1. new[p] = IF b \in sub[p] THEN sub[p] \cup {c} ELSE sub[p] BY <1>1
    <3>2. new[kid2[p][z]] = IF (p = b /\ z = s) \/ b \in sub[kid[p][z]]
                            THEN sub[kid[p][z]] \cup {c} ELSE sub[kid[p][z]]
      BY <1>3, Zenon
    <3>3. new[kid2[p][y]] = IF (p = b /\ y = s) \/ b \in sub[kid[p][y]]
                            THEN sub[kid[p][y]] \cup {c} ELSE sub[kid[p][y]]
      BY <1>3, Zenon
    <3> QED BY <3>1, <3>2, <3>3, Zenon
  <2> DEFINE A == sub[kid[p][z]]
             B == sub[kid[p][y]]
             A2 == new[kid2[p][z]]
             B2 == new[kid2[p][y]]
  <2>8. /\ sub[p] = {p} \cup A \cup B /\ p \notin A /\ p \notin B /\ A \cap B = {}
        /\ sub[p] \subseteq T /\ p # c /\ c \notin A /\ c \notin B
    BY <2>1, <2>3
  <2>9. CASE p = b
    <3>1. \/ z = s /\ A2 = A \cup {c} /\ B2 = B
          \/ y = s /\ A2 = A /\ B2 = B \cup {c}
      BY <1>4, <2>4, <2>7, <2>9
    <3>2. new[p] = sub[p] \cup {c} BY <2>4, <2>7, <2>9
    <3> HIDE DEF A, B, A2, B2
    <3>3. /\ new[p] = {p} \cup A2 \cup B2 /\ p \notin A2 /\ p \notin B2 /\ A2 \cap B2 = {}
          /\ new[p] \subseteq U
      BY <2>8, <3>1, <3>2
    <3> QED BY <3>3 DEF A2, B2
  <2>10. CASE p # b
    <3>1. \/ b \in sub[p] /\ A2 = A \cup {c} /\ B2 = B
          \/ b \in sub[p] /\ A2 = A /\ B2 = B \cup {c}
          \/ b \notin sub[p] /\ A2 = A /\ B2 = B
      BY <2>5, <2>6, <2>7, <2>10
    <3>2. new[p] = IF b \in sub[p] THEN sub[p] \cup {c} ELSE sub[p] BY <2>7
    <3> HIDE DEF A, B, A2, B2
    <3>3. /\ new[p] = {p} \cup A2 \cup B2 /\ p \notin A2 /\ p \notin B2 /\ A2 \cap B2 = {}
          /\ new[p] \subseteq U
      BY <2>8, <3>1, <3>2
    <3> QED BY <3>3 DEF A2, B2
  <2> QED BY <2>9, <2>10
<1>5. new[root] = U BY <1>1, <1>2
<1>6. Spans(new, U, kid2, root, none)
  <2>1. ASSUME NEW p \in T
        PROVE  /\ kid2[p]["left"] \in U \cup {none} /\ kid2[p]["right"] \in U \cup {none}
               /\ new[p] = {p} \cup new[kid2[p]["left"]] \cup new[kid2[p]["right"]]
               /\ new[p] \subseteq U
               /\ p \notin new[kid2[p]["left"]] /\ p \notin new[kid2[p]["right"]]
               /\ new[kid2[p]["left"]] \cap new[kid2[p]["right"]] = {}
    <3>1. "left" \in Side /\ "right" \in Side /\ "left" # "right" BY DEF Side
    <3>2. kid2[p]["left"] \in U \cup {none} /\ kid2[p]["right"] \in U \cup {none}
      BY <1>3, <3>1
    <3> QED BY <1>4, <3>1, <3>2
  <2>2. kid2[c]["left"] = none /\ kid2[c]["right"] = none BY DEF Side
  <2> HIDE DEF U
  <2>3. \A p \in U : p \in T \/ p = c BY DEF U
  <2>4. c \in U BY DEF U
  <2> QED BY <1>1, <1>2, <1>5, <2>1, <2>2, <2>3, <2>4 DEF Spans
<1>7. Adds(new, sub, T, kid, kid2, b, s, c)
  <2> HIDE DEF HangsFrom
  <2> QED BY <1>3, Zenon DEF Adds
<1> QED BY <1>6, <1>7 DEF new

\* Tree kid without c, which has one child m at most: what pointed at c points at m.
CutOut(sub, T, none, c) == [a \in T \cup {none} |-> sub[a] \ {c}]

IsCutFrom(T, kid, none, c, s, kid2) ==
    /\ c \in T /\ s \in Side /\ \A z \in Side : z # s => kid[c][z] = none
    /\ DOMAIN kid2 = DOMAIN kid
    /\ \A p \in T \ {c}, y \in Side :
          kid2[p][y] = IF kid[p][y] = c THEN kid[c][s] ELSE kid[p][y]

\* new is sub without c.
Drops(new, sub, T, kid, kid2, c) ==
    \A p \in T, y \in Side : new[kid2[p][y]] = sub[kid[p][y]] \ {c}

LEMMA NodeCut ==
  ASSUME NEW T, NEW sub, NEW kid, NEW root, NEW none, Spans(sub, T, kid, root, none),
         NEW c, NEW s, NEW kid2, IsCutFrom(T, kid, none, c, s, kid2)
  PROVE  /\ Spans(CutOut(sub, T, none, c), T \ {c}, kid2,
                  IF root = c THEN kid[c][s] ELSE root, none)
         /\ Drops(CutOut(sub, T, none, c), sub, T \ {c}, kid, kid2, c)
<1> DEFINE new == CutOut(sub, T, none, c)
           U == T \ {c}
           m == kid[c][s]
           top == IF root = c THEN m ELSE root
<1> USE DEF IsCutFrom
<1>1. \A a \in T \cup {none} : new[a] = sub[a] \ {c} BY DEF CutOut
<1> HIDE DEF new
<1>2. /\ IsFiniteSet(U) /\ none \notin U /\ U \subseteq DOMAIN kid2 /\ root \in T
      /\ sub[none] = {} /\ sub[root] = T /\ none \notin T
  <2>1. /\ IsFiniteSet(T) /\ none \notin T /\ T \subseteq DOMAIN kid /\ sub[none] = {}
        /\ sub[root] = T
    BY DEF Spans
  <2>2. root \in T BY Splits
  <2>3. IsFiniteSet(U) BY <2>1, FS_RemoveElement
  <2> QED BY <2>1, <2>2, <2>3
<1>3. /\ sub[c] = {c} \cup sub[m] /\ c \notin sub[m] /\ m \in T \cup {none} /\ m # c
  <2>1. PICK z \in Side : s # z BY DEF Side
  <2>2. sub[c] = {c} \cup sub[kid[c][s]] \cup sub[kid[c][z]] BY <2>1, Halves
  <2>3. m \in T \cup {none} /\ sub[m] \subseteq sub[c] \ {c} BY SubtreeSizes
  <2>4. c \in sub[c] BY Splits
  <2> QED BY <1>2, <2>1, <2>2, <2>3, <2>4
<1> HIDE DEF m
<1>4. ASSUME NEW p \in U, NEW y \in Side
      PROVE  new[kid2[p][y]] = sub[kid[p][y]] \ {c} /\ kid2[p][y] \in U \cup {none}
  <2>1. kid[p][y] \in T \cup {none} BY SubtreeSizes
  <2>2. CASE kid[p][y] = c
    <3>1. kid2[p][y] = m BY <2>2 DEF m
    <3> QED BY <1>1, <1>2, <1>3, <2>2, <3>1
  <2>3. CASE kid[p][y] # c BY <1>1, <2>1, <2>3
  <2> QED BY <2>2, <2>3
<1>5. top \in U \cup {none} /\ new[top] = U
  <2>1. CASE root = c BY <1>1, <1>2, <1>3, <2>1
  <2>2. CASE root # c BY <1>1, <1>2, <2>2
  <2> QED BY <2>1, <2>2
<1>6. Spans(new, U, kid2, top, none)
  <2>1. ASSUME NEW p \in U
        PROVE  /\ kid2[p]["left"] \in U \cup {none} /\ kid2[p]["right"] \in U \cup {none}
               /\ new[p] = {p} \cup new[kid2[p]["left"]] \cup new[kid2[p]["right"]]
               /\ new[p] \subseteq U
               /\ p \notin new[kid2[p]["left"]] /\ p \notin new[kid2[p]["right"]]
               /\ new[kid2[p]["left"]] \cap new[kid2[p]["right"]] = {}
    <3>1. /\ sub[p] = {p} \cup sub[kid[p]["left"]] \cup sub[kid[p]["right"]]
          /\ p \notin sub[kid[p]["left"]] /\ p \notin sub[kid[p]["right"]]
          /\ sub[kid[p]["left"]] \cap sub[kid[p]["right"]] = {} /\ sub[p] \subseteq T
      BY DEF Spans
    <3>2. "left" \in Side /\ "right" \in Side BY DEF Side
    <3>3. new[p] = sub[p] \ {c} /\ p # c BY <1>1
    <3>4. /\ new[kid2[p]["left"]] = sub[kid[p]["left"]] \ {c}
          /\ new[kid2[p]["right"]] = sub[kid[p]["right"]] \ {c}
          /\ kid2[p]["left"] \in U \cup {none} /\ kid2[p]["right"] \in U \cup {none}
      BY <1>4, <3>2
    <3> QED BY <3>1, <3>3, <3>4
  <2>2. new[none] = {} BY <1>1, <1>2
  <2> HIDE DEF U, top
  <2> QED BY <1>2, <1>5, <2>1, <2>2 DEF Spans
<1>7. Drops(new, sub, U, kid, kid2, c) BY <1>4 DEF Drops
<1> QED BY <1>6, <1>7 DEF new, m
-----------------------------------------------------------------------------
(* Turning a node and its child about, and putting a node in the place of another. *)

\* Every node but the root is the child of one node, on one side of it.
LEMMA HasParent ==
  ASSUME NEW T, NEW sub, NEW kid, NEW root, NEW none, Spans(sub, T, kid, root, none),
         NEW c \in T, c # root
  PROVE  \E p \in T, s \in Side : kid[p][s] = c
<1> DEFINE up == {x \in T : c \in sub[x] /\ x # c}
           M == {Cardinality(sub[x]) : x \in up}
<1>1. \A x \in up : Cardinality(sub[x]) \in Nat BY SubtreeSizes
<1>2. root \in up BY Splits
<1>3. M \in SUBSET Nat /\ M # {} BY <1>1, <1>2
<1>4. PICK m \in M : \A n \in M : m <= n
  <2> HIDE DEF M
  <2> QED BY <1>3, HasLeast
<1>5. PICK x \in up : m = Cardinality(sub[x]) OBVIOUS
<1>6. PICK s \in Side : c \in sub[kid[x][s]] BY <1>5, Splits
<1>7. kid[x][s] \in T /\ Cardinality(sub[kid[x][s]]) < Cardinality(sub[x])
  BY <1>5, <1>6, Splits, SubtreeSizes
<1>8. kid[x][s] = c
  <2> SUFFICES ASSUME kid[x][s] # c PROVE FALSE
    OBVIOUS
  <2>1. kid[x][s] \in up BY <1>6, <1>7
  <2>2. Cardinality(sub[kid[x][s]]) \in M BY <2>1
  <2>3. m <= Cardinality(sub[kid[x][s]]) BY <1>4, <2>2
  <2>4. Cardinality(sub[kid[x][s]]) \in Nat /\ Cardinality(sub[x]) \in Nat BY <1>1, <2>1, <1>5
  <2> QED BY <1>5, <1>7, <2>3, <2>4
<1> QED BY <1>5, <1>8

LEMMA OneParent ==
  ASSUME NEW T, NEW sub, NEW kid, NEW root, NEW none, Spans(sub, T, kid, root, none),
         NEW p \in T, NEW s \in Side, NEW q \in T, NEW z \in Side,
         kid[p][s] = kid[q][z], kid[p][s] # none
  PROVE  p = q /\ s = z /\ kid[p][s] # root /\ kid[p][s] \in T
<1> DEFINE c == kid[p][s]
<1>1. c \in T BY SubtreeSizes
<1> HIDE DEF c
<1>2. c \in sub[c] BY <1>1, Splits
<1>3. p \notin sub[c] /\ q \notin sub[c] BY Splits DEF c
<1>4. p = q
  <2> SUFFICES ASSUME p # q PROVE FALSE
    OBVIOUS
  <2>1. p \in sub[kid[q][z]] BY <1>1, <1>2, ParentAbove DEF c
  <2> QED BY <1>3, <2>1 DEF c
<1>5. s = z
  <2>1. c \in sub[kid[p][s]] /\ c \in sub[kid[p][z]] BY <1>2, <1>4 DEF c
  <2>2. \A v, w \in Side : \A x \in sub[kid[p][v]] : x \in sub[kid[p][w]] => v = w BY Splits
  <2> QED BY <2>1, <2>2
<1>6. c # root
  <2>1. sub[root] = T BY DEF Spans
  <2> QED BY <1>3, <2>1
<1> QED BY <1>1, <1>4, <1>5, <1>6 DEF c

\* The parts of Spans at a node, of its children on sides z and y.
Halved(sub, T, kid, none, p, z, y) ==
    /\ z \in Side /\ y \in Side /\ z # y
    /\ kid[p][z] \in T \cup {none} /\ kid[p][y] \in T \cup {none}
    /\ sub[p] = {p} \cup sub[kid[p][z]] \cup sub[kid[p][y]] /\ sub[p] \subseteq T
    /\ p \notin sub[kid[p][z]] /\ p \notin sub[kid[p][y]]
    /\ sub[kid[p][z]] \cap sub[kid[p][y]] = {}

LEMMA SpansAre ==
  ASSUME NEW T, NEW sub, NEW kid, NEW root, NEW none
  PROVE  /\ Spans(sub, T, kid, root, none) =>
              \A p \in T, z, y \in Side : z # y => Halved(sub, T, kid, none, p, z, y)
         /\ IsFiniteSet(T) /\ none \notin T /\ T \subseteq DOMAIN kid
            /\ root \in T \cup {none} /\ sub[root] = T /\ sub[none] = {}
            /\ (\A p \in T : \E z, y \in Side : Halved(sub, T, kid, none, p, z, y))
            => Spans(sub, T, kid, root, none)
<1>1. ASSUME Spans(sub, T, kid, root, none), NEW p \in T, NEW z \in Side, NEW y \in Side, z # y
      PROVE  Halved(sub, T, kid, none, p, z, y)
  BY <1>1, Halves, SubtreeSizes DEF Halved
<1>2. ASSUME IsFiniteSet(T), none \notin T, T \subseteq DOMAIN kid,
             root \in T \cup {none}, sub[root] = T, sub[none] = {},
             \A p \in T : \E z, y \in Side : Halved(sub, T, kid, none, p, z, y)
      PROVE  Spans(sub, T, kid, root, none)
  <2>1. ASSUME NEW p \in T
        PROVE  /\ kid[p]["left"] \in T \cup {none} /\ kid[p]["right"] \in T \cup {none}
               /\ sub[p] = {p} \cup sub[kid[p]["left"]] \cup sub[kid[p]["right"]]
               /\ sub[p] \subseteq T
               /\ p \notin sub[kid[p]["left"]] /\ p \notin sub[kid[p]["right"]]
               /\ sub[kid[p]["left"]] \cap sub[kid[p]["right"]] = {}
    <3>1. PICK z, y \in Side : Halved(sub, T, kid, none, p, z, y) BY <1>2
    <3>2. (z = "left" /\ y = "right") \/ (z = "right" /\ y = "left") BY <3>1 DEF Halved, Side
    <3>3. CASE z = "left" /\ y = "right" BY <3>1, <3>3 DEF Halved
    <3>4. CASE z = "right" /\ y = "left" BY <3>1, <3>4 DEF Halved
    <3> QED BY <3>2, <3>3, <3>4
  <2> QED BY <1>2, <2>1 DEF Spans
<1> QED BY <1>1, <1>2

\* Node x of tree kid goes down on side s, and its child y of the other side o takes
\* its place.
TurnsTo(T, kid, none, x, s, o, y, kid2) ==
    /\ x \in T /\ s \in Side /\ o \in Side /\ s # o /\ y = kid[x][o] /\ y # none
    /\ DOMAIN kid2 = DOMAIN kid
    /\ kid2[x][s] = kid[x][s] /\ kid2[x][o] = kid[y][s]
    /\ kid2[y][s] = x /\ kid2[y][o] = kid[y][o]
    /\ \A p \in T \ {x, y}, z \in Side :
          kid2[p][z] = IF kid[p][z] = x THEN y ELSE kid[p][z]
Turned(sub, T, kid, none, x, s, y) ==
    [a \in T \cup {none} |-> IF a = y THEN sub[x]
                             ELSE IF a = x THEN {x} \cup sub[kid[x][s]] \cup sub[kid[y][s]]
                             ELSE sub[a]]

LEMMA RotationTurns ==
  ASSUME NEW T, NEW sub, NEW kid, NEW root, NEW none, Spans(sub, T, kid, root, none),
         NEW x, NEW s, NEW o, NEW y, NEW kid2, TurnsTo(T, kid, none, x, s, o, y, kid2)
  PROVE  /\ Spans(Turned(sub, T, kid, none, x, s, y), T, kid2,
                  IF root = x THEN y ELSE root, none)
         /\ \A K : SortedBy(sub, T, kid, K) =>
                   SortedBy(Turned(sub, T, kid, none, x, s, y), T, kid2, K)
<1> DEFINE new == Turned(sub, T, kid, none, x, s, y)
           top == IF root = x THEN y ELSE root
<1>1. /\ x \in T /\ s \in Side /\ o \in Side /\ s # o /\ y = kid[x][o] /\ y # none
      /\ DOMAIN kid2 = DOMAIN kid
      /\ kid2[x][s] = kid[x][s] /\ kid2[x][o] = kid[y][s]
      /\ kid2[y][s] = x /\ kid2[y][o] = kid[y][o]
      /\ \A p \in T \ {x, y}, z \in Side :
            kid2[p][z] = IF kid[p][z] = x THEN y ELSE kid[p][z]
  BY DEF TurnsTo
<1>2. /\ IsFiniteSet(T) /\ none \notin T /\ T \subseteq DOMAIN kid2 /\ root \in T
      /\ sub[root] = T /\ sub[none] = {}
  <2>1. root \in T BY <1>1, Splits
  <2> QED BY <1>1, <2>1 DEF Spans
<1>3. y \in T /\ x # y /\ y \in sub[y] /\ x \in sub[x] /\ y \in sub[x]
  <2>1. y \in T BY <1>1, SubtreeSizes
  <2>2. y \in sub[y] BY <2>1, Splits
  <2> QED BY <1>1, <2>1, <2>2, Splits
<1>4. /\ new[y] = sub[x] /\ new[x] = {x} \cup sub[kid[x][s]] \cup sub[kid[y][s]]
      /\ \A a \in T \cup {none} : a # x /\ a # y => new[a] = sub[a]
  BY <1>1, <1>2, <1>3 DEF Turned
<1> HIDE DEF new
<1>5. Halved(sub, T, kid, none, x, s, o) /\ Halved(sub, T, kid, none, y, s, o)
  <2>1. \A p \in T, z, w \in Side : z # w => Halved(sub, T, kid, none, p, z, w)
    BY SpansAre, Zenon
  <2>2. x \in T /\ y \in T /\ s \in Side /\ o \in Side /\ s # o BY <1>1, <1>3, Zenon
  <2> QED BY <2>1, <2>2, Zenon
<1>6. /\ kid[x][s] \notin {x, y} /\ kid[y][s] \notin {x, y} /\ kid[y][o] \notin {x, y}
      /\ kid[x][s] \in T \cup {none} /\ kid[y][s] \in T \cup {none} /\ kid[y][o] \in T \cup {none}
  <2>1. \A a \in T : a \in sub[a] BY Splits
  <2> QED BY <1>1, <1>2, <1>3, <1>5, <2>1 DEF Halved
<1>7. /\ new[kid[x][s]] = sub[kid[x][s]] /\ new[kid[y][s]] = sub[kid[y][s]]
      /\ new[kid[y][o]] = sub[kid[y][o]]
  <2>1. \A e \in T \cup {none} : e # x /\ e # y => new[e] = sub[e] BY <1>4
  <2>2. new[kid[x][s]] = sub[kid[x][s]] BY <1>6, <2>1, Zenon
  <2>3. new[kid[y][s]] = sub[kid[y][s]] BY <1>6, <2>1, Zenon
  <2>4. new[kid[y][o]] = sub[kid[y][o]] BY <1>6, <2>1, Zenon
  <2> QED BY <2>2, <2>3, <2>4
<1> DEFINE a == sub[kid[x][s]]
           b == sub[kid[y][s]]
           d == sub[kid[y][o]]
<1>16. /\ sub[x] = {x} \cup a \cup sub[y] /\ sub[y] = {y} \cup b \cup d
       /\ x \notin a /\ x \notin sub[y] /\ a \cap sub[y] = {}
       /\ y \notin b /\ y \notin d /\ b \cap d = {} /\ sub[x] \subseteq T
  BY <1>1, <1>5 DEF Halved
<1>17. /\ new[kid2[x][s]] = a /\ new[kid2[x][o]] = b /\ new[x] = {x} \cup a \cup b
       /\ new[kid2[y][s]] = new[x] /\ new[kid2[y][o]] = d /\ new[y] = sub[x]
  BY <1>1, <1>4, <1>7
<1> HIDE DEF a, b, d
<1>18. new[x] \subseteq T /\ new[y] \subseteq T /\ x \notin b /\ a \cap b = {}
       /\ new[y] = {y} \cup new[x] \cup d /\ y \notin new[x] /\ new[x] \cap d = {}
  BY <1>3, <1>16, <1>17
<1>8. Halved(new, T, kid2, none, x, s, o)
  <2>1. kid2[x][s] \in T \cup {none} /\ kid2[x][o] \in T \cup {none} BY <1>1, <1>6
  <2> QED BY <1>1, <1>16, <1>17, <1>18, <2>1 DEF Halved
<1>9. Halved(new, T, kid2, none, y, s, o)
  <2>1. kid2[y][s] \in T \cup {none} /\ kid2[y][o] \in T \cup {none} BY <1>1, <1>6
  <2> QED BY <1>1, <1>16, <1>17, <1>18, <2>1 DEF Halved
<1>10. ASSUME NEW p \in T, p # x, p # y, NEW z \in Side
       PROVE  new[kid2[p][z]] = sub[kid[p][z]] /\ kid2[p][z] \in T \cup {none}
  <2>1. kid2[p][z] = IF kid[p][z] = x THEN y ELSE kid[p][z] BY <1>1, <1>10
  <2>2. kid[p][z] \in T \cup {none} BY SubtreeSizes
  <2>3. kid[p][z] # y BY <1>1, <1>10, OneParent
  <2>4. CASE kid[p][z] = x BY <1>3, <1>4, <2>1, <2>4
  <2>5. CASE kid[p][z] # x BY <1>4, <2>1, <2>2, <2>3, <2>5
  <2> QED BY <2>4, <2>5
<1>11. ASSUME NEW p \in T, p # x, p # y PROVE Halved(new, T, kid2, none, p, s, o)
  <2>1. Halved(sub, T, kid, none, p, s, o) BY <1>1, SpansAre
  <2>2. new[p] = sub[p] BY <1>4, <1>11
  <2> QED BY <1>1, <1>10, <1>11, <2>1, <2>2 DEF Halved
<1>12. top \in T /\ new[top] = T
  <2>1. CASE root = x BY <1>2, <1>3, <1>4, <2>1
  <2>2. CASE root # x
    <3>1. y # root BY <1>1, OneParent
    <3> QED BY <1>2, <1>4, <2>2, <3>1
  <2> QED BY <2>1, <2>2
<1>13. new[none] = {} BY <1>1, <1>2, <1>4
<1> HIDE DEF top
<1>14. Spans(new, T, kid2, top, none)
  <2>1. \A p \in T : \E z, w \in Side : Halved(new, T, kid2, none, p, z, w)
    BY <1>1, <1>8, <1>9, <1>11
  <2> QED BY <1>2, <1>12, <1>13, <2>1, SpansAre
<1>15. ASSUME NEW K, SortedBy(sub, T, kid, K) PROVE SortedBy(new, T, kid2, K)
  <2>1. ASSUME NEW p \in T
        PROVE  /\ K[p] \in Int
               /\ \A c \in new[kid2[p]["left"]] : K[c] <= K[p]
               /\ \A c \in new[kid2[p]["right"]] : K[p] <= K[c]
    <3>1. \A q \in T : /\ K[q] \in Int
                       /\ \A c \in sub[kid[q]["left"]] : K[c] <= K[q]
                       /\ \A c \in sub[kid[q]["right"]] : K[q] <= K[c]
      BY <1>15 DEF SortedBy
    <3>2. CASE p # x /\ p # y
      <4>1. "left" \in Side /\ "right" \in Side BY DEF Side
      <4> QED BY <1>10, <3>1, <3>2, <4>1
    <3>3. (s = "left" /\ o = "right") \/ (s = "right" /\ o = "left") BY <1>1 DEF Side
    <3>4. /\ new[kid2[x][s]] = sub[kid[x][s]] /\ new[kid2[x][o]] = sub[kid[y][s]]
          /\ new[kid2[y][s]] = {x} \cup sub[kid[x][s]] \cup sub[kid[y][s]]
          /\ new[kid2[y][o]] = sub[kid[y][o]]
      <4>1. /\ kid2[x][s] = kid[x][s] /\ kid2[x][o] = kid[y][s]
            /\ kid2[y][s] = x /\ kid2[y][o] = kid[y][o]
        BY <1>1, Zenon
      <4>2. new[x] = {x} \cup sub[kid[x][s]] \cup sub[kid[y][s]] BY <1>4, Zenon
      <4> QED BY <1>7, <4>1, <4>2, Zenon
    <3>5. /\ sub[kid[y][s]] \subseteq sub[kid[x][o]] /\ y \in sub[kid[x][o]]
          /\ \A c \in sub[kid[x][s]] : c \in T
      BY <1>1, <1>3, <1>5 DEF Halved
    <3>6. K[x] \in Int /\ K[y] \in Int BY <1>1, <1>3, <3>1
    <3>7. CASE s = "left" /\ o = "right"
      <4>1. /\ \A c \in sub[kid[x]["left"]] : K[c] <= K[x] /\ K[c] \in Int
            /\ \A c \in sub[kid[y]["left"]] : K[x] <= K[c] /\ K[c] <= K[y]
            /\ \A c \in sub[kid[y]["right"]] : K[y] <= K[c]
            /\ K[x] <= K[y]
        BY <1>1, <1>3, <3>1, <3>5, <3>7
      <4>2. CASE p = x BY <3>4, <3>6, <3>7, <4>1, <4>2
      <4>3. CASE p = y BY <3>4, <3>6, <3>7, <4>1, <4>3
      <4> QED BY <3>2, <4>2, <4>3
    <3>8. CASE s = "right" /\ o = "left"
      <4>1. /\ \A c \in sub[kid[x]["right"]] : K[x] <= K[c] /\ K[c] \in Int
            /\ \A c \in sub[kid[y]["right"]] : K[c] <= K[x] /\ K[y] <= K[c]
            /\ \A c \in sub[kid[y]["left"]] : K[c] <= K[y]
            /\ K[y] <= K[x]
        BY <1>1, <1>3, <3>1, <3>5, <3>8
      <4>2. CASE p = x BY <3>4, <3>6, <3>8, <4>1, <4>2
      <4>3. CASE p = y BY <3>4, <3>6, <3>8, <4>1, <4>3
      <4> QED BY <3>2, <4>2, <4>3
    <3> QED BY <3>3, <3>7, <3>8
  <2> QED BY <2>1 DEF SortedBy
<1> QED BY <1>14, <1>15 DEF new, top
-----------------------------------------------------------------------------
\* Node r, not in the tree kid, takes the place of its node n.
TakesPlace(T, kid, none, n, r, kid2) ==
    /\ n \in T /\ r \notin T /\ r # none /\ r \in DOMAIN kid /\ DOMAIN kid2 = DOMAIN kid
    /\ \A p \in T \ {n}, z \in Side :
          kid2[p][z] = IF kid[p][z] = n THEN r ELSE kid[p][z]
    /\ \A z \in Side : kid2[r][z] = kid[n][z]
Instead(S, n, r) == IF n \in S THEN (S \ {n}) \cup {r} ELSE S
InPlace(sub, T, none, n, r) ==
    [a \in (T \ {n}) \cup {none, r} |-> IF a = r THEN Instead(sub[n], n, r)
                                        ELSE Instead(sub[a], n, r)]

\* new has r where sub has n.
Renames(new, sub, T, kid, kid2, n, r) ==
    /\ \A p \in T \ {n}, z \in Side : new[kid2[p][z]] = Instead(sub[kid[p][z]], n, r)
    /\ \A z \in Side : new[kid2[r][z]] = sub[kid[n][z]]

LEMMA PlaceTaken ==
  ASSUME NEW T, NEW sub, NEW kid, NEW root, NEW none, Spans(sub, T, kid, root, none),
         NEW n, NEW r, NEW kid2, TakesPlace(T, kid, none, n, r, kid2)
  PROVE  /\ Spans(InPlace(sub, T, none, n, r), (T \ {n}) \cup {r}, kid2,
                  IF root = n THEN r ELSE root, none)
         /\ Renames(InPlace(sub, T, none, n, r), sub, T, kid, kid2, n, r)
<1> DEFINE new == InPlace(sub, T, none, n, r)
           U == (T \ {n}) \cup {r}
           top == IF root = n THEN r ELSE root
           in(S) == Instead(S, n, r)
<1>1. /\ n \in T /\ r \notin T /\ r # none /\ r \in DOMAIN kid /\ DOMAIN kid2 = DOMAIN kid
      /\ \A p \in T \ {n}, z \in Side :
            kid2[p][z] = IF kid[p][z] = n THEN r ELSE kid[p][z]
      /\ \A z \in Side : kid2[r][z] = kid[n][z]
  BY DEF TakesPlace
<1>2. /\ IsFiniteSet(T) /\ none \notin T /\ T \subseteq DOMAIN kid /\ root \in T
      /\ sub[root] = T /\ sub[none] = {}
  <2>1. root \in T BY <1>1, Splits
  <2> QED BY <2>1 DEF Spans
<1>3. IsFiniteSet(U) /\ none \notin U /\ U \subseteq DOMAIN kid2
  <2>1. IsFiniteSet(T \ {n}) BY <1>2, FS_RemoveElement
  <2>2. IsFiniteSet(U) BY <2>1, FS_AddElement
  <2> QED BY <1>1, <1>2, <2>2
<1>4. /\ new[r] = in(sub[n]) /\ \A a \in T \ {n} : new[a] = in(sub[a])
      /\ new[none] = {}
  BY <1>1, <1>2 DEF InPlace, Instead
<1> HIDE DEF new
<1>5. n \in sub[n] BY <1>1, Splits
<1>6. ASSUME NEW p \in T \ {n}, NEW z \in Side
      PROVE  new[kid2[p][z]] = in(sub[kid[p][z]]) /\ kid2[p][z] \in U \cup {none}
  <2>1. kid[p][z] \in T \cup {none} BY SubtreeSizes
  <2>2. in({}) = {} BY DEF Instead
  <2>3. CASE kid[p][z] = n BY <1>1, <1>4, <2>3
  <2>4. CASE kid[p][z] # n
    <3>1. kid2[p][z] = kid[p][z] BY <1>1, <2>4
    <3>2. CASE kid[p][z] = none BY <1>2, <1>4, <2>2, <3>1, <3>2
    <3>3. CASE kid[p][z] # none BY <1>4, <2>1, <2>4, <3>1, <3>3
    <3> QED BY <3>2, <3>3
  <2> QED BY <2>3, <2>4
<1>7. ASSUME NEW z \in Side
      PROVE  new[kid2[r][z]] = sub[kid[n][z]] /\ kid2[r][z] \in U \cup {none}
             /\ n \notin sub[kid[n][z]]
  <2>1. kid[n][z] \in T \cup {none} /\ n \notin sub[kid[n][z]] BY <1>1, SubtreeSizes
  <2>2. kid[n][z] # n
    <3> SUFFICES ASSUME kid[n][z] = n PROVE FALSE OBVIOUS
    <3> QED BY <1>5, <2>1
  <2>3. kid2[r][z] = kid[n][z] BY <1>1
  <2>4. CASE kid[n][z] = none BY <1>2, <1>4, <2>3, <2>4, <2>1
  <2>5. CASE kid[n][z] # none BY <1>4, <2>1, <2>2, <2>3, <2>5 DEF Instead
  <2> QED BY <2>4, <2>5
<1>8. top \in U /\ new[top] = U
  <2>1. CASE root = n BY <1>1, <1>2, <1>4, <2>1 DEF Instead
  <2>2. CASE root # n BY <1>1, <1>2, <1>4, <2>2 DEF Instead
  <2> QED BY <2>1, <2>2
<1>9. ASSUME NEW p \in U
      PROVE  /\ kid2[p]["left"] \in U \cup {none} /\ kid2[p]["right"] \in U \cup {none}
             /\ new[p] = {p} \cup new[kid2[p]["left"]] \cup new[kid2[p]["right"]]
             /\ new[p] \subseteq U
             /\ p \notin new[kid2[p]["left"]] /\ p \notin new[kid2[p]["right"]]
             /\ new[kid2[p]["left"]] \cap new[kid2[p]["right"]] = {}
  <2>1. "left" \in Side /\ "right" \in Side BY DEF Side
  <2>2. CASE p = r
    <3> DEFINE a == sub[kid[n]["left"]]
               b == sub[kid[n]["right"]]
    <3>1. sub[n] = {n} \cup a \cup b /\ a \cap b = {} /\ sub[n] \subseteq T
          /\ n \notin a /\ n \notin b
      BY <1>1 DEF Spans
    <3>2. new[kid2[r]["left"]] = a /\ new[kid2[r]["right"]] = b BY <1>7, <2>1
    <3>3. /\ kid2[r]["left"] \in U \cup {none} /\ kid2[r]["right"] \in U \cup {none}
      BY <1>7, <2>1
    <3> HIDE DEF a, b, U, top
    <3>4. new[r] = {r} \cup a \cup b BY <1>4, <1>5, <3>1 DEF Instead
    <3>5. new[r] \subseteq U BY <3>1, <3>4 DEF U
    <3> QED BY <1>1, <2>2, <3>1, <3>2, <3>3, <3>4, <3>5
  <2>3. CASE p \in T \ {n}
    <3> DEFINE a == sub[kid[p]["left"]]
               b == sub[kid[p]["right"]]
    <3>1. sub[p] = {p} \cup a \cup b /\ a \cap b = {} /\ sub[p] \subseteq T
          /\ p \notin a /\ p \notin b
      BY <2>3 DEF Spans
    <3>2. new[kid2[p]["left"]] = in(a) /\ new[kid2[p]["right"]] = in(b) /\ new[p] = in(sub[p])
      BY <1>4, <1>6, <2>1, <2>3
    <3>3. /\ kid2[p]["left"] \in U \cup {none} /\ kid2[p]["right"] \in U \cup {none}
      BY <1>6, <2>1, <2>3
    <3> HIDE DEF a, b
    <3>4. /\ in(sub[p]) = {p} \cup in(a) \cup in(b) /\ in(sub[p]) \subseteq U
          /\ p \notin in(a) /\ p \notin in(b) /\ in(a) \cap in(b) = {}
      BY <1>1, <2>3, <3>1 DEF Instead
    <3> QED BY <3>2, <3>3, <3>4
  <2> QED BY <2>2, <2>3
<1> HIDE DEF U, top
<1>10. Spans(new, U, kid2, top, none) BY <1>3, <1>4, <1>8, <1>9 DEF Spans
<1>11. Renames(new, sub, T, kid, kid2, n, r) BY <1>6, <1>7 DEF Renames
<1> QED BY <1>10, <1>11 DEF new, top, U
-----------------------------------------------------------------------------
\* b is on side s of a in the order of K, which tells the nodes T apart.
Beyond(K, s, a, b) == IF s = "left" THEN K[b] < K[a] ELSE K[a] < K[b]
Distinct(K, T) == \A a \in T : K[a] \in Int /\ \A b \in T : K[a] = K[b] => a = b

LEMMA BeyondOrders ==
  ASSUME NEW K, NEW T, Distinct(K, T), NEW a \in T, NEW b \in T, NEW s \in Side
  PROVE  /\ ~Beyond(K, s, a, a)
         /\ ~(Beyond(K, s, a, b) /\ Beyond(K, s, b, a))
         /\ Beyond(K, s, a, b) \/ a = b \/ Beyond(K, s, b, a)
         /\ \A o \in Side : s # o => (Beyond(K, o, a, b) <=> Beyond(K, s, b, a))
         /\ \A c \in T : Beyond(K, s, a, b) /\ Beyond(K, s, b, c) => Beyond(K, s, a, c)
<1>1. K[a] \in Int /\ K[b] \in Int /\ (K[a] = K[b] => a = b) /\ \A c \in T : K[c] \in Int
  BY DEF Distinct
<1>2. s = "left" \/ s = "right" BY DEF Side
<1> QED BY <1>1, <1>2 DEF Beyond, Side

\* What is below a node on one side is on that side of it in the order too.
LEMMA SidesDiffer ==
  ASSUME NEW T, NEW sub, NEW kid, NEW root, NEW none, Spans(sub, T, kid, root, none),
         NEW K, Distinct(K, T)
  PROVE  SortedBy(sub, T, kid, K) <=>
            \A p \in T, s \in Side : \A a \in sub[kid[p][s]] : Beyond(K, s, p, a)
<1>1. \A p \in T : K[p] \in Int BY DEF Distinct
<1>2. ASSUME SortedBy(sub, T, kid, K), NEW p \in T, NEW s \in Side, NEW a \in sub[kid[p][s]]
      PROVE  Beyond(K, s, p, a)
  <2>1. a # p /\ a \in T
    <3>1. a \in sub[p] /\ a # p BY Splits
    <3> QED BY <3>1, Splits
  <2>2. K[a] # K[p] /\ K[a] \in Int /\ K[p] \in Int BY <2>1 DEF Distinct
  <2>3. CASE s = "left"
    <3>1. K[a] <= K[p] BY <1>2, <2>3 DEF SortedBy
    <3> QED BY <2>2, <2>3, <3>1 DEF Beyond
  <2>4. CASE s = "right"
    <3>1. K[p] <= K[a] BY <1>2, <2>4 DEF SortedBy
    <3> QED BY <2>2, <2>4, <3>1 DEF Beyond
  <2> QED BY <2>3, <2>4 DEF Side
<1>3. ASSUME \A p \in T, s \in Side : \A a \in sub[kid[p][s]] : Beyond(K, s, p, a)
      PROVE  SortedBy(sub, T, kid, K)
  <2>1. ASSUME NEW p \in T
        PROVE  /\ \A a \in sub[kid[p]["left"]] : K[a] <= K[p]
               /\ \A a \in sub[kid[p]["right"]] : K[p] <= K[a]
    <3>1. "left" \in Side /\ "right" \in Side BY DEF Side
    <3>2. ASSUME NEW s \in Side, NEW a \in sub[kid[p][s]]
          PROVE K[a] \in Int /\ K[p] \in Int /\ Beyond(K, s, p, a)
      <4>1. a \in T
        <5>1. a \in sub[p] BY Splits
        <5> QED BY <5>1, Splits
      <4> QED BY <1>1, <1>3, <4>1
    <3>3. \A a \in sub[kid[p]["left"]] : K[a] <= K[p] BY <3>1, <3>2 DEF Beyond
    <3>4. \A a \in sub[kid[p]["right"]] : K[p] <= K[a] BY <3>1, <3>2 DEF Beyond
    <3> QED BY <3>3, <3>4
  <2> QED BY <1>1, <2>1 DEF SortedBy
<1> QED BY <1>2, <1>3

\* A node that is not below a is on one side of all that is.
LEMMA OneSide ==
  ASSUME NEW T, NEW sub, NEW kid, NEW root, NEW none, Spans(sub, T, kid, root, none),
         NEW K, Distinct(K, T), SortedBy(sub, T, kid, K),
         NEW a \in T, NEW k \in T, k \notin sub[a]
  PROVE  \E s \in Side : \A y \in sub[a] : Beyond(K, s, k, y)
<1> DEFINE both == {x \in T : a \in sub[x] /\ k \in sub[x]}
           M == {Cardinality(sub[x]) : x \in both}
<1>1. root \in both BY Splits
<1>2. M \in SUBSET Nat /\ M # {} BY <1>1, SubtreeSizes
<1>3. PICK m \in M : \A n \in M : m <= n
  <2> HIDE DEF M
  <2> QED BY <1>2, HasLeast
<1>4. PICK x \in both : m = Cardinality(sub[x]) OBVIOUS
<1>5. x \in T /\ a \in sub[x] /\ k \in sub[x] /\ x # a OBVIOUS
<1>6. PICK s \in Side : a \in sub[kid[x][s]] BY <1>5, Splits
<1>7. kid[x][s] \in T BY <1>5, <1>6, Splits
<1>8. k \notin sub[kid[x][s]]
  <2> SUFFICES ASSUME k \in sub[kid[x][s]] PROVE FALSE OBVIOUS
  <2>1. kid[x][s] \in both BY <1>6, <1>7
  <2>2. Cardinality(sub[kid[x][s]]) \in M BY <2>1
  <2>3. Cardinality(sub[kid[x][s]]) < Cardinality(sub[x]) /\ Cardinality(sub[x]) \in Nat
        /\ Cardinality(sub[kid[x][s]]) \in Nat
    BY <1>5, <1>7, SubtreeSizes
  <2> HIDE DEF M, both
  <2> QED BY <1>3, <1>4, <2>2, <2>3
<1>9. \A p \in T, z \in Side : \A y \in sub[kid[p][z]] : Beyond(K, z, p, y) BY SidesDiffer
<1>10. ASSUME NEW y \in sub[a] PROVE Beyond(K, s, x, y) /\ y \in T
  <2>1. y \in T /\ sub[a] \subseteq sub[kid[x][s]] BY <1>6, <1>7, SubtreeBelow
  <2> QED BY <1>5, <1>9, <2>1
<1>11. CASE k = x BY <1>10, <1>11
<1>12. CASE k # x
  <2>1. PICK z \in Side : k \in sub[kid[x][z]] BY <1>5, <1>12, Splits
  <2>2. z # s BY <1>8, <2>1
  <2>3. Beyond(K, z, x, k) BY <1>5, <1>9, <2>1
  <2>4. Beyond(K, s, k, x) BY <1>5, <2>2, <2>3, BeyondOrders
  <2> QED BY <1>5, <1>10, <2>4, BeyondOrders
<1> QED BY <1>11, <1>12

LEMMA ListsAre ==
  ASSUME NEW X, NEW s, Lists(s, X)
  PROVE  Range(s) = X /\ IsInjective(s) /\ DOMAIN s = 1 .. Len(s) /\ Len(s) \in Nat
         /\ \A i \in 1 .. Len(s) : s[i] \in X
<1>1. s \in Seq(X) BY DEF Lists
<1>2. DOMAIN s = 1 .. Len(s) /\ Len(s) \in Nat BY <1>1, LenProperties
<1>3. \A i \in 1 .. Len(s) : s[i] \in X BY <1>1, ElementOfSeq
<1>4. Range(s) = X BY <1>2, <1>3 DEF Lists, Range
<1>5. IsInjective(s) BY <1>2 DEF Lists, IsInjective
<1> QED BY <1>2, <1>3, <1>4, <1>5
=============================================================================
