----------------------------- MODULE SListProofs -----------------------------
(***************************************************************************)
(* Proofs about SList, for every set of threads and nodes, every keys and  *)
(* every programs.  IInv is inductive; the properties the run checks       *)
(* follow from it.                                                         *)
(***************************************************************************)
EXTENDS SList, Ranking, SequenceTheorems

\* What Walk adds to the nodes it has met.
Onward(before, k) ==
    LET next == IF before = <<>> THEN head ELSE link[Last(before)]
    IN  IF Len(before) < k \/ next = None THEN before ELSE Append(before, next)

LinksTyped == head \in Nodes \cup {None} /\ link \in [Nodes -> Nodes \cup {None}]

LEMMA LastIs == ASSUME NEW S, NEW s \in Seq(S), s # <<>>
                PROVE  Last(s) = s[Len(s)] /\ Last(s) \in S /\ Len(s) > 0
<1>1. Len(s) \in Nat \ {0} /\ Len(s) \in 1 .. Len(s) BY EmptySeq
<1>2. s[Len(s)] \in S BY <1>1, ElementOfSeq
<1> QED BY <1>1, <1>2 DEF Last

\* Walk is a function, and each of its values follows from the one before.
LEMMA WalkSteps == ASSUME LinksTyped
                   PROVE  /\ Walk[0] = <<>>
                          /\ \A k \in Nat : /\ Walk[k] \in Seq(Nodes)
                                            /\ Walk[k + 1] = Onward(Walk[k], k)
<1> DEFINE S == Seq(Nodes)
           step == [p \in S \X Nat |-> Onward(p[1], p[2])]
<1>1. ASSUME NEW s \in S, NEW k \in Nat PROVE Onward(s, k) \in S
  <2>1. CASE s = <<>>
    BY <2>1, AppendProperties DEF Onward, LinksTyped
  <2>2. CASE s # <<>>
    <3>1. Last(s) \in Nodes BY <2>2, LastIs
    <3>2. link[Last(s)] \in Nodes \cup {None} BY <3>1 DEF LinksTyped
    <3>3. link[Last(s)] # None => Append(s, link[Last(s)]) \in S
      BY <3>2, AppendProperties
    <3> QED BY <2>2, <3>3 DEF Onward
  <2> QED BY <2>1, <2>2
<1>2. step \in [S \X Nat -> S]
  <2>1. \A p \in S \X Nat : p[1] \in S /\ p[2] \in Nat OBVIOUS
  <2> QED BY <1>1, <2>1
<1>3. <<>> \in S BY EmptySeq
<1>4. PICK g \in [Nat -> S] : g[0] = <<>> /\ \A n \in Nat : g[n + 1] = step[<<g[n], n>>]
  <2> HIDE DEF S, step
  <2>1. \E g : Iterates(g, S, <<>>, step) BY <1>2, <1>3, Iterate
  <2> QED BY <2>1 DEF Iterates
<1>5. \A n \in Nat : g[n + 1] = Onward(g[n], n)
  <2>1. ASSUME NEW n \in Nat PROVE step[<<g[n], n>>] = Onward(g[n], n)
    <3>1. <<g[n], n>> \in S \X Nat OBVIOUS
    <3> QED BY <3>1
  <2> QED BY <1>4, <2>1
<1> DEFINE body(f) == [k \in Nat |->
               IF k = 0 THEN <<>>
               ELSE LET before == f[k - 1]
                        next == IF before = <<>> THEN head ELSE link[Last(before)]
                    IN  IF Len(before) < k - 1 \/ next = None THEN before
                                                              ELSE Append(before, next)]
<1>6. ASSUME NEW f, NEW k \in Nat
      PROVE  body(f)[k] = IF k = 0 THEN <<>> ELSE Onward(f[k - 1], k - 1)
  BY Zenon DEF Onward
<1> HIDE DEF step, S
<1>7. g = body(g)
  <2>1. ASSUME NEW k \in Nat PROVE g[k] = body(g)[k]
    <3>1. CASE k = 0 BY <1>4, <1>6, <3>1
    <3>2. CASE k # 0
      <4>1. k - 1 \in Nat /\ (k - 1) + 1 = k BY <3>2
      <4>2. g[(k - 1) + 1] = Onward(g[k - 1], k - 1) BY <1>5, <4>1
      <4> HIDE DEF body
      <4> QED BY <1>6, <3>2, <4>1, <4>2
    <3> QED BY <3>1, <3>2
  <2>2. body(g) = [k \in Nat |-> body(g)[k]] OBVIOUS
  <2>3. g = [k \in Nat |-> g[k]] BY <1>4
  <2> HIDE DEF body
  <2> QED BY <2>1, <2>2, <2>3
<1>8. Walk = body(Walk)
  <2>1. \E f : f = body(f) BY <1>7
  <2>2. (CHOOSE f : f = body(f)) = body(CHOOSE f : f = body(f))
    <3> HIDE DEF body
    <3> QED BY <2>1
  <2> QED BY <2>2 DEF Walk
<1>9. Walk[0] = <<>> /\ \A k \in Nat : Walk[k + 1] = Onward(Walk[k], k)
  <2>1. Walk[0] = body(Walk)[0] /\ \A k \in Nat : Walk[k + 1] = body(Walk)[k + 1]
    <3> HIDE DEF body
    <3> QED BY <1>8
  <2>2. ASSUME NEW k \in Nat PROVE body(Walk)[k + 1] = Onward(Walk[k], k)
    <3>1. k + 1 \in Nat /\ k + 1 # 0 /\ (k + 1) - 1 = k OBVIOUS
    <3> HIDE DEF body
    <3> QED BY <1>6, <3>1
  <2>3. body(Walk)[0] = <<>> BY <1>6
  <2> HIDE DEF body
  <2> QED BY <2>1, <2>2, <2>3
<1>10. {k \in Nat : Walk[k] \in S} = Nat
  <2> DEFINE D == {k \in Nat : Walk[k] \in S}
  <2>1. 0 \in D BY <1>3, <1>9
  <2>2. ASSUME NEW k \in D PROVE k + 1 \in D
    <3>1. k \in Nat /\ Walk[k] \in S /\ Walk[k + 1] = Onward(Walk[k], k) BY <1>9
    <3>2. Onward(Walk[k], k) \in S BY <1>1, <3>1
    <3> QED BY <3>1, <3>2
  <2>3. D \in SUBSET Nat OBVIOUS
  <2> HIDE DEF D
  <2>4. D = Nat BY <2>1, <2>2, <2>3, Induct
  <2> QED BY <2>4 DEF D
<1> QED BY <1>9, <1>10 DEF S
-----------------------------------------------------------------------------
\* The list's pointers spell a sequence of nodes, none of them twice.
Apiece(s) == \A i, j \in 1 .. Len(s) : s[i] = s[j] => i = j
Spells(s) == /\ Apiece(s)
             /\ head = IF s = <<>> THEN None ELSE s[1]
             /\ \A i \in 1 .. Len(s) : link[s[i]] = IF i = Len(s) THEN None ELSE s[i + 1]

\* A sequence without repetitions is as long as it has nodes.
LEMMA LengthIsSize ==
  ASSUME NEW s \in Seq(Nodes), Apiece(s)
  PROVE  /\ IsFiniteSet(Range(s)) /\ Cardinality(Range(s)) = Len(s)
         /\ IsFiniteSet(Nodes) => Len(s) <= Cardinality(Nodes)
<1>1. Len(s) \in Nat /\ s \in [1 .. Len(s) -> Nodes] /\ Range(s) \subseteq Nodes
  BY LenProperties, RangeOfSeq
<1>2. IsFiniteSet(1 .. Len(s)) /\ Cardinality(1 .. Len(s)) = Len(s)
  BY <1>1, FS_Interval, SMTT(20)
<1>3. s \in Bijection(1 .. Len(s), Range(s))
  BY <1>1 DEF Bijection, Injection, Surjection, IsInjective, Range, Apiece
<1>4. IsFiniteSet(Range(s)) /\ Cardinality(Range(s)) = Len(s)
  <2>1. ExistsBijection(1 .. Len(s), Range(s)) BY <1>3 DEF ExistsBijection
  <2> QED BY <1>2, <2>1, FS_Bijection
<1>5. IsFiniteSet(Nodes) => Cardinality(Range(s)) <= Cardinality(Nodes)
  BY <1>1, FS_Subset
<1> QED BY <1>4, <1>5

\* Following the links from head meets the sequence that the pointers spell.
LEMMA ChainIs == ASSUME SListAssumption, LinksTyped, NEW s \in Seq(Nodes), Spells(s)
                 PROVE  Chain = s
<1> DEFINE L == Len(s)
           upto(k) == IF k <= L THEN SubSeq(s, 1, k) ELSE s
           D == {k \in Nat : Walk[k] = upto(k)}
<1>1. L \in Nat /\ (L = 0 <=> s = <<>>) /\ \A i \in 1 .. L : s[i] \in Nodes
  BY EmptySeq, ElementOfSeq
<1>2. ASSUME NEW k \in 1 .. L
      PROVE  /\ SubSeq(s, 1, k) \in Seq(Nodes) /\ SubSeq(s, 1, k) # <<>>
             /\ Len(SubSeq(s, 1, k)) = k /\ Last(SubSeq(s, 1, k)) = s[k]
  <2>1. /\ SubSeq(s, 1, k) \in Seq(Nodes) /\ Len(SubSeq(s, 1, k)) = k
        /\ \A i \in 1 .. k : SubSeq(s, 1, k)[i] = s[i]
    BY <1>1, SubSeqProperties
  <2>2. SubSeq(s, 1, k)[k] = s[k] BY <1>1, <2>1
  <2>3. SubSeq(s, 1, k) # <<>> BY <2>1, EmptySeq
  <2> QED BY <2>1, <2>2, <2>3 DEF Last
<1>3. SubSeq(s, 1, 0) = <<>> /\ SubSeq(s, 1, L) = s
  BY <1>1, SubSeqEmpty, SubSeqFull
<1>4. ASSUME NEW k \in 1 .. L - 1
      PROVE  SubSeq(s, 1, k + 1) = Append(SubSeq(s, 1, k), s[k + 1])
  <2>1. /\ 1 \in 1 .. L /\ k + 1 \in 1 .. L /\ (k + 1) - 1 = k /\ k \in 1 .. L
        /\ s[k + 1] \in Nodes
    BY <1>1
  <2>2. SubSeq(s, 1, k + 1) = SubSeq(s, 1, (k + 1) - 1) \o <<s[k + 1]>>
    BY <2>1, SubSeqRecursiveSecond
  <2>3. SubSeq(s, 1, k) \in Seq(Nodes) BY <1>2, <2>1
  <2> QED BY <2>1, <2>2, <2>3, AppendIsConcat
<1>5. L > 0 => SubSeq(s, 1, 1) = Append(<<>>, s[1])
  <2> SUFFICES ASSUME L > 0 PROVE SubSeq(s, 1, 1) = Append(<<>>, s[1])
    OBVIOUS
  <2>1. 1 \in 1 .. L /\ s[1] \in Nodes /\ 1 - 1 = 0 BY <1>1
  <2>2. SubSeq(s, 1, 1) = SubSeq(s, 1, 1 - 1) \o <<s[1]>> BY <2>1, SubSeqRecursiveSecond
  <2>3. <<>> \in Seq(Nodes) BY EmptySeq
  <2>4. SubSeq(s, 1, 1) = <<>> \o <<s[1]>> BY <1>3, <2>1, <2>2
  <2>5. Append(<<>>, s[1]) = <<>> \o <<s[1]>> BY <2>1, <2>3, AppendIsConcat
  <2> QED BY <2>4, <2>5
<1>6. /\ upto(0) = <<>>
      /\ \A k \in 1 .. L : upto(k) = SubSeq(s, 1, k)
      /\ \A k \in Nat : k >= L => upto(k) = s
  <2>1. upto(0) = <<>> BY <1>1, <1>3
  <2>2. \A k \in 1 .. L : upto(k) = SubSeq(s, 1, k) BY <1>1
  <2>3. ASSUME NEW k \in Nat, k >= L PROVE upto(k) = s
    <3>1. CASE k = L BY <1>3, <3>1, Zenon
    <3>2. CASE ~(k <= L) BY <3>2
    <3> QED BY <1>1, <2>3, <3>1, <3>2
  <2> HIDE DEF upto
  <2> QED BY <2>1, <2>2, <2>3
<1> HIDE DEF upto
<1>7. ASSUME NEW k \in Nat PROVE Onward(upto(k), k) = upto(k + 1)
  <2>1. CASE k > L
    <3>1. upto(k) = s /\ upto(k + 1) = s /\ Len(s) < k BY <1>1, <1>6, <2>1
    <3> QED BY <3>1 DEF Onward
  <2>2. CASE k = L /\ L = 0
    <3>1. upto(k) = <<>> /\ upto(k + 1) = <<>> /\ head = None
      BY <1>1, <1>6, <2>2 DEF Spells
    <3> QED BY <3>1 DEF Onward
  <2>3. CASE k = L /\ L # 0
    <3>1. upto(k) = s /\ upto(k + 1) = s /\ s # <<>> BY <1>1, <1>6, <2>3
    <3>2. L \in 1 .. L /\ Last(s) = s[L] BY <1>1, <2>3 DEF Last
    <3>3. link[Last(s)] = None BY <3>2 DEF Spells
    <3> QED BY <3>1, <3>3 DEF Onward
  <2>4. CASE k = 0 /\ L > 0
    <3>1. upto(k) = <<>> /\ upto(k + 1) = Append(<<>>, s[1])
      <4>1. 1 \in 1 .. L /\ k + 1 = 1 BY <1>1, <2>4
      <4> QED BY <1>5, <1>6, <2>4, <4>1
    <3>2. head = s[1] /\ s[1] # None
      BY <1>1, <2>4 DEF Spells, SListAssumption, NoneAssumption
    <3>3. Len(<<>>) = 0 BY EmptySeq
    <3>4. ~(Len(<<>>) < k) BY <2>4, <3>3
    <3> QED BY <3>1, <3>2, <3>4, Zenon DEF Onward
  <2>5. CASE k \in 1 .. L - 1
    <3> DEFINE b == SubSeq(s, 1, k)
    <3>1. k + 1 \in 1 .. L /\ k \in 1 .. L /\ k # L BY <1>1, <2>5
    <3>2. upto(k) = b /\ upto(k + 1) = SubSeq(s, 1, k + 1) BY <1>6, <3>1
    <3>3. b # <<>> /\ Len(b) = k /\ Last(b) = s[k] BY <1>2, <3>1
    <3>4. link[s[k]] = s[k + 1] /\ s[k + 1] # None
      BY <1>1, <3>1 DEF Spells, SListAssumption, NoneAssumption
    <3>5. SubSeq(s, 1, k + 1) = Append(b, s[k + 1]) BY <1>4, <2>5
    <3> HIDE DEF b
    <3>6. ~(Len(b) < k) BY <2>5, <3>3
    <3> QED BY <3>2, <3>3, <3>4, <3>5, <3>6, Zenon DEF Onward
  <2> QED BY <1>1, <2>1, <2>2, <2>3, <2>4, <2>5
<1>8. D = Nat
  <2>1. 0 \in D BY <1>6, WalkSteps
  <2>2. ASSUME NEW k \in D PROVE k + 1 \in D
    <3>1. k \in Nat /\ Walk[k] = upto(k) OBVIOUS
    <3>2. Walk[k + 1] = Onward(Walk[k], k) BY <3>1, WalkSteps
    <3>3. Walk[k + 1] = upto(k + 1) BY <1>7, <3>1, <3>2
    <3> QED BY <3>1, <3>3
  <2>3. D \in SUBSET Nat OBVIOUS
  <2> HIDE DEF D
  <2> QED BY <2>1, <2>2, <2>3, Induct
<1>9. L <= Cardinality(Nodes) /\ Cardinality(Nodes) \in Nat
  BY LengthIsSize, FS_CardinalityType DEF Spells, SListAssumption, NodesAssumption
<1>10. Walk[Cardinality(Nodes) + 1] = s
  <2>1. Cardinality(Nodes) + 1 \in Nat /\ Cardinality(Nodes) + 1 >= L BY <1>1, <1>9
  <2>2. Walk[Cardinality(Nodes) + 1] = upto(Cardinality(Nodes) + 1) BY <1>8, <2>1
  <2> QED BY <1>6, <2>1, <2>2
<1> QED BY <1>10 DEF Chain
-----------------------------------------------------------------------------
\* Where a place comes when places are taken last to first.
Rank(places, i) == Cardinality({j \in places : j >= i})

\* Each place has a rank of its own, and each rank up to their number is taken.
LEMMA Ranks ==
  ASSUME NEW places \in SUBSET Nat, IsFiniteSet(places)
  PROVE  /\ Cardinality(places) \in Nat
         /\ \A i \in places : Rank(places, i) \in 1 .. Cardinality(places)
         /\ \A i, j \in places : Rank(places, i) = Rank(places, j) => i = j
         /\ \A k \in 1 .. Cardinality(places) : \E i \in places : Rank(places, i) = k
<1> DEFINE from == [i \in places |-> {j \in places : j >= i}]
<1>1. ASSUME NEW i \in places PROVE from[i] \in SUBSET places /\ i \in from[i]
  OBVIOUS
<1>2. ASSUME NEW i \in places, NEW j \in places, i < j
      PROVE  from[j] \subseteq from[i] \ {i}
  <2>1. ASSUME NEW x \in places, x >= j PROVE x >= i /\ x # i
    <3>1. x \in Nat /\ i \in Nat /\ j \in Nat OBVIOUS
    <3> QED BY <1>2, <2>1, <3>1
  <2> QED BY <2>1
<1>3. \A i, j \in places : i # j => i < j \/ j < i
  OBVIOUS
<1>4. Nested(places, from)
  <2> HIDE DEF from
  <2> QED BY <1>1, <1>2, <1>3 DEF Nested
<1>5. \A i \in places : Rank(places, i) = Cardinality(from[i]) BY DEF Rank
<1> HIDE DEF from
<1>6. Ranked(places, from) BY <1>4, NestedRanks
<1> QED BY <1>5, <1>6, Zenon DEF Ranked

\* Backward takes each of the places once.
LEMMA BackwardIs ==
  ASSUME NEW s \in Seq(Nodes), NEW places \in SUBSET (1 .. Len(s))
  PROVE  /\ Backward(s, places) \in Seq(Nodes)
         /\ Len(Backward(s, places)) = Cardinality(places)
         /\ Cardinality(places) \in Nat
         /\ Range(Backward(s, places)) = {s[i] : i \in places}
         /\ Apiece(s) => Apiece(Backward(s, places))
         /\ places # 1 .. Len(s) => Cardinality(places) < Len(s)
<1> DEFINE b == Backward(s, places)
           n == Cardinality(places)
           at(k) == CHOOSE i \in places : Rank(places, i) = k
<1>1. /\ Len(s) \in Nat /\ \A i \in 1 .. Len(s) : s[i] \in Nodes
      /\ IsFiniteSet(1 .. Len(s)) /\ Cardinality(1 .. Len(s)) = Len(s)
  <2>1. Len(s) \in Nat /\ \A i \in 1 .. Len(s) : s[i] \in Nodes
    BY ElementOfSeq, LenProperties
  <2>2. 1 \in Int /\ Len(s) \in Int BY <2>1
  <2>3. IsFiniteSet(1 .. Len(s)) BY <2>2, FS_Interval
  <2>4. Cardinality(1 .. Len(s)) = Len(s)
    <3> DEFINE h == Len(s)
    <3>1. h \in Nat BY <2>1
    <3> HIDE DEF h
    <3>2. Cardinality(1 .. h) = IF 1 > h THEN 0 ELSE h - 1 + 1 BY <3>1, FS_Interval
    <3>3. Cardinality(1 .. h) = h BY <3>1, <3>2
    <3> QED BY <3>3 DEF h
  <2> QED BY <2>1, <2>3, <2>4
<1>2. IsFiniteSet(places) /\ places \in SUBSET Nat
  <2>1. \A i \in 1 .. Len(s) : i \in Nat BY <1>1
  <2> QED BY <1>1, <2>1, FS_Subset
<1>3. /\ n \in Nat
      /\ \A i \in places : Rank(places, i) \in 1 .. n
      /\ \A i, j \in places : Rank(places, i) = Rank(places, j) => i = j
      /\ \A k \in 1 .. n : \E i \in places : Rank(places, i) = k
  BY <1>2, Ranks
<1>4. \A k \in 1 .. n : at(k) \in places /\ Rank(places, at(k)) = k
  BY <1>3
<1>5. \A i \in places : at(Rank(places, i)) = i
  BY <1>3, <1>4
<1>6. b = [k \in 1 .. n |-> s[at(k)]]
  BY DEF Backward, Rank
<1> HIDE DEF at, b, n
<1>7. \A k \in 1 .. n : b[k] = s[at(k)] /\ at(k) \in 1 .. Len(s)
  BY <1>4, <1>6
<1>8. b \in Seq(Nodes) /\ Len(b) = n
  <2>1. b \in [1 .. n -> Nodes] BY <1>1, <1>6, <1>7
  <2> QED BY <1>3, <2>1
<1>9. Range(b) = {s[i] : i \in places}
  <2>1. DOMAIN b = 1 .. n BY <1>6
  <2>2. ASSUME NEW k \in 1 .. n PROVE b[k] \in {s[i] : i \in places}
    BY <1>4, <1>7
  <2>3. ASSUME NEW i \in places PROVE \E k \in 1 .. n : b[k] = s[i]
    BY <1>3, <1>5, <1>7
  <2> QED BY <2>1, <2>2, <2>3 DEF Range
<1>10. ASSUME Apiece(s) PROVE Apiece(b)
  <2> SUFFICES ASSUME NEW j \in 1 .. n, NEW k \in 1 .. n, b[j] = b[k] PROVE j = k
    BY <1>8 DEF Apiece
  <2>1. at(j) = at(k) BY <1>7, <1>10 DEF Apiece
  <2> QED BY <1>4, <2>1
<1>11. ASSUME places # 1 .. Len(s) PROVE n < Len(s)
  <2>1. PICK i \in 1 .. Len(s) : i \notin places BY <1>11
  <2> DEFINE all == 1 .. Len(s)
             others == all \ {i}
  <2>2. IsFiniteSet(others) /\ Cardinality(others) = Len(s) - 1
    <3>1. IsFiniteSet(all) /\ Cardinality(all) = Len(s) /\ i \in all BY <1>1
    <3> HIDE DEF all
    <3> QED BY <3>1, FS_RemoveElement
  <2>3. n <= Len(s) - 1
    <3>1. places \subseteq others BY <2>1
    <3> HIDE DEF others
    <3>2. Cardinality(places) <= Cardinality(others) BY <2>2, <3>1, FS_Subset
    <3> QED BY <2>2, <3>2 DEF n
  <2> QED BY <1>1, <1>3, <2>3
<1> QED BY <1>3, <1>8, <1>9, <1>10, <1>11 DEF b, n
-----------------------------------------------------------------------------
\* One level of slist_sort_internal, given how the levels below it sort.
Above(s) == (2 .. Len(s)) \ Below(s)
Sweep(f) == [s \in Seq(Nodes) |->
    IF Len(s) < 2 THEN s
    ELSE f[Backward(s, Below(s))] \o <<s[1]>> \o f[Backward(s, Above(s))]]

\* The two lists that a level sorts are shorter than its own.
LEMMA Parts ==
  ASSUME NEW s \in Seq(Nodes), Len(s) >= 2
  PROVE  /\ Below(s) \subseteq 2 .. Len(s) /\ Above(s) \subseteq 2 .. Len(s)
         /\ Backward(s, Below(s)) \in Seq(Nodes) /\ Backward(s, Above(s)) \in Seq(Nodes)
         /\ Len(Backward(s, Below(s))) < Len(s) /\ Len(Backward(s, Above(s))) < Len(s)
         /\ Len(s) \in Nat /\ s[1] \in Nodes
         /\ Len(Backward(s, Below(s))) \in Nat /\ Len(Backward(s, Above(s))) \in Nat
<1>1. Len(s) \in Nat /\ 1 \in 1 .. Len(s) BY LenProperties
<1>2. Below(s) \subseteq 2 .. Len(s) /\ Above(s) \subseteq 2 .. Len(s)
  BY DEF Below, Above
<1>3. s[1] \in Nodes BY <1>1, ElementOfSeq
<1>4. ASSUME NEW places \in SUBSET (2 .. Len(s))
      PROVE  /\ Backward(s, places) \in Seq(Nodes) /\ Len(Backward(s, places)) \in Nat
             /\ Len(Backward(s, places)) < Len(s)
  <2>1. places \in SUBSET (1 .. Len(s)) /\ places # 1 .. Len(s) BY <1>1
  <2> QED BY <2>1, BackwardIs
<1> QED BY <1>1, <1>2, <1>3, <1>4

LEMMA Joined == ASSUME NEW a \in Seq(Nodes), NEW n \in Nodes, NEW b \in Seq(Nodes)
                PROVE  /\ a \o <<n>> \in Seq(Nodes) /\ a \o <<n>> \o b \in Seq(Nodes)
                       /\ Range(a \o <<n>> \o b) = Range(a) \cup {n} \cup Range(b)
<1>1. <<n>> \in Seq(Nodes) /\ Range(<<n>>) = {n}
  <2>1. <<n>> \in Seq(Nodes) /\ Len(<<n>>) = 1 /\ <<n>>[1] = n OBVIOUS
  <2>2. Range(<<n>>) = {<<n>>[i] : i \in 1 .. Len(<<n>>)} BY <2>1, RangeEquality
  <2>3. 1 .. 1 = {1} OBVIOUS
  <2>4. Range(<<n>>) = {<<n>>[i] : i \in {1}} BY <2>1, <2>2, <2>3
  <2> QED BY <2>1, <2>4
<1>2. \A c, d \in Seq(Nodes) : /\ c \o d \in Seq(Nodes)
                               /\ Range(c \o d) = Range(c) \cup Range(d)
  BY ConcatProperties, RangeConcatenation
<1> DEFINE one == <<n>>
<1> HIDE DEF one
<1>3. one \in Seq(Nodes) /\ Range(one) = {n} BY <1>1 DEF one
<1>4. a \o one \in Seq(Nodes) /\ Range(a \o one) = Range(a) \cup {n} BY <1>2, <1>3
<1>5. a \o one \o b \in Seq(Nodes) /\ Range(a \o one \o b) = Range(a) \cup {n} \cup Range(b)
  BY <1>2, <1>4
<1> QED BY <1>4, <1>5 DEF one

LEMMA SweepSorts == ASSUME NEW f \in [Seq(Nodes) -> Seq(Nodes)]
                    PROVE  Sweep(f) \in [Seq(Nodes) -> Seq(Nodes)]
<1> SUFFICES ASSUME NEW s \in Seq(Nodes), Len(s) >= 2
             PROVE  f[Backward(s, Below(s))] \o <<s[1]>> \o f[Backward(s, Above(s))] \in Seq(Nodes)
  <2>1. \A s \in Seq(Nodes) : Len(s) \in Nat BY LenProperties
  <2> QED BY <2>1 DEF Sweep
<1>1. f[Backward(s, Below(s))] \in Seq(Nodes) /\ f[Backward(s, Above(s))] \in Seq(Nodes)
  BY Parts
<1>2. s[1] \in Nodes BY Parts
<1> QED BY <1>1, <1>2, Joined

\* slist_sort_internal is a function from sequences of nodes to such sequences.
LEMMA SortIs == /\ SortInternal \in [Seq(Nodes) -> Seq(Nodes)]
                /\ SortInternal = Sweep(SortInternal)
<1> DEFINE S == [Seq(Nodes) -> Seq(Nodes)]
           start == [s \in Seq(Nodes) |-> s]
           step == [p \in S \X Nat |-> Sweep(p[1])]
<1>1. start \in S OBVIOUS
<1>2. step \in [S \X Nat -> S]
  <2>1. \A p \in S \X Nat : p[1] \in S OBVIOUS
  <2>2. \A p \in S \X Nat : Sweep(p[1]) \in S BY <2>1, SweepSorts
  <2> HIDE DEF S
  <2> QED BY <2>2
<1>3. PICK g : Iterates(g, S, start, step)
  <2> HIDE DEF S, start, step
  <2> QED BY <1>1, <1>2, Iterate
<1>4. /\ g \in [Nat -> S] /\ \A s \in Seq(Nodes) : g[0][s] = s
      /\ \A n \in Nat : g[n + 1] = Sweep(g[n])
  <2>1. g \in [Nat -> S] /\ g[0] = start BY <1>3 DEF Iterates
  <2>2. ASSUME NEW n \in Nat PROVE g[n + 1] = Sweep(g[n])
    <3>1. <<g[n], n>> \in S \X Nat BY <2>1
    <3>2. step[<<g[n], n>>] = Sweep(g[n]) BY <3>1
    <3> QED BY <1>3, <3>2 DEF Iterates
  <2> QED BY <2>1, <2>2
<1> DEFINE F == [s \in Seq(Nodes) |-> g[Len(s)][s]]
           Settled(n) == \A s \in Seq(Nodes) : Len(s) <= n => g[n][s] = F[s]
<1>5. F \in S
  <2>1. \A s \in Seq(Nodes) : Len(s) \in Nat BY LenProperties
  <2> QED BY <1>4, <2>1
<1> HIDE DEF S, start, step
<1>6. ASSUME NEW n \in Nat, Settled(n), NEW s \in Seq(Nodes), Len(s) <= n + 1
      PROVE  g[n + 1][s] = Sweep(F)[s]
  <2>1. Len(s) \in Nat /\ g[n + 1] = Sweep(g[n]) BY <1>4, LenProperties
  <2>2. CASE Len(s) < 2
    <3>1. Sweep(g[n])[s] = s /\ Sweep(F)[s] = s BY <2>2 DEF Sweep
    <3> QED BY <2>1, <3>1
  <2>3. CASE Len(s) >= 2
    <3> DEFINE a == Backward(s, Below(s))
               b == Backward(s, Above(s))
    <3>1. a \in Seq(Nodes) /\ b \in Seq(Nodes) /\ Len(a) <= n /\ Len(b) <= n
      BY <1>6, <2>1, <2>3, Parts
    <3>2. g[n][a] = F[a] /\ g[n][b] = F[b] BY <1>6, <3>1
    <3>3. ~(Len(s) < 2) BY <2>1, <2>3
    <3> HIDE DEF F, Settled
    <3>4. /\ Sweep(g[n])[s] = g[n][a] \o <<s[1]>> \o g[n][b]
          /\ Sweep(F)[s] = F[a] \o <<s[1]>> \o F[b]
      BY <3>3 DEF Sweep
    <3> QED BY <2>1, <3>2, <3>4
  <2> QED BY <2>1, <2>2, <2>3
<1>7. ASSUME NEW s \in Seq(Nodes), Len(s) = 0 PROVE Sweep(F)[s] = F[s]
  <2>1. F[s] = s BY <1>4, <1>7
  <2>2. Sweep(F)[s] = s
    <3> HIDE DEF F
    <3> QED BY <1>7 DEF Sweep
  <2> QED BY <2>1, <2>2
<1>8. ASSUME NEW n \in Nat, Settled(n), NEW s \in Seq(Nodes), Len(s) = n + 1
      PROVE  F[s] = Sweep(F)[s]
  <2>1. F[s] = g[n + 1][s] BY <1>8
  <2> HIDE DEF F, Settled
  <2>2. Len(s) <= n + 1 BY <1>8
  <2> QED BY <1>6, <1>8, <2>1, <2>2
<1>9. ASSUME NEW n \in Nat PROVE Settled(n)
  <2> DEFINE D == {i \in Nat : \A m \in 0 .. i : Settled(m)}
  <2>1. 0 \in D
    <3>1. ASSUME NEW s \in Seq(Nodes), Len(s) <= 0 PROVE g[0][s] = F[s]
      <4>1. Len(s) = 0 BY <3>1, LenProperties
      <4> QED BY <4>1
    <3>2. Settled(0) BY <3>1
    <3>3. 0 .. 0 = {0} OBVIOUS
    <3> HIDE DEF Settled
    <3> QED BY <3>2, <3>3
  <2>2. ASSUME NEW i \in D PROVE i + 1 \in D
    <3>1. i \in Nat /\ \A m \in 0 .. i : Settled(m) OBVIOUS
    <3>2. Settled(i + 1)
      <4> SUFFICES ASSUME NEW s \in Seq(Nodes), Len(s) <= i + 1 PROVE g[i + 1][s] = F[s]
        OBVIOUS
      <4> HIDE DEF F, Settled, D
      <4>1. Settled(i) /\ Len(s) \in Nat BY <3>1, LenProperties
      <4>2. g[i + 1][s] = Sweep(F)[s] BY <1>6, <3>1, <4>1
      <4>3. CASE Len(s) = 0 BY <1>7, <4>2, <4>3
      <4>4. CASE Len(s) # 0
        <5>1. Len(s) - 1 \in 0 .. i /\ Len(s) = (Len(s) - 1) + 1 BY <3>1, <4>1, <4>4
        <5>2. Settled(Len(s) - 1) /\ Len(s) - 1 \in Nat BY <3>1, <5>1
        <5>3. F[s] = Sweep(F)[s] BY <1>8, <5>1, <5>2
        <5> QED BY <4>2, <5>3
      <4> QED BY <4>3, <4>4
    <3> HIDE DEF Settled
    <3>3. \A m \in 0 .. i + 1 : m \in 0 .. i \/ m = i + 1 BY <3>1
    <3> QED BY <3>1, <3>2, <3>3
  <2>3. D \in SUBSET Nat OBVIOUS
  <2> HIDE DEF D, Settled
  <2>4. D = Nat BY <2>1, <2>2, <2>3, Induct
  <2>5. n \in 0 .. n OBVIOUS
  <2> QED BY <2>4, <2>5 DEF D
<1> HIDE DEF Settled
<1>10. F = Sweep(F)
  <2>1. ASSUME NEW s \in Seq(Nodes) PROVE F[s] = Sweep(F)[s]
    <3> HIDE DEF F
    <3>1. Len(s) \in Nat BY LenProperties
    <3>2. CASE Len(s) = 0 BY <1>7, <3>2
    <3>3. CASE Len(s) # 0
      <4>1. Len(s) - 1 \in Nat /\ Len(s) = (Len(s) - 1) + 1 BY <3>1, <3>3
      <4> QED BY <1>8, <1>9, <4>1
    <3> QED BY <3>2, <3>3
  <2>2. F = [s \in Seq(Nodes) |-> F[s]] OBVIOUS
  <2> HIDE DEF F
  <2>3. Sweep(F) = [s \in Seq(Nodes) |-> Sweep(F)[s]] BY DEF Sweep
  <2> QED BY <2>1, <2>2, <2>3
<1> HIDE DEF F
<1>11. SortInternal = Sweep(SortInternal)
  <2>1. \E f : f = Sweep(f) BY <1>10
  <2>2. (CHOOSE f : f = Sweep(f)) = Sweep(CHOOSE f : f = Sweep(f)) BY <2>1
  <2> QED BY <2>2 DEF SortInternal, Sweep, Above
<1>12. ASSUME NEW s \in Seq(Nodes), NEW n \in Nat, Len(s) <= n
       PROVE  SortInternal[s] \in Seq(Nodes)
  <2> DEFINE D == {i \in Nat : \A r \in Seq(Nodes) : Len(r) <= i => SortInternal[r] \in Seq(Nodes)}
  <2>1. 0 \in D
    <3>1. ASSUME NEW r \in Seq(Nodes), Len(r) <= 0 PROVE SortInternal[r] \in Seq(Nodes)
      <4>1. Len(r) < 2 BY <3>1, LenProperties
      <4>2. Sweep(SortInternal)[r] = r BY <4>1 DEF Sweep
      <4> QED BY <1>11, <4>2
    <3> QED BY <3>1
  <2>2. ASSUME NEW i \in D PROVE i + 1 \in D
    <3>1. ASSUME NEW r \in Seq(Nodes), Len(r) <= i + 1 PROVE SortInternal[r] \in Seq(Nodes)
      <4>1. Len(r) \in Nat BY LenProperties
      <4>2. CASE Len(r) < 2
        <5>1. Sweep(SortInternal)[r] = r BY <4>2 DEF Sweep
        <5> QED BY <1>11, <5>1
      <4>3. CASE Len(r) >= 2
        <5> DEFINE a == Backward(r, Below(r))
                   b == Backward(r, Above(r))
        <5>1. a \in Seq(Nodes) /\ b \in Seq(Nodes) /\ Len(a) <= i /\ Len(b) <= i
          BY <3>1, <4>1, <4>3, Parts
        <5>2. SortInternal[a] \in Seq(Nodes) /\ SortInternal[b] \in Seq(Nodes) BY <5>1
        <5>3. r[1] \in Nodes BY <4>3, Parts
        <5>4. ~(Len(r) < 2) BY <4>1, <4>3
        <5>5. Sweep(SortInternal)[r] = SortInternal[a] \o <<r[1]>> \o SortInternal[b]
          BY <5>4 DEF Sweep
        <5>6. SortInternal[a] \o <<r[1]>> \o SortInternal[b] \in Seq(Nodes)
          <6> HIDE DEF a, b
          <6> QED BY <5>2, <5>3, Joined
        <5> QED BY <1>11, <5>5, <5>6
      <4> QED BY <4>1, <4>2, <4>3
    <3> QED BY <3>1
  <2>3. D \in SUBSET Nat OBVIOUS
  <2> HIDE DEF D
  <2>4. D = Nat BY <2>1, <2>2, <2>3, Induct
  <2> QED BY <1>12, <2>4 DEF D
<1>13. SortInternal = [s \in Seq(Nodes) |-> SortInternal[s]]
  <2>1. Sweep(SortInternal) = [s \in Seq(Nodes) |-> Sweep(SortInternal)[s]] BY DEF Sweep
  <2> QED BY <1>11, <2>1
<1>14. \A s \in Seq(Nodes) : Len(s) \in Nat BY LenProperties
<1> QED BY <1>11, <1>12, <1>13, <1>14
-----------------------------------------------------------------------------
Arranged(s) == \A i, j \in 1 .. Len(s) : i < j => Key[s[i]] <= Key[s[j]]

LEMMA InRange == ASSUME NEW s \in Seq(Nodes)
                 PROVE  \A i \in 1 .. Len(s) : s[i] \in Range(s) /\ s[i] \in Nodes
BY RangeEquality, ElementOfSeq

\* What is at each place of two sequences with a node between them.
LEMMA JoinedPlaces ==
  ASSUME NEW a \in Seq(Nodes), NEW n \in Nodes, NEW b \in Seq(Nodes),
         NEW i \in 1 .. Len(a \o <<n>> \o b)
  PROVE  /\ Len(a) \in Nat /\ Len(b) \in Nat
         /\ \/ i \in 1 .. Len(a) /\ (a \o <<n>> \o b)[i] = a[i]
            \/ i = Len(a) + 1 /\ (a \o <<n>> \o b)[i] = n
            \/ /\ i > Len(a) + 1 /\ i - (Len(a) + 1) \in 1 .. Len(b)
               /\ (a \o <<n>> \o b)[i] = b[i - (Len(a) + 1)]
<1> DEFINE one == <<n>>
           c == a \o one
<1>1. one \in Seq(Nodes) /\ Len(one) = 1 /\ one[1] = n OBVIOUS
<1>2. Len(a) \in Nat /\ Len(b) \in Nat BY LenProperties
<1> HIDE DEF one
<1>3. /\ c \in Seq(Nodes) /\ Len(c) = Len(a) + 1
      /\ \A k \in 1 .. Len(a) + 1 : c[k] = IF k <= Len(a) THEN a[k] ELSE one[k - Len(a)]
  <2>1. /\ c \in Seq(Nodes) /\ Len(c) = Len(a) + Len(one)
        /\ \A k \in 1 .. Len(a) + Len(one) :
              c[k] = IF k <= Len(a) THEN a[k] ELSE one[k - Len(a)]
    BY ONLY <1>1, ConcatProperties, a \in Seq(Nodes)
  <2> QED BY <1>1, <2>1
<1> HIDE DEF c
<1>4. /\ Len(c \o b) = Len(c) + Len(b)
      /\ \A k \in 1 .. Len(c) + Len(b) : (c \o b)[k] = IF k <= Len(c) THEN c[k] ELSE b[k - Len(c)]
  <2>1. c \in Seq(Nodes) BY <1>3
  <2>2. b \in Seq(Nodes) OBVIOUS
  <2> QED BY ONLY <2>1, <2>2, ConcatProperties
<1>5. i \in 1 .. Len(a) + 1 + Len(b) /\ c \o b = a \o <<n>> \o b
  BY <1>3, <1>4 DEF c, one
<1>6. CASE i <= Len(a)
  <2>1. (c \o b)[i] = c[i] /\ c[i] = a[i] BY <1>2, <1>3, <1>4, <1>5, <1>6
  <2> QED BY <1>2, <1>5, <1>6, <2>1
<1>7. CASE i = Len(a) + 1
  <2>1. (c \o b)[i] = c[i] /\ c[i] = one[i - Len(a)] /\ i - Len(a) = 1
    BY <1>2, <1>3, <1>4, <1>5, <1>7
  <2> QED BY <1>1, <1>2, <1>5, <1>7, <2>1
<1>8. CASE i > Len(a) + 1
  <2>1. (c \o b)[i] = b[i - (Len(a) + 1)] BY <1>2, <1>3, <1>4, <1>5, <1>8
  <2> QED BY <1>2, <1>5, <1>8, <2>1
<1> QED BY <1>2, <1>5, <1>6, <1>7, <1>8

LEMMA JoinedInOrder ==
  ASSUME NEW a \in Seq(Nodes), NEW n \in Nodes, NEW b \in Seq(Nodes), KeyAssumption
  PROVE  /\ /\ Apiece(a) /\ Apiece(b) /\ n \notin Range(a) \cup Range(b)
            /\ Range(a) \cap Range(b) = {}
            => Apiece(a \o <<n>> \o b)
         /\ /\ Arranged(a) /\ Arranged(b)
            /\ \A x \in Range(a) : Key[x] <= Key[n]
            /\ \A x \in Range(b) : Key[n] <= Key[x]
            => Arranged(a \o <<n>> \o b)
<1> DEFINE s == a \o <<n>> \o b
           m == Len(a) + 1
           Left(i) == i \in 1 .. Len(a) /\ s[i] = a[i]
           Mid(i) == i = m /\ s[i] = n
           Right(i) == i > m /\ i - m \in 1 .. Len(b) /\ s[i] = b[i - m]
<1>1. Len(a) \in Nat /\ Len(b) \in Nat /\ Len(s) \in Nat
  BY Joined, LenProperties
<1>2. \A i \in 1 .. Len(s) : Left(i) \/ Mid(i) \/ Right(i)
  BY JoinedPlaces
<1>3. /\ \A i \in 1 .. Len(a) : a[i] \in Range(a) /\ a[i] \in Nodes
      /\ \A i \in 1 .. Len(b) : b[i] \in Range(b) /\ b[i] \in Nodes
  BY InRange
<1> HIDE DEF s
<1>4. ASSUME Apiece(a), Apiece(b), n \notin Range(a) \cup Range(b), Range(a) \cap Range(b) = {},
             NEW i \in 1 .. Len(s), NEW j \in 1 .. Len(s), s[i] = s[j]
      PROVE  i = j
  <2>1. i \in Nat /\ j \in Nat /\ m \in Nat BY <1>1
  <2>2. CASE Left(i) /\ Left(j) BY <1>4, <2>2 DEF Apiece
  <2>3. CASE Right(i) /\ Right(j)
    <3>1. i - m = j - m BY <1>4, <2>3 DEF Apiece
    <3> QED BY <2>1, <3>1
  <2>4. CASE Mid(i) /\ Mid(j) BY <2>4
  <2>5. CASE (Left(i) /\ ~Left(j)) \/ (Left(j) /\ ~Left(i))
    <3>1. CASE Left(i) /\ ~Left(j)
      <4>1. Mid(j) \/ Right(j) BY <1>2, <3>1
      <4>2. s[i] \in Range(a) BY <1>3, <3>1
      <4>3. Mid(j) => s[j] = n OBVIOUS
      <4>4. Right(j) => s[j] \in Range(b) BY <1>3
      <4> QED BY <1>4, <4>1, <4>2, <4>3, <4>4
    <3>2. CASE Left(j) /\ ~Left(i)
      <4>1. Mid(i) \/ Right(i) BY <1>2, <3>2
      <4>2. s[j] \in Range(a) BY <1>3, <3>2
      <4>3. Mid(i) => s[i] = n OBVIOUS
      <4>4. Right(i) => s[i] \in Range(b) BY <1>3
      <4> QED BY <1>4, <4>1, <4>2, <4>3, <4>4
    <3> QED BY <2>5, <3>1, <3>2
  <2>6. CASE (Mid(i) /\ Right(j)) \/ (Mid(j) /\ Right(i))
    <3>1. Right(i) => s[i] \in Range(b) BY <1>3
    <3>2. Right(j) => s[j] \in Range(b) BY <1>3
    <3>3. (Mid(i) => s[i] = n) /\ (Mid(j) => s[j] = n) OBVIOUS
    <3> HIDE DEF Mid, Right
    <3> QED BY <1>4, <2>6, <3>1, <3>2, <3>3
  <2> HIDE DEF Left, Mid, Right
  <2> QED BY <1>2, <2>2, <2>3, <2>4, <2>5, <2>6
<1>5. ASSUME Arranged(a), Arranged(b), \A x \in Range(a) : Key[x] <= Key[n],
             \A x \in Range(b) : Key[n] <= Key[x],
             NEW i \in 1 .. Len(s), NEW j \in 1 .. Len(s), i < j
      PROVE  Key[s[i]] <= Key[s[j]]
  <2>1. i \in Nat /\ j \in Nat /\ m \in Nat BY <1>1
  <2>2. CASE Left(i) /\ Left(j) BY <1>5, <2>2 DEF Arranged
  <2>3. CASE Right(i) /\ Right(j)
    <3>1. i - m < j - m BY <1>5, <2>1
    <3> QED BY <1>5, <2>3, <3>1 DEF Arranged
  <2>4. ASSUME NEW k \in 1 .. Len(s)
        PROVE  /\ Left(k) => Key[s[k]] <= Key[n]
               /\ Mid(k) => Key[s[k]] = Key[n]
               /\ Right(k) => Key[n] <= Key[s[k]]
               /\ Left(k) \/ Mid(k) \/ Right(k) => Key[s[k]] \in Nat
    BY <1>3, <1>5 DEF KeyAssumption
  <2>5. Key[n] \in Nat /\ Key[s[i]] \in Nat /\ Key[s[j]] \in Nat
    BY <1>2, <2>4 DEF KeyAssumption
  <2>6. /\ Left(j) => Left(i)
        /\ Mid(j) => Left(i)
        /\ ~(Mid(i) /\ Left(j))
    BY <1>1, <1>2, <1>5, <2>1
  <2> HIDE DEF Left, Mid, Right
  <2> QED BY <1>2, <2>2, <2>3, <2>4, <2>5, <2>6
<1>6. ASSUME Apiece(a), Apiece(b), n \notin Range(a) \cup Range(b), Range(a) \cap Range(b) = {}
      PROVE  Apiece(s)
  BY <1>4, <1>6 DEF Apiece
<1>7. ASSUME Arranged(a), Arranged(b), \A x \in Range(a) : Key[x] <= Key[n],
             \A x \in Range(b) : Key[n] <= Key[x]
      PROVE  Arranged(s)
  BY <1>5, <1>7 DEF Arranged
<1> QED BY <1>6, <1>7 DEF s

\* slist_sort_internal leaves the same nodes, each once, from small to large.
Sorted(s) == /\ SortInternal[s] \in Seq(Nodes)
             /\ Apiece(SortInternal[s]) /\ Arranged(SortInternal[s])
             /\ Range(SortInternal[s]) = Range(s)

LEMMA SortLevel ==
  ASSUME KeyAssumption, NEW s \in Seq(Nodes), Len(s) >= 2, Apiece(s),
         Sorted(Backward(s, Below(s))), Sorted(Backward(s, Above(s)))
  PROVE  Sorted(s)
<1> DEFINE a == SortInternal[Backward(s, Below(s))]
           b == SortInternal[Backward(s, Above(s))]
           n == s[1]
<1>1. /\ Len(s) \in Nat /\ 1 \in 1 .. Len(s) /\ n \in Nodes
      /\ Below(s) \in SUBSET (1 .. Len(s)) /\ Above(s) \in SUBSET (1 .. Len(s))
      /\ Below(s) \subseteq 2 .. Len(s) /\ Above(s) \subseteq 2 .. Len(s)
  <2>1. Len(s) \in Nat BY LenProperties
  <2>2. \A i \in 2 .. Len(s) : i \in 1 .. Len(s) OBVIOUS
  <2> QED BY <2>1, <2>2, Parts
<1>2. /\ a \in Seq(Nodes) /\ Apiece(a) /\ Arranged(a)
      /\ Range(a) = {s[i] : i \in Below(s)}
  BY <1>1, BackwardIs DEF Sorted
<1>3. /\ b \in Seq(Nodes) /\ Apiece(b) /\ Arranged(b)
      /\ Range(b) = {s[i] : i \in Above(s)}
  BY <1>1, BackwardIs DEF Sorted
<1>4. SortInternal[s] = a \o <<n>> \o b
  <2>1. ~(Len(s) < 2) BY <1>1
  <2>2. Sweep(SortInternal)[s] = a \o <<n>> \o b BY <2>1 DEF Sweep
  <2> QED BY <2>2, SortIs
<1> HIDE DEF a, b
<1>5. \A i \in 1 .. Len(s) : s[i] \in Range(s) /\ s[i] \in Nodes
  BY InRange
<1>6. n \notin Range(a) \cup Range(b) /\ Range(a) \cap Range(b) = {}
  <2>1. \A i, j \in 1 .. Len(s) : s[i] = s[j] => i = j BY DEF Apiece
  <2>2. 1 \notin Below(s) /\ 1 \notin Above(s) BY <1>1
  <2>3. Below(s) \cap Above(s) = {} BY DEF Above
  <2> QED BY <1>1, <1>2, <1>3, <2>1, <2>2, <2>3, SMTT(20)
<1>7. /\ \A x \in Range(a) : Key[x] <= Key[n]
      /\ \A x \in Range(b) : Key[n] <= Key[x]
  <2>1. ASSUME NEW i \in Below(s) PROVE Key[s[i]] <= Key[n]
    <3>1. i \in 1 .. Len(s) /\ Key[s[i]] < Key[n] BY <1>1 DEF Below
    <3>2. Key[s[i]] \in Nat /\ Key[n] \in Nat BY <1>1, <1>5, <3>1 DEF KeyAssumption
    <3> QED BY <3>1, <3>2
  <2>2. ASSUME NEW i \in Above(s) PROVE Key[n] <= Key[s[i]]
    <3>1. i \in 1 .. Len(s) /\ ~(Key[s[i]] < Key[n]) BY <1>1 DEF Above, Below
    <3>2. Key[s[i]] \in Nat /\ Key[n] \in Nat BY <1>1, <1>5, <3>1 DEF KeyAssumption
    <3> QED BY <3>1, <3>2
  <2> QED BY <1>2, <1>3, <2>1, <2>2
<1>8. Range(s) = Range(a) \cup {n} \cup Range(b)
  <2>1. ASSUME NEW i \in 1 .. Len(s) PROVE i = 1 \/ i \in Below(s) \/ i \in Above(s)
    <3>1. i = 1 \/ i \in 2 .. Len(s) BY <1>1
    <3> QED BY <3>1 DEF Above
  <2>2. Range(s) = {s[i] : i \in 1 .. Len(s)} BY RangeEquality
  <2> QED BY <1>1, <1>2, <1>3, <2>1, <2>2
<1> HIDE DEF n
<1>9. /\ a \o <<n>> \o b \in Seq(Nodes)
      /\ Range(a \o <<n>> \o b) = Range(a) \cup {n} \cup Range(b)
  BY <1>1, <1>2, <1>3, Joined
<1>10. Apiece(a \o <<n>> \o b) BY <1>1, <1>2, <1>3, <1>6, JoinedInOrder
<1>11. Arranged(a \o <<n>> \o b) BY <1>1, <1>2, <1>3, <1>7, JoinedInOrder
<1> QED BY <1>4, <1>8, <1>9, <1>10, <1>11 DEF Sorted

LEMMA SortSortsNodes == ASSUME KeyAssumption, NEW s \in Seq(Nodes), Apiece(s)
                        PROVE  Sorted(s) /\ Len(SortInternal[s]) = Len(s)
<1> DEFINE D == {n \in Nat : \A r \in Seq(Nodes) : Len(r) <= n /\ Apiece(r) => Sorted(r)}
<1>1. ASSUME NEW r \in Seq(Nodes), Len(r) < 2, Apiece(r) PROVE Sorted(r)
  <2>1. SortInternal[r] = r
    <3>1. Sweep(SortInternal)[r] = r BY <1>1 DEF Sweep
    <3> QED BY <3>1, SortIs
  <2>2. Arranged(r)
    <3>1. Len(r) \in Nat BY LenProperties
    <3>2. ASSUME NEW i \in 1 .. Len(r), NEW j \in 1 .. Len(r) PROVE ~(i < j)
      BY <1>1, <3>1
    <3> QED BY <3>2 DEF Arranged
  <2> QED BY <1>1, <2>1, <2>2 DEF Sorted
<1>2. 0 \in D
  <2>1. ASSUME NEW r \in Seq(Nodes), Len(r) <= 0, Apiece(r) PROVE Sorted(r)
    <3>1. Len(r) < 2 BY <2>1, LenProperties
    <3> QED BY <1>1, <2>1, <3>1
  <2> QED BY <2>1
<1>3. ASSUME NEW n \in D PROVE n + 1 \in D
  <2>1. ASSUME NEW r \in Seq(Nodes), Len(r) <= n + 1, Apiece(r) PROVE Sorted(r)
    <3>1. Len(r) \in Nat BY LenProperties
    <3>2. CASE Len(r) >= 2
      <4> DEFINE a == Backward(r, Below(r))
                 b == Backward(r, Above(r))
      <4>1. a \in Seq(Nodes) /\ b \in Seq(Nodes) /\ Len(a) <= n /\ Len(b) <= n
        BY <2>1, <3>1, <3>2, Parts
      <4>2. Below(r) \in SUBSET (1 .. Len(r)) /\ Above(r) \in SUBSET (1 .. Len(r))
        <5>1. \A i \in 2 .. Len(r) : i \in 1 .. Len(r) OBVIOUS
        <5> QED BY <3>2, <5>1, Parts
      <4>3. Apiece(a) /\ Apiece(b) BY <2>1, <4>2, BackwardIs
      <4>4. Sorted(a) /\ Sorted(b) BY <4>1, <4>3
      <4> QED BY <2>1, <3>2, <4>4, SortLevel
    <3>3. CASE Len(r) < 2 BY <1>1, <2>1, <3>3
    <3> QED BY <3>1, <3>2, <3>3
  <2> QED BY <2>1
<1>4. D = Nat
  <2>1. D \in SUBSET Nat OBVIOUS
  <2> HIDE DEF D
  <2> QED BY <1>2, <1>3, <2>1, Induct
<1>5. Len(s) \in D /\ Len(s) <= Len(s) BY <1>4, LenProperties
<1>6. Sorted(s) BY <1>5
<1>7. Len(SortInternal[s]) = Len(s) BY <1>6, LengthIsSize DEF Sorted
<1> QED BY <1>6, <1>7
-----------------------------------------------------------------------------
\* A sequence without one of its nodes.
LEMMA WithoutIs ==
  ASSUME NEW s \in Seq(Nodes), NEW i \in 1 .. Len(s), Apiece(s)
  PROVE  /\ Without(s, s[i]) \in Seq(Nodes)
         /\ Len(Without(s, s[i])) = Len(s) - 1
         /\ \A k \in 1 .. Len(s) - 1 :
               Without(s, s[i])[k] = IF k < i THEN s[k] ELSE s[k + 1]
<1> DEFINE a == SubSeq(s, 1, i - 1)
           b == SubSeq(s, i + 1, Len(s))
<1>1. Len(s) \in Nat /\ i \in Nat /\ \A k \in 1 .. Len(s) : s[k] \in Nodes
  BY LenProperties, ElementOfSeq
<1>2. Without(s, s[i]) = a \o b
  <2>1. s[i] \in Range(s) BY InRange
  <2>2. (CHOOSE j \in 1 .. Len(s) : s[j] = s[i]) = i
    <3>1. \A j \in 1 .. Len(s) : s[j] = s[i] => j = i BY DEF Apiece
    <3> QED BY <3>1
  <2> QED BY <2>1, <2>2 DEF Without
<1>3. /\ a \in Seq(Nodes) /\ Len(a) = i - 1
      /\ \A k \in 1 .. i - 1 : a[k] = s[k]
  <2>1. a \in Seq(Nodes) /\ Len(a) = i - 1 BY <1>1, SubSeqProperties
  <2>2. \A k \in 1 .. i - 1 : a[k] = s[1 + k - 1] BY <1>1, SubSeqProperties
  <2>3. \A k \in 1 .. i - 1 : 1 + k - 1 = k OBVIOUS
  <2> QED BY <2>1, <2>2, <2>3
<1>4. /\ b \in Seq(Nodes) /\ Len(b) = Len(s) - i
      /\ \A k \in 1 .. Len(s) - i : b[k] = s[i + k]
  <2>1. b \in Seq(Nodes) /\ Len(b) = Len(s) - i BY <1>1, SubSeqProperties
  <2>2. \A k \in 1 .. Len(s) - i : b[k] = s[(i + 1) + k - 1] BY <1>1, SubSeqProperties
  <2>3. \A k \in 1 .. Len(s) - i : (i + 1) + k - 1 = i + k BY <1>1
  <2> QED BY <2>1, <2>2, <2>3
<1> HIDE DEF a, b
<1>5. /\ a \o b \in Seq(Nodes) /\ Len(a \o b) = Len(a) + Len(b)
      /\ \A k \in 1 .. Len(a) + Len(b) :
            (a \o b)[k] = IF k <= Len(a) THEN a[k] ELSE b[k - Len(a)]
  BY <1>3, <1>4, ConcatProperties
<1>6. Len(a) + Len(b) = Len(s) - 1 BY <1>1, <1>3, <1>4
<1>7. ASSUME NEW k \in 1 .. Len(s) - 1
      PROVE  (a \o b)[k] = IF k < i THEN s[k] ELSE s[k + 1]
  <2>1. CASE k < i
    <3>1. k \in 1 .. i - 1 /\ k <= Len(a) /\ k \in 1 .. Len(a) + Len(b)
      BY <1>1, <1>3, <1>6, <2>1
    <3> QED BY <1>3, <1>5, <2>1, <3>1
  <2>2. CASE ~(k < i)
    <3>1. /\ ~(k <= Len(a)) /\ k \in 1 .. Len(a) + Len(b)
          /\ k - Len(a) \in 1 .. Len(s) - i /\ i + (k - Len(a)) = k + 1
      BY <1>1, <1>3, <1>6, <2>2
    <3> QED BY <1>4, <1>5, <2>2, <3>1
  <2> QED BY <2>1, <2>2
<1> QED BY <1>2, <1>5, <1>6, <1>7

LEMMA WithoutTyped == ASSUME NEW s \in Seq(Nodes), NEW n
                      PROVE  Without(s, n) \in Seq(Nodes)
<1>1. CASE n \notin Range(s) BY <1>1 DEF Without
<1>2. CASE n \in Range(s)
  <2>1. PICK j \in 1 .. Len(s) : s[j] = n BY <1>2, RangeEquality
  <2> DEFINE i == CHOOSE k \in 1 .. Len(s) : s[k] = n
  <2>2. i \in 1 .. Len(s) /\ Len(s) \in Nat BY <2>1, LenProperties
  <2>3. Without(s, n) = SubSeq(s, 1, i - 1) \o SubSeq(s, i + 1, Len(s))
    BY <1>2 DEF Without
  <2> HIDE DEF i
  <2>4. SubSeq(s, 1, i - 1) \in Seq(Nodes) /\ SubSeq(s, i + 1, Len(s)) \in Seq(Nodes)
    BY <2>2, SubSeqProperties
  <2> QED BY <2>3, <2>4, ConcatProperties
<1> QED BY <1>1, <1>2

\* What slist_sort_internal makes of the links.
LEMMA LinkedIs ==
  ASSUME LinksTyped, NEW s \in Seq(Nodes)
  PROVE  /\ Linked(s) \in [Nodes -> Nodes \cup {None}]
         /\ Apiece(s) => \A i \in 1 .. Len(s) :
               Linked(s)[s[i]] = IF i = Len(s) THEN None ELSE s[i + 1]
<1> DEFINE at(n) == CHOOSE j \in 1 .. Len(s) : s[j] = n
<1>1. Len(s) \in Nat /\ \A i \in 1 .. Len(s) : s[i] \in Nodes /\ s[i] \in Range(s)
  BY LenProperties, InRange
<1>2. ASSUME NEW n \in Nodes, n \in Range(s) PROVE at(n) \in 1 .. Len(s)
  <2>1. PICK j \in 1 .. Len(s) : s[j] = n BY <1>2, RangeEquality
  <2> QED BY <2>1
<1>3. ASSUME NEW n \in Nodes
      PROVE  Linked(s)[n] = IF n \in Range(s)
                            THEN IF at(n) = Len(s) THEN None ELSE s[at(n) + 1]
                            ELSE link[n]
  BY DEF Linked
<1>4. Linked(s) = [n \in Nodes |-> Linked(s)[n]] BY DEF Linked
<1> HIDE DEF at
<1>5. ASSUME NEW n \in Nodes PROVE Linked(s)[n] \in Nodes \cup {None}
  <2>1. CASE n \in Range(s)
    <3>1. at(n) \in 1 .. Len(s) BY <1>2, <2>1
    <3>2. at(n) # Len(s) => at(n) + 1 \in 1 .. Len(s) BY <1>1, <3>1
    <3> QED BY <1>1, <1>3, <2>1, <3>2
  <2>2. CASE n \notin Range(s) BY <1>3, <2>2 DEF LinksTyped
  <2> QED BY <2>1, <2>2
<1>6. ASSUME Apiece(s), NEW i \in 1 .. Len(s)
      PROVE  Linked(s)[s[i]] = IF i = Len(s) THEN None ELSE s[i + 1]
  <2>1. at(s[i]) = i
    <3>1. \A j \in 1 .. Len(s) : s[j] = s[i] => j = i BY <1>6 DEF Apiece
    <3> QED BY <3>1 DEF at
  <2> QED BY <1>1, <1>3, <2>1
<1>7. Linked(s) \in [Nodes -> Nodes \cup {None}]
  BY <1>4, <1>5
<1> QED BY <1>6, <1>7
-----------------------------------------------------------------------------
LEMMA ChainTyped == ASSUME SListAssumption, TypeOK
                    PROVE  LinksTyped /\ Chain \in Seq(Nodes)
<1>1. LinksTyped BY DEF TypeOK, LinksTyped
<1>2. Cardinality(Nodes) \in Nat
  BY FS_CardinalityType DEF SListAssumption, NodesAssumption
<1> QED BY <1>1, <1>2, WalkSteps, SMTT(20) DEF Chain

LEMMA Found == ASSUME SListAssumption, TypeOK, NEW k, Matches(k) # {}
               PROVE  First(k) \in 1 .. Len(Chain) /\ Chain[First(k)] \in Nodes
<1>1. Chain \in Seq(Nodes) BY ChainTyped
<1>2. Matches(k) \in SUBSET Nat BY <1>1, LenProperties DEF Matches
<1>3. \E i \in Matches(k) : \A j \in Matches(k) : i <= j BY <1>2, HasLeast
<1>4. First(k) \in Matches(k) BY <1>3 DEF First
<1>5. First(k) \in 1 .. Len(Chain) BY <1>4 DEF Matches
<1> QED BY <1>1, <1>5, ElementOfSeq

LEMMA Counts == ASSUME SListAssumption, NEW c \in 0 .. CountMod - 1
                PROVE  (c + 1) % CountMod \in 0 .. CountMod - 1 /\ Less(c) \in 0 .. CountMod - 1
<1>1. Cardinality(Nodes) \in Nat
  BY FS_CardinalityType DEF SListAssumption, NodesAssumption
<1>2. CountMod \in Nat /\ CountMod > 0
  BY <1>1 DEF SListAssumption, CountModAssumption
<1> QED BY <1>2 DEF Less
-----------------------------------------------------------------------------
Adding(t) == pc[t] \in {"append", "prepend"}
Counting(t) == pc[t] = "added" \/ pc[t] \in Uncounted

\* The operations whose calls pass through a place.
Others == {"remove", "search", "getone", "traverse", "sort"}
By(place) == CASE place = "added" -> {"append", "prepend"}
               [] place \in Uncounted -> {"remove"}
               [] OTHER -> Others

\* What a thread is doing is among what it may do, and a thread whose call has
\* taken the lock and not unlocked has it.
CallsSound == \A t \in Threads :
    /\ pc[t] = "idle" \/ pc[t] \in ops[t]
          \/ (pc[t] \in Places \ {"idle"} /\ ops[t] \cap By(pc[t]) # {})
    /\ pc[t] \in Inside => lock = t
    /\ Adding(t) => node[t] \in Nodes

LockSound == Called \cap {"search", "getone"} = {} =>
    \A t \in Threads : lock = t => pc[t] \in Inside

\* The nodes on their way into the list are in use, each with one thread.
NewNodes == \A t \in Threads : Adding(t) =>
    /\ node[t] \in used \ Range(items) /\ link[node[t]] = None
    /\ \A u \in Threads : u # t /\ Adding(u) => node[u] # node[t]

InUse == \A n \in Nodes :
    n \in used <=> n \in Range(items) \/ \E t \in Threads : Adding(t) /\ node[t] = n

\* nodecount while some thread has yet to count, and while none has.
CountSound ==
    /\ (\A t \in Threads : ~Counting(t)) => nodecount = Len(items)
    /\ \A t \in Threads :
          /\ pc[t] = "added" => nodecount = Len(items) - 1
          /\ pc[t] \in Uncounted => nodecount = Len(items) + 1
          /\ pc[t] \in {"added", "uncount"} => tmp[t] = nodecount

TailSound == "sort" \notin Called =>
    tail = IF items = <<>> THEN None ELSE items[Len(items)]

Exact == Spells(items) /\ TailSound /\ NewNodes /\ InUse /\ CountSound
WalksEnd == \A t \in Threads : pc[t] # "endless"
Healthy == phase = "live" /\ Orderly

IInv == TypeOK /\ CallsSound /\ LockSound /\ (Healthy => Exact /\ WalksEnd)
-----------------------------------------------------------------------------
LEMMA InitIInv == SListAssumption /\ Init => IInv
<1> SUFFICES ASSUME SListAssumption, Init PROVE IInv
  OBVIOUS
<1>1. CountMod \in Nat /\ CountMod > 0
  <2>1. Cardinality(Nodes) \in Nat
    BY FS_CardinalityType DEF SListAssumption, NodesAssumption
  <2> QED BY <2>1 DEF SListAssumption, CountModAssumption
<1>2. 0 \in 0 .. CountMod - 1 BY <1>1
<1>3. TypeOK
  BY <1>2 DEF Init, TypeOK, Places
<1>4. CallsSound /\ LockSound
  BY DEF Init, CallsSound, LockSound, Inside, Adding, SListAssumption, NoneAssumption
<1>5. Len(<<>>) = 0 /\ Range(<<>>) = {}
  BY EmptySeq DEF Range
<1>6. items = <<>> /\ head = None /\ tail = None /\ nodecount = 0 /\ used = {}
      /\ \A t \in Threads : pc[t] = "idle"
  BY DEF Init
<1>7. Spells(items) /\ TailSound
  BY <1>5, <1>6 DEF Spells, Apiece, TailSound
<1>8. NewNodes /\ InUse /\ CountSound /\ WalksEnd
  BY <1>5, <1>6 DEF NewNodes, InUse, CountSound, WalksEnd, Adding, Counting, Uncounted
<1> QED BY <1>3, <1>4, <1>7, <1>8 DEF IInv, Exact

\* The operation a thread has called, it may call.
LEMMA Calls == ASSUME SListAssumption, TypeOK
               PROVE  /\ \A t \in Threads : ops[t] \subseteq AllOps /\ ops[t] \subseteq Called
                      /\ DOMAIN ops = Threads
<1>1. ops \in [Threads -> SUBSET AllOps]
  BY DEF TypeOK, SListAssumption, ProgramsAssumption
<1>2. \A t \in Threads : ops[t] \in Range(ops)
  BY <1>1 DEF Range
<1> QED BY <1>1, <1>2 DEF Called

LEMMA StepType == ASSUME SListAssumption, IInv, [Next]_vars PROVE TypeOK'
<1>1. TypeOK /\ CallsSound BY DEF IInv
<1>2. LinksTyped /\ Chain \in Seq(Nodes) BY <1>1, ChainTyped
<1>3. /\ \A c \in 0 .. CountMod - 1 : (c + 1) % CountMod \in 0 .. CountMod - 1
      /\ \A c \in 0 .. CountMod - 1 : Less(c) \in 0 .. CountMod - 1
      /\ 0 \in 0 .. CountMod - 1
  <2>1. Cardinality(Nodes) \in Nat
    BY FS_CardinalityType DEF SListAssumption, NodesAssumption
  <2>2. CountMod \in Nat /\ CountMod > 0
    BY <2>1 DEF SListAssumption, CountModAssumption
  <2>3. 0 \in 0 .. CountMod - 1 BY <2>2
  <2> QED BY <2>3, Counts
<1>4. SortedChain \in Seq(Nodes) /\ SortInternal[items] \in Seq(Nodes)
  BY <1>1, <1>2, SortIs DEF SortedChain, TypeOK
<1> USE DEF Places, Inside, Uncounted
<1>5. ASSUME NEW t \in Threads, CallAdd(t) PROVE TypeOK'
  BY <1>1, <1>5 DEF CallAdd, Goto, TypeOK, AllOps
<1>6. ASSUME NEW t \in Threads, CallOther(t) PROVE TypeOK'
  BY <1>1, <1>6 DEF CallOther, Goto, TypeOK, AllOps
<1>7. ASSUME NEW t \in Threads, SListPrepend(t) PROVE TypeOK'
  <2>1. node[t] \in Nodes BY <1>1, <1>7 DEF SListPrepend, Goto, CallsSound, Adding
  <2>2. items' \in Seq(Nodes)
    <3>1. <<node[t]>> \in Seq(Nodes) /\ items \in Seq(Nodes)
      BY <1>1, <2>1 DEF TypeOK
    <3> QED BY <1>7, <3>1, ConcatProperties DEF SListPrepend
  <2> QED BY <1>1, <1>7, <2>1, <2>2 DEF SListPrepend, Goto, Take, TypeOK
<1>8. ASSUME NEW t \in Threads, SListAppend(t) PROVE TypeOK'
  <2>1. node[t] \in Nodes BY <1>1, <1>8 DEF SListAppend, Goto, CallsSound, Adding
  <2>2. items' \in Seq(Nodes)
    BY <1>1, <1>8, <2>1, AppendProperties DEF SListAppend, TypeOK
  <2> QED BY <1>1, <1>8, <2>1, <2>2 DEF SListAppend, Goto, Take, TypeOK
<1>9. ASSUME NEW t \in Threads, AddCount(t) PROVE TypeOK'
  <2>1. nodecount' \in 0 .. CountMod - 1
    BY <1>1, <1>3, <1>9 DEF AddCount, TypeOK
  <2> QED BY <1>1, <1>3, <1>9, <2>1 DEF AddCount, Goto, Unlock, TypeOK
<1>10. ASSUME NEW t \in Threads, SListRemove(t) PROVE TypeOK'
  <2> DEFINE i == First(arg[t])
  <2>1. i \in 1 .. Len(Chain) /\ Chain[i] \in Nodes
    BY <1>1, <1>10, Found DEF SListRemove
  <2>2. i # 1 => Chain[i - 1] \in Nodes
    <3>1. Len(Chain) \in Nat BY <1>2, LenProperties
    <3> HIDE DEF i
    <3>2. i # 1 => i - 1 \in 1 .. Len(Chain) BY <2>1, <3>1
    <3> QED BY <1>2, <3>2, ElementOfSeq
  <2>3. Unlink(i) BY <1>10 DEF SListRemove
  <2>4. items' \in Seq(Nodes)
    BY <1>1, <1>10, WithoutTyped DEF SListRemove, TypeOK
  <2>5. head' \in Nodes \cup {None} /\ tail' \in Nodes \cup {None}
        /\ link' \in [Nodes -> Nodes \cup {None}]
    <3> HIDE DEF i
    <3> QED BY <1>1, <2>1, <2>2, <2>3 DEF Unlink, TypeOK
  <2>6. used' \subseteq Nodes BY <1>1, <1>10 DEF SListRemove, TypeOK
  <2>7. phase' \in {"live", "freed", "crashed"} /\ lock' \in Threads \cup {None}
    BY <1>10 DEF SListRemove, Take
  <2> QED BY <1>1, <1>10, <2>4, <2>5, <2>6, <2>7 DEF SListRemove, TypeOK
<1>11. ASSUME NEW t \in Threads, RemoveLoad(t) \/ RemoveUnlock(t) PROVE TypeOK'
  BY <1>1, <1>11 DEF RemoveLoad, RemoveUnlock, Goto, Unlock, TypeOK
<1>12. ASSUME NEW t \in Threads, RemoveCount(t) PROVE TypeOK'
  <2>1. nodecount' \in 0 .. CountMod - 1
    BY <1>1, <1>3, <1>12 DEF RemoveCount, TypeOK
  <2> QED BY <1>1, <1>3, <1>12, <2>1 DEF RemoveCount, Goto, TypeOK
<1>13. ASSUME NEW t \in Threads, FindsAndReturns(t) PROVE TypeOK'
  BY <1>1, <1>13 DEF FindsAndReturns, Goto, Take, TypeOK
<1>14. ASSUME NEW t \in Threads,
              FindsNothing(t) \/ GoesRound(t) \/ SortOverflows(t) \/ Return(t)
       PROVE  TypeOK'
  BY <1>1, <1>14 DEF FindsNothing, GoesRound, SortOverflows, Return, Goto, Take, Unlock, TypeOK
<1>15. ASSUME NEW t \in Threads, SListSort(t) PROVE TypeOK'
  <2>1. link' \in [Nodes -> Nodes \cup {None}]
    BY <1>2, <1>4, <1>15, LinkedIs DEF SListSort
  <2>2. head' \in Nodes \cup {None}
    <3>1. CASE Chain = <<>> BY <1>15, <3>1 DEF SListSort
    <3>2. CASE Chain # <<>>
      <4>1. SortedChain # <<>> => Head(SortedChain) \in Nodes
        BY <1>4, HeadTailProperties
      <4>2. SortedChain # <<>>
        <5>1. Len(Chain) \in Nat \ {0} BY <1>2, <3>2, EmptySeq
        <5>2. CASE Len(Chain) < 2
          <6>1. Sweep(SortInternal)[Chain] = Chain BY <1>2, <5>2 DEF Sweep
          <6> QED BY <3>2, <6>1, SortIs DEF SortedChain
        <5>3. CASE Len(Chain) >= 2
          <6> DEFINE a == SortInternal[Backward(Chain, Below(Chain))]
                     b == SortInternal[Backward(Chain, Above(Chain))]
          <6>1. a \in Seq(Nodes) /\ b \in Seq(Nodes) /\ Chain[1] \in Nodes
            BY <1>2, <5>3, Parts, SortIs
          <6>2. ~(Len(Chain) < 2) BY <5>1, <5>3
          <6>3. Sweep(SortInternal)[Chain] = a \o <<Chain[1]>> \o b
            BY <1>2, <6>2 DEF Sweep
          <6>4. SortedChain = a \o <<Chain[1]>> \o b BY <6>3, SortIs DEF SortedChain
          <6> HIDE DEF a, b
          <6>5. Chain[1] \in Range(SortedChain) BY <6>1, <6>4, Joined
          <6>6. Range(<<>>) = {} BY DEF Range
          <6> QED BY <6>5, <6>6
        <5> QED BY <5>1, <5>2, <5>3
      <4> QED BY <1>15, <3>2, <4>1, <4>2 DEF SListSort
    <3> QED BY <3>1, <3>2
  <2> QED BY <1>1, <1>4, <1>15, <2>1, <2>2 DEF SListSort, Goto, Take, TypeOK
<1>16. ASSUME SListInit PROVE TypeOK'
  <2>1. <<>> \in Seq(Nodes) BY EmptySeq
  <2> QED BY <1>1, <1>3, <1>16, <2>1 DEF SListInit, TypeOK
<1>17. ASSUME SListFree PROVE TypeOK'
  <2>1. <<>> \in Seq(Nodes) BY EmptySeq
  <2> QED BY <1>1, <1>17, <2>1 DEF SListFree, TypeOK
<1>18. ASSUME UNCHANGED vars PROVE TypeOK'
  BY <1>1, <1>18 DEF TypeOK, vars
<1> QED BY <1>5, <1>6, <1>7, <1>8, <1>9, <1>10, <1>11, <1>12, <1>13, <1>14, <1>15,
           <1>16, <1>17, <1>18 DEF Next, Step

LEMMA Busy == ASSUME CallsSound, NEW t \in Threads, pc[t] # "idle" PROVE ops[t] # {}
BY DEF CallsSound

LEMMA RemovesCalled == ASSUME CallsSound, NEW t \in Threads, pc[t] \in Uncounted,
                              TypeOK, SListAssumption
                       PROVE  "remove" \in ops[t]
<1>1. pc[t] \notin AllOps BY DEF Uncounted, AllOps
<1>2. pc[t] \notin ops[t] BY <1>1, Calls
<1>3. By(pc[t]) = {"remove"} BY DEF By, Uncounted
<1> QED BY <1>2, <1>3 DEF CallsSound, Uncounted

LEMMA StepCalls == ASSUME SListAssumption, IInv, [Next]_vars PROVE CallsSound' /\ LockSound'
<1>1. TypeOK /\ CallsSound /\ LockSound BY DEF IInv
<1>2. /\ \A t \in Threads : ops[t] \subseteq AllOps /\ ops[t] \subseteq Called
      /\ None \notin Threads
      /\ pc \in [Threads -> AllOps \cup Places]
      /\ node \in [Threads -> Nodes \cup {None}]
  BY <1>1, Calls DEF SListAssumption, NoneAssumption, TypeOK
<1> USE DEF Places, Inside, Uncounted
<1>3. ASSUME NEW t \in Threads, CallAdd(t) PROVE CallsSound' /\ LockSound'
  <2>1. PICK op \in ops[t] \cap {"append", "prepend"} : Goto(t, "idle", op)
    BY <1>3 DEF CallAdd
  <2>2. PICK n \in Nodes : node' = [node EXCEPT ![t] = n]
    BY <1>3 DEF CallAdd
  <2>3. UNCHANGED <<lock, ops>> BY <1>3 DEF CallAdd
  <2>4. CallsSound'
    BY <1>1, <1>2, <2>1, <2>2, <2>3 DEF CallsSound, Goto, Adding, AllOps
  <2>5. LockSound'
    BY <1>1, <1>2, <2>1, <2>3 DEF LockSound, Goto, Called
  <2> QED BY <2>4, <2>5
<1>4. ASSUME NEW t \in Threads, CallOther(t) PROVE CallsSound' /\ LockSound'
  <2>1. PICK op \in ops[t] \cap Others : Goto(t, "idle", op)
    BY <1>4 DEF CallOther, Others
  <2>2. UNCHANGED <<lock, node, ops>> BY <1>4 DEF CallOther
  <2>3. CallsSound'
    BY <1>1, <1>2, <2>1, <2>2 DEF CallsSound, Goto, Adding, Others
  <2>4. LockSound'
    BY <1>1, <1>2, <2>1, <2>2 DEF LockSound, Goto, Called
  <2> QED BY <2>3, <2>4
<1>5. ASSUME NEW t \in Threads, SListPrepend(t) \/ SListAppend(t)
      PROVE CallsSound' /\ LockSound'
  <2>1. /\ \E op \in {"append", "prepend"} : Goto(t, op, "added")
        /\ lock = None /\ lock' = t /\ UNCHANGED <<node, ops>>
    BY <1>5 DEF SListPrepend, SListAppend, Take
  <2>2. CallsSound'
    <3>1. pc[t] \in ops[t] BY <1>1, <2>1 DEF CallsSound, Goto
    <3> QED BY <1>1, <1>2, <2>1, <3>1 DEF CallsSound, Goto, Adding, By
  <2>3. LockSound'
    BY <1>1, <1>2, <2>1 DEF LockSound, Goto, Called
  <2> QED BY <2>2, <2>3
<1>6. ASSUME NEW t \in Threads, AddCount(t) PROVE CallsSound' /\ LockSound'
  <2>1. /\ Goto(t, "added", "idle") /\ lock = t /\ lock' = None
        /\ node' = [node EXCEPT ![t] = None] /\ UNCHANGED ops
    BY <1>1, <1>6 DEF AddCount, CallsSound, Goto, Unlock
  <2>2. \A u \in Threads : u # t => pc[u] \notin Inside
    BY <1>1, <2>1 DEF CallsSound
  <2>3. CallsSound'
    BY <1>1, <1>2, <2>1, <2>2 DEF CallsSound, Goto, Adding
  <2>4. LockSound'
    BY <1>1, <1>2, <2>1 DEF LockSound, Goto, Called
  <2> QED BY <2>3, <2>4
<1>7. ASSUME NEW t \in Threads, RemoveLoad(t) \/ RemoveCount(t)
      PROVE CallsSound' /\ LockSound'
  <2>1. /\ Goto(t, "removed", "uncount") \/ Goto(t, "uncount", "idle")
        /\ UNCHANGED <<lock, node, ops>>
    BY <1>7 DEF RemoveLoad, RemoveCount
  <2>2. CallsSound'
    <3>1. "remove" \in ops[t] BY <1>1, <2>1, RemovesCalled DEF Goto
    <3>2. By("uncount") = {"remove"} BY DEF By
    <3> QED BY <1>1, <1>2, <2>1, <3>1, <3>2 DEF CallsSound, Goto, Adding
  <2>3. LockSound'
    BY <1>1, <1>2, <2>1 DEF LockSound, Goto, Called
  <2> QED BY <2>2, <2>3
<1>8. ASSUME NEW t \in Threads, FindsAndReturns(t) PROVE CallsSound' /\ LockSound'
  <2>1. PICK op \in {"search", "getone"} : Goto(t, op, "idle")
    BY <1>8 DEF FindsAndReturns
  <2>2. lock = None /\ lock' = t /\ UNCHANGED <<node, ops>>
    BY <1>8 DEF FindsAndReturns, Take
  <2>3. op \in ops[t] BY <1>1, <2>1 DEF CallsSound, Goto
  <2>4. op \in Called BY <1>2, <2>3
  <2>5. CallsSound'
    <3>1. \A u \in Threads : pc[u] \notin Inside BY <1>1, <1>2, <2>2 DEF CallsSound
    <3> QED BY <1>1, <1>2, <2>1, <2>2, <3>1 DEF CallsSound, Goto, Adding
  <2>6. Called' = Called BY <2>2 DEF Called
  <2>7. LockSound' BY <2>4, <2>6 DEF LockSound
  <2> QED BY <2>5, <2>7
<1>9. ASSUME NEW t \in Threads,
             \/ SListRemove(t) \/ FindsNothing(t) \/ GoesRound(t)
             \/ SListSort(t) \/ SortOverflows(t)
      PROVE CallsSound' /\ LockSound'
  <2>1. PICK op \in Others, to \in Inside \ {"added"} :
           /\ pc[t] = op /\ pc' = [pc EXCEPT ![t] = to] /\ (to = "unlinked" => op = "remove")
           /\ lock = None /\ lock' = t /\ UNCHANGED <<node, ops>>
    <3>1. CASE SListRemove(t) BY <3>1 DEF SListRemove, Take, Others
    <3>2. CASE FindsNothing(t) BY <3>2 DEF FindsNothing, Goto, Take, Others
    <3>3. CASE GoesRound(t) BY <3>3 DEF GoesRound, Goto, Take, Others
    <3>4. CASE SListSort(t) BY <3>4 DEF SListSort, Goto, Take, Others
    <3>5. CASE SortOverflows(t) BY <3>5 DEF SortOverflows, Take, Others
    <3> QED BY <1>9, <3>1, <3>2, <3>3, <3>4, <3>5
  <2>2. CallsSound'
    <3>1. op \in ops[t] BY <1>1, <2>1 DEF CallsSound, Others
    <3>2. op \in By(to) BY <2>1 DEF By
    <3>3. \A u \in Threads : pc[u] \notin Inside BY <1>1, <1>2, <2>1 DEF CallsSound
    <3> QED BY <1>1, <1>2, <2>1, <3>1, <3>2, <3>3 DEF CallsSound, Adding
  <2>3. LockSound'
    BY <1>1, <1>2, <2>1 DEF LockSound, Called
  <2> QED BY <2>2, <2>3
<1>11. ASSUME NEW t \in Threads, RemoveUnlock(t) \/ Return(t) PROVE CallsSound' /\ LockSound'
  <2>1. /\ Goto(t, "unlinked", "removed") \/ Goto(t, "done", "idle")
        /\ lock = t /\ lock' = None /\ UNCHANGED <<node, ops>>
    BY <1>1, <1>11 DEF RemoveUnlock, Return, CallsSound, Goto, Unlock
  <2>2. \A u \in Threads : u # t => pc[u] \notin Inside
    BY <1>1, <2>1 DEF CallsSound
  <2>3. CallsSound'
    <3>1. CASE Goto(t, "unlinked", "removed")
      <4>1. "remove" \in ops[t] BY <1>1, <3>1, RemovesCalled DEF Goto
      <4>2. By("removed") = {"remove"} BY DEF By
      <4> QED BY <1>1, <1>2, <2>1, <2>2, <3>1, <4>1, <4>2 DEF CallsSound, Goto, Adding
    <3>2. CASE Goto(t, "done", "idle")
      BY <1>1, <1>2, <2>1, <2>2, <3>2 DEF CallsSound, Goto, Adding
    <3> QED BY <2>1, <3>1, <3>2
  <2>4. LockSound'
    BY <1>1, <1>2, <2>1 DEF LockSound, Goto, Called
  <2> QED BY <2>3, <2>4
<1>10. ASSUME SListInit \/ SListFree \/ UNCHANGED vars PROVE CallsSound' /\ LockSound'
  <2>1. UNCHANGED <<lock, pc, node, ops>> BY <1>10 DEF SListInit, SListFree, vars
  <2> QED BY <1>1, <2>1 DEF CallsSound, LockSound, Adding, Called
<1> QED BY <1>3, <1>4, <1>5, <1>6, <1>7, <1>8, <1>9, <1>10, <1>11 DEF Next, Step
-----------------------------------------------------------------------------
\* Which threads can be counting, and which can be busy at all, when clients'
\* calls do not meet.
LEMMA OneCounts == ASSUME SListAssumption, TypeOK, CallsSound, Apart,
                          NEW t \in Threads, NEW u \in Threads, Counting(t), Counting(u)
                   PROVE  t = u
<1> SUFFICES ASSUME t # u PROVE FALSE
  OBVIOUS
<1>1. ops[t] # {} /\ ops[u] # {} BY Busy DEF Counting, Uncounted
<1>2. CASE \E x \in Threads : \A y \in Threads \ {x} : ops[y] = {}
  BY <1>1, <1>2
<1>3. CASE Called \subseteq {"append", "prepend", "init", "free"}
  <2>1. "remove" \notin ops[t] /\ "remove" \notin ops[u] BY <1>3, Calls
  <2>2. lock = t /\ lock = u BY <2>1, RemovesCalled DEF CallsSound, Counting, Inside
  <2> QED BY <2>2
<1> QED BY <1>2, <1>3 DEF Apart

LEMMA Calm == ASSUME SListAssumption, TypeOK, CallsSound, Apart, lock = None,
                     NEW t \in Threads, pc[t] # "idle", ~Counting(t)
              PROVE  \A u \in Threads : ~Counting(u)
<1> SUFFICES ASSUME NEW u \in Threads, Counting(u), u # t PROVE FALSE
  OBVIOUS
<1>1. ops[t] # {} /\ ops[u] # {} BY Busy DEF Counting, Uncounted
<1>2. CASE \E x \in Threads : \A y \in Threads \ {x} : ops[y] = {}
  BY <1>1, <1>2
<1>3. CASE Called \subseteq {"append", "prepend", "init", "free"}
  <2>1. "remove" \notin ops[u] BY <1>3, Calls
  <2>2. lock = u BY <2>1, RemovesCalled DEF CallsSound, Counting, Inside
  <2> QED BY <2>2 DEF SListAssumption, NoneAssumption
<1> QED BY <1>2, <1>3 DEF Apart

LEMMA Alone == ASSUME SListAssumption, TypeOK, CallsSound, Apart, NEW t \in Threads,
                      NEW op \in ops[t], op \in Others
               PROVE  \A u \in Threads \ {t} : pc[u] = "idle"
<1> SUFFICES ASSUME NEW u \in Threads, u # t PROVE pc[u] = "idle"
  OBVIOUS
<1>1. CASE \E x \in Threads : \A y \in Threads \ {x} : ops[y] = {}
  <2>1. ops[u] = {} BY <1>1
  <2> QED BY <2>1, Busy
<1>2. CASE Called \subseteq {"append", "prepend", "init", "free"}
  BY <1>2, Calls DEF Others
<1> QED BY <1>1, <1>2 DEF Apart

\* A step that moves a thread between calls and touches nothing of the list.
LEMMA Untouched ==
  ASSUME Exact,
         UNCHANGED <<head, tail, nodecount, link, node, tmp, used, ops, items>>,
         \A u \in Threads : /\ Adding(u)' <=> Adding(u)
                            /\ pc'[u] = pc[u] \/ (~Counting(u) /\ ~Counting(u)')
  PROVE  Exact'
<1>1. Spells(items)' BY DEF Exact, Spells, Apiece
<1>2. TailSound' BY DEF Exact, TailSound, Called
<1>3. NewNodes' BY DEF Exact, NewNodes
<1>4. InUse' BY DEF Exact, InUse
<1>5. CountSound'
  <2>1. \A u \in Threads : Counting(u)' <=> Counting(u) BY DEF Counting
  <2> QED BY <2>1 DEF Exact, CountSound, Counting, Uncounted
<1> QED BY <1>1, <1>2, <1>3, <1>4, <1>5 DEF Exact

\* The places of a node put in front, of one put at the end, and of the rest
\* when one is taken out.
LEMMA InFront == ASSUME NEW s \in Seq(Nodes), NEW n \in Nodes, Apiece(s), n \notin Range(s)
                 PROVE  /\ <<n>> \o s \in Seq(Nodes) /\ Len(<<n>> \o s) = Len(s) + 1
                        /\ (<<n>> \o s)[1] = n
                        /\ \A i \in 1 .. Len(s) : (<<n>> \o s)[i + 1] = s[i]
                        /\ \A i \in 2 .. Len(s) + 1 : (<<n>> \o s)[i] = s[i - 1]
                        /\ Range(<<n>> \o s) = Range(s) \cup {n}
                        /\ Apiece(<<n>> \o s)
<1> DEFINE one == <<n>>
           r == <<n>> \o s
<1>1. one \in Seq(Nodes) /\ Len(one) = 1 /\ one[1] = n OBVIOUS
<1>2. Len(s) \in Nat BY LenProperties
<1>3. one \o s = r OBVIOUS
<1> HIDE DEF one
<1>4. /\ r \in Seq(Nodes) /\ Len(r) = 1 + Len(s)
      /\ \A i \in 1 .. 1 + Len(s) : r[i] = IF i <= 1 THEN one[i] ELSE s[i - 1]
  <2>1. /\ one \o s \in Seq(Nodes) /\ Len(one \o s) = Len(one) + Len(s)
        /\ \A i \in 1 .. Len(one) + Len(s) :
              (one \o s)[i] = IF i <= Len(one) THEN one[i] ELSE s[i - Len(one)]
    BY ONLY <1>1, ConcatProperties, s \in Seq(Nodes)
  <2> HIDE DEF r
  <2> QED BY <1>1, <1>3, <2>1
<1> HIDE DEF r
<1>5. Len(r) = Len(s) + 1 /\ r[1] = n BY <1>1, <1>2, <1>4
<1>6. \A i \in 1 .. Len(s) : r[i + 1] = s[i] BY <1>2, <1>4
<1>7. \A i \in 2 .. Len(s) + 1 : r[i] = s[i - 1] BY <1>2, <1>4
<1>8. Range(r) = Range(s) \cup {n}
  <2>1. Range(r) = {r[i] : i \in 1 .. Len(s) + 1} BY <1>4, <1>5, RangeEquality
  <2>2. Range(s) = {s[i] : i \in 1 .. Len(s)} BY RangeEquality
  <2>3. ASSUME NEW i \in 1 .. Len(s) + 1 PROVE r[i] \in Range(s) \cup {n}
    <3>1. CASE i = 1 BY <1>5, <3>1
    <3>2. CASE i # 1
      <4>1. i \in 2 .. Len(s) + 1 /\ i - 1 \in 1 .. Len(s) BY <1>2, <3>2
      <4> QED BY <1>7, <2>2, <4>1
    <3> QED BY <3>1, <3>2
  <2>4. \A i \in 1 .. Len(s) : i + 1 \in 1 .. Len(s) + 1 BY <1>2
  <2>5. 1 \in 1 .. Len(s) + 1 BY <1>2
  <2> QED BY <1>5, <1>6, <2>1, <2>2, <2>3, <2>4, <2>5, ZenonT(40)
<1>9. Apiece(r)
  <2> SUFFICES ASSUME NEW i \in 1 .. Len(s) + 1, NEW j \in 1 .. Len(s) + 1, r[i] = r[j]
               PROVE  i = j
    BY <1>5 DEF Apiece
  <2>1. \A k \in 1 .. Len(s) + 1 : k = 1 \/ (k \in 2 .. Len(s) + 1 /\ k - 1 \in 1 .. Len(s))
    BY <1>2
  <2>2. \A k \in 1 .. Len(s) : s[k] # n BY InRange
  <2>3. CASE i = 1 /\ j = 1 BY <2>3
  <2>4. CASE i # 1 /\ j # 1
    <3>1. i - 1 = j - 1 BY <1>7, <2>1, <2>4 DEF Apiece
    <3> QED BY <1>2, <3>1
  <2>5. CASE (i = 1 /\ j # 1) \/ (i # 1 /\ j = 1)
    BY <1>5, <1>7, <2>1, <2>2, <2>5
  <2> QED BY <2>3, <2>4, <2>5
<1> QED BY <1>4, <1>5, <1>6, <1>7, <1>8, <1>9 DEF r

LEMMA AtEnd == ASSUME NEW s \in Seq(Nodes), NEW n \in Nodes, Apiece(s), n \notin Range(s)
               PROVE  /\ Append(s, n) \in Seq(Nodes) /\ Len(Append(s, n)) = Len(s) + 1
                      /\ Append(s, n)[Len(s) + 1] = n
                      /\ \A i \in 1 .. Len(s) : Append(s, n)[i] = s[i]
                      /\ Range(Append(s, n)) = Range(s) \cup {n}
                      /\ Apiece(Append(s, n))
<1> DEFINE r == Append(s, n)
<1>1. Len(s) \in Nat BY LenProperties
<1>2. /\ r \in Seq(Nodes) /\ Len(r) = Len(s) + 1 /\ r[Len(s) + 1] = n
      /\ \A i \in 1 .. Len(s) : r[i] = s[i]
  BY AppendProperties
<1> HIDE DEF r
<1>3. \A k \in 1 .. Len(s) + 1 : k = Len(s) + 1 \/ k \in 1 .. Len(s) BY <1>1
<1>4. Range(r) = Range(s) \cup {n}
  <2>1. Range(r) = {r[i] : i \in 1 .. Len(s) + 1} BY <1>2, RangeEquality
  <2>2. Range(s) = {s[i] : i \in 1 .. Len(s)} BY RangeEquality
  <2>3. \A i \in 1 .. Len(s) : i \in 1 .. Len(s) + 1 BY <1>1
  <2>4. Len(s) + 1 \in 1 .. Len(s) + 1 BY <1>1
  <2> QED BY <1>2, <1>3, <2>1, <2>2, <2>3, <2>4
<1>5. Apiece(r)
  <2>1. \A k \in 1 .. Len(s) : s[k] # n BY InRange
  <2> QED BY <1>2, <1>3, <2>1 DEF Apiece
<1> QED BY <1>2, <1>4, <1>5 DEF r

LEMMA TakenOut == ASSUME NEW s \in Seq(Nodes), NEW i \in 1 .. Len(s), Apiece(s)
                  PROVE  /\ Apiece(Without(s, s[i]))
                         /\ Range(Without(s, s[i])) = Range(s) \ {s[i]}
<1> DEFINE r == Without(s, s[i])
           m == Len(s) - 1
<1>1. Len(s) \in Nat /\ i \in Nat BY LenProperties
<1>2. /\ r \in Seq(Nodes) /\ Len(r) = m
      /\ \A k \in 1 .. m : r[k] = IF k < i THEN s[k] ELSE s[k + 1]
  BY WithoutIs
<1> HIDE DEF r
<1>3. ASSUME NEW k \in 1 .. m
      PROVE  /\ k \in Nat
             /\ k < i => k \in 1 .. Len(s) /\ r[k] = s[k]
             /\ ~(k < i) => k + 1 \in 1 .. Len(s) /\ k + 1 # i /\ r[k] = s[k + 1]
  BY <1>1, <1>2
<1>4. Apiece(r)
  <2> SUFFICES ASSUME NEW j \in 1 .. m, NEW k \in 1 .. m, r[j] = r[k] PROVE j = k
    BY <1>2 DEF Apiece
  <2>1. /\ (j < i /\ k < i) => s[j] = s[k] /\ j \in 1 .. Len(s) /\ k \in 1 .. Len(s)
        /\ (j < i /\ ~(k < i)) => s[j] = s[k + 1] /\ j \in 1 .. Len(s) /\ k + 1 \in 1 .. Len(s)
        /\ (~(j < i) /\ k < i) => s[j + 1] = s[k] /\ j + 1 \in 1 .. Len(s) /\ k \in 1 .. Len(s)
        /\ (~(j < i) /\ ~(k < i)) =>
              s[j + 1] = s[k + 1] /\ j + 1 \in 1 .. Len(s) /\ k + 1 \in 1 .. Len(s)
    BY <1>3
  <2>2. /\ (j < i /\ k < i) => j = k
        /\ (j < i /\ ~(k < i)) => j = k + 1
        /\ (~(j < i) /\ k < i) => j + 1 = k
        /\ (~(j < i) /\ ~(k < i)) => j + 1 = k + 1
    BY <2>1 DEF Apiece
  <2>3. j \in Nat /\ k \in Nat BY <1>3
  <2> HIDE DEF m
  <2> QED BY <1>1, <2>2, <2>3
<1>5. Range(r) = Range(s) \ {s[i]}
  <2>1. Range(r) = {r[k] : k \in 1 .. m} BY <1>2, RangeEquality
  <2>2. Range(s) = {s[k] : k \in 1 .. Len(s)} BY RangeEquality
  <2>3. ASSUME NEW k \in 1 .. m PROVE r[k] \in Range(s) \ {s[i]}
    <3>1. CASE k < i
      <4>1. k \in 1 .. Len(s) /\ r[k] = s[k] /\ k # i BY <1>1, <1>3, <3>1
      <4> QED BY <2>2, <4>1 DEF Apiece
    <3>2. CASE ~(k < i)
      <4>1. k + 1 \in 1 .. Len(s) /\ r[k] = s[k + 1] /\ k + 1 # i BY <1>3, <3>2
      <4> QED BY <2>2, <4>1 DEF Apiece
    <3> QED BY <3>1, <3>2
  <2>4. ASSUME NEW k \in 1 .. Len(s), k # i PROVE \E j \in 1 .. m : r[j] = s[k]
    <3>1. CASE k < i
      <4>1. k \in 1 .. m BY <1>1, <3>1
      <4> QED BY <1>3, <3>1, <4>1
    <3>2. CASE k > i
      <4>1. k - 1 \in 1 .. m /\ ~(k - 1 < i) /\ (k - 1) + 1 = k BY <1>1, <3>2
      <4>2. r[k - 1] = s[(k - 1) + 1] BY <1>3, <4>1
      <4> QED BY <4>1, <4>2
    <3> QED BY <1>1, <2>4, <3>1, <3>2
  <2>5. Range(r) \subseteq Range(s) \ {s[i]} BY <2>1, <2>3
  <2>6. Range(s) \ {s[i]} \subseteq Range(r) BY <2>1, <2>2, <2>4
  <2> QED BY <2>5, <2>6
<1> QED BY <1>4, <1>5 DEF r
-----------------------------------------------------------------------------
\* The steps that add a node.
LEMMA StepCallAdd ==
  ASSUME SListAssumption, IInv, Exact, Apart, NEW t \in Threads, CallAdd(t)
  PROVE  Exact'
<1>1. PICK op \in {"append", "prepend"} :
         pc[t] = "idle" /\ pc' = [pc EXCEPT ![t] = op]
  BY DEF CallAdd, Goto
<1>2. PICK n \in Nodes :
         /\ n \notin used /\ node' = [node EXCEPT ![t] = n]
         /\ used' = used \cup {n} /\ link' = [link EXCEPT ![n] = None]
  BY DEF CallAdd
<1>3. UNCHANGED <<head, tail, nodecount, tmp, ops, items>> BY DEF CallAdd
<1>4. /\ pc \in [Threads -> AllOps \cup Places]
      /\ node \in [Threads -> Nodes \cup {None}]
      /\ link \in [Nodes -> Nodes \cup {None}] /\ items \in Seq(Nodes)
      /\ used \subseteq Nodes
  BY DEF IInv, TypeOK
<1>5. /\ Adding(t)' /\ ~Adding(t)
      /\ \A u \in Threads : u # t => (Adding(u)' <=> Adding(u))
      /\ \A u \in Threads : Counting(u)' <=> Counting(u)
      /\ \A u \in Threads : Counting(u) => pc'[u] = pc[u]
      /\ node'[t] = n /\ \A u \in Threads : u # t => node'[u] = node[u]
  BY <1>1, <1>2, <1>4 DEF Adding, Counting, Uncounted
<1>6. n \notin Range(items) /\ \A m \in Range(items) : m \in Nodes
  BY <1>2, <1>4, InRange, RangeOfSeq DEF Exact, InUse
<1>7. Spells(items)'
  <2>1. \A i \in 1 .. Len(items) : items[i] # n /\ items[i] \in Nodes
    BY <1>4, <1>6, InRange
  <2>2. \A i \in 1 .. Len(items) : link'[items[i]] = link[items[i]]
    BY <1>2, <1>4, <2>1
  <2> QED BY <1>3, <2>2 DEF Exact, Spells, Apiece
<1>8. TailSound' BY <1>3 DEF Exact, TailSound, Called
<1>9. NewNodes'
  <2> SUFFICES ASSUME NEW u \in Threads, Adding(u)'
               PROVE  /\ node'[u] \in used' \ Range(items') /\ link'[node'[u]] = None
                      /\ \A v \in Threads : v # u /\ Adding(v)' => node'[v] # node'[u]
    BY DEF NewNodes
  <2>1. \A v \in Threads : v # t /\ Adding(v)' =>
            node'[v] \in used \ Range(items) /\ link[node'[v]] = None /\ node'[v] # n
    BY <1>2, <1>5 DEF Exact, NewNodes
  <2>2. \A v, w \in Threads : v # w /\ v # t /\ w # t /\ Adding(v)' /\ Adding(w)'
            => node'[v] # node'[w]
    BY <1>5 DEF Exact, NewNodes
  <2>3. \A m \in Nodes : link'[m] = IF m = n THEN None ELSE link[m] BY <1>2, <1>4
  <2>4. CASE u = t BY <1>2, <1>3, <1>5, <1>6, <2>1, <2>3, <2>4
  <2>5. CASE u # t BY <1>2, <1>3, <1>4, <1>5, <2>1, <2>2, <2>3, <2>5
  <2> QED BY <2>4, <2>5
<1>10. InUse' BY <1>2, <1>3, <1>5 DEF Exact, InUse
<1>11. CountSound'
  <2>1. \A u \in Threads : Counting(u) \/ Counting(u)' => pc'[u] = pc[u] BY <1>5
  <2> QED BY <1>3, <1>5, <2>1 DEF Exact, CountSound, Counting, Uncounted
<1> QED BY <1>7, <1>8, <1>9, <1>10, <1>11 DEF Exact

\* What a node's arrival does to everything but the links.
LEMMA StepArrives ==
  ASSUME SListAssumption, IInv, Exact, Apart, NEW t \in Threads,
         SListPrepend(t) \/ SListAppend(t)
  PROVE  /\ Adding(t) /\ node[t] \in Nodes /\ node[t] \notin Range(items)
         /\ link[node[t]] = None /\ nodecount = Len(items)
         /\ (Range(items') = Range(items) \cup {node[t]} /\ Len(items') = Len(items) + 1
             /\ \A u \in Threads : u # t /\ Adding(u) => link'[node[u]] = link[node[u]])
            => NewNodes' /\ InUse' /\ CountSound'
<1> DEFINE x == node[t]
<1>1. /\ pc \in [Threads -> AllOps \cup Places]
      /\ tmp \in [Threads -> 0 .. CountMod - 1] /\ items \in Seq(Nodes)
  BY DEF IInv, TypeOK
<1>2. /\ Adding(t) /\ pc[t] # "idle" /\ lock = None
      /\ pc' = [pc EXCEPT ![t] = "added"] /\ tmp' = [tmp EXCEPT ![t] = nodecount]
      /\ UNCHANGED <<nodecount, node, used, ops>>
  BY DEF SListPrepend, SListAppend, Goto, Take, Adding
<1>3. ~Counting(t) BY <1>2 DEF Adding, Counting, Uncounted
<1>4. \A u \in Threads : ~Counting(u) BY <1>2, <1>3, Calm DEF IInv
<1>5. x \in Nodes /\ x \in used /\ x \notin Range(items) /\ link[x] = None
  BY <1>2 DEF IInv, CallsSound, Exact, NewNodes
<1>6. nodecount = Len(items) BY <1>4 DEF Exact, CountSound
<1>7. /\ ~Adding(t)' /\ \A u \in Threads : u # t => (Adding(u)' <=> Adding(u))
      /\ pc'[t] = "added" /\ \A u \in Threads : u # t => pc'[u] = pc[u]
      /\ tmp'[t] = nodecount
  BY <1>1, <1>2 DEF Adding
<1>8. ASSUME Range(items') = Range(items) \cup {x}, Len(items') = Len(items) + 1,
             \A u \in Threads : u # t /\ Adding(u) => link'[node[u]] = link[node[u]]
      PROVE  NewNodes' /\ InUse' /\ CountSound'
  <2>1. NewNodes'
    <3> SUFFICES ASSUME NEW u \in Threads, Adding(u)'
                 PROVE  /\ node'[u] \in used' \ Range(items') /\ link'[node'[u]] = None
                        /\ \A v \in Threads : v # u /\ Adding(v)' => node'[v] # node'[u]
      BY DEF NewNodes
    <3>1. u # t /\ Adding(u) BY <1>7
    <3>2. node[u] \in used \ Range(items) /\ link[node[u]] = None /\ node[u] # x
      BY <1>2, <3>1 DEF Exact, NewNodes
    <3>3. \A v \in Threads : v # u /\ Adding(v)' => node[v] # node[u]
      BY <1>7, <3>1 DEF Exact, NewNodes
    <3> QED BY <1>2, <1>8, <3>1, <3>2, <3>3
  <2>2. InUse'
    <3> SUFFICES ASSUME NEW n \in Nodes
                 PROVE  n \in used <=>
                           n \in Range(items') \/ \E u \in Threads : Adding(u)' /\ node[u] = n
      BY <1>2 DEF InUse
    <3>1. n \in used <=> n \in Range(items) \/ \E u \in Threads : Adding(u) /\ node[u] = n
      BY DEF Exact, InUse
    <3>2. \A u \in Threads : Adding(u) => u = t \/ Adding(u)' BY <1>7
    <3>3. \A u \in Threads : Adding(u)' => Adding(u) BY <1>7
    <3> QED BY <1>5, <1>8, <3>1, <3>2, <3>3
  <2>3. CountSound'
    <3>1. Counting(t)' BY <1>7 DEF Counting
    <3>2. \A u \in Threads : u # t => ~Counting(u)' BY <1>4, <1>7 DEF Counting
    <3>3. Len(items) \in Nat BY <1>1, LenProperties
    <3>4. nodecount' = Len(items') - 1 /\ tmp'[t] = nodecount'
      BY <1>2, <1>6, <1>7, <1>8, <3>3
    <3> QED BY <1>7, <3>1, <3>2, <3>4 DEF CountSound, Counting, Uncounted
  <2> QED BY <2>1, <2>2, <2>3
<1> QED BY <1>2, <1>5, <1>6, <1>8

LEMMA StepPrepend ==
  ASSUME SListAssumption, IInv, Exact, Apart, NEW t \in Threads, SListPrepend(t)
  PROVE  Exact'
<1> DEFINE x == node[t]
<1>1. /\ Adding(t) /\ x \in Nodes /\ x \notin Range(items) /\ link[x] = None
  BY StepArrives
<1>2. /\ items \in Seq(Nodes) /\ Len(items) \in Nat /\ Spells(items)
      /\ link \in [Nodes -> Nodes \cup {None}] /\ None \notin Nodes
      /\ \A i \in 1 .. Len(items) : items[i] \in Nodes /\ items[i] \in Range(items)
      /\ (items = <<>> <=> Len(items) = 0)
  <2>1. items \in Seq(Nodes) BY DEF IInv, TypeOK
  <2> QED BY <2>1, InRange, EmptySeq
          DEF IInv, TypeOK, Exact, SListAssumption, NoneAssumption
<1>3. /\ items' = <<x>> \o items /\ head' = x /\ UNCHANGED <<node, ops>>
      /\ IF head = None THEN tail' = x /\ UNCHANGED link
                        ELSE link' = [link EXCEPT ![x] = head] /\ UNCHANGED tail
  BY DEF SListPrepend
<1> HIDE DEF x
<1>4. /\ Len(items') = Len(items) + 1 /\ items'[1] = x /\ Apiece(items')
      /\ items' \in Seq(Nodes) /\ Range(items') = Range(items) \cup {x}
      /\ \A i \in 1 .. Len(items) : items'[i + 1] = items[i]
      /\ \A i \in 2 .. Len(items) + 1 : items'[i] = items[i - 1]
  BY <1>1, <1>2, <1>3, InFront DEF Spells
<1>5. /\ link'[x] = head /\ \A n \in Nodes : n # x => link'[n] = link[n]
  <2>1. CASE head = None BY <1>1, <1>3, <2>1
  <2>2. CASE head # None BY <1>1, <1>2, <1>3, <2>2
  <2> QED BY <2>1, <2>2
<1>6. head = IF items = <<>> THEN None ELSE items[1] BY <1>2 DEF Spells
<1>7. items' # <<>> BY <1>2, <1>4, EmptySeq
<1>8. ASSUME NEW i \in 1 .. Len(items')
      PROVE  link'[items'[i]] = IF i = Len(items') THEN None ELSE items'[i + 1]
  <2>1. CASE i = 1 /\ Len(items) = 0 BY <1>2, <1>4, <1>5, <1>6, <2>1
  <2>2. CASE i = 1 /\ Len(items) # 0
    <3>1. 1 \in 1 .. Len(items) /\ i # Len(items') BY <1>2, <1>4, <2>2
    <3>2. items'[1 + 1] = items[1] BY <1>4, <3>1
    <3> QED BY <1>2, <1>4, <1>5, <1>6, <2>2, <3>1, <3>2
  <2>3. CASE i # 1
    <3> DEFINE j == i - 1
    <3>1. /\ i \in 2 .. Len(items) + 1 /\ j \in 1 .. Len(items) /\ j + 1 = i
          /\ (i = Len(items') <=> j = Len(items))
          /\ (j # Len(items) => j + 1 \in 1 .. Len(items))
      BY <1>2, <1>4, <2>3
    <3>2. items'[i] = items[j] BY <1>4, <3>1
    <3> HIDE DEF j
    <3>3. link[items[j]] = IF j = Len(items) THEN None ELSE items[j + 1]
      BY <1>2, <3>1 DEF Spells
    <3>4. link'[items[j]] = link[items[j]] BY <1>1, <1>2, <1>5, <3>1
    <3>5. j # Len(items) => items'[i + 1] = items[j + 1]
      BY <1>4, <3>1
    <3> QED BY <3>1, <3>2, <3>3, <3>4, <3>5
  <2> QED BY <2>1, <2>2, <2>3
<1>9. Spells(items)' BY <1>3, <1>4, <1>7, <1>8 DEF Spells, Apiece
<1>10. TailSound'
  <2> SUFFICES ASSUME "sort" \notin Called PROVE tail' = items'[Len(items')]
    BY <1>3, <1>7 DEF TailSound, Called
  <2>1. CASE Len(items) = 0 BY <1>2, <1>3, <1>4, <1>6, <2>1
  <2>2. CASE Len(items) # 0
    <3>1. 1 \in 1 .. Len(items) /\ Len(items) \in 1 .. Len(items) BY <1>2, <2>2
    <3>2. head # None BY <1>2, <1>6, <2>2, <3>1
    <3>3. tail' = items[Len(items)] BY <1>2, <1>3, <2>2, <3>2 DEF Exact, TailSound
    <3>4. items'[Len(items')] = items[Len(items)] BY <1>4, <3>1
    <3> QED BY <3>3, <3>4
  <2> QED BY <2>1, <2>2
<1>11. NewNodes' /\ InUse' /\ CountSound'
  <2>1. ASSUME NEW u \in Threads, u # t, Adding(u) PROVE link'[node[u]] = link[node[u]]
    <3>1. node[u] \in Nodes /\ node[u] # x
      BY <1>1, <2>1 DEF IInv, CallsSound, Exact, NewNodes, x
    <3> QED BY <1>5, <3>1
  <2> QED BY <1>4, <2>1, StepArrives DEF x
<1> QED BY <1>9, <1>10, <1>11 DEF Exact

LEMMA StepAppend ==
  ASSUME SListAssumption, IInv, Exact, Apart, "sort" \notin Called,
         NEW t \in Threads, SListAppend(t)
  PROVE  Exact'
<1> DEFINE x == node[t]
           m == Len(items)
<1>1. /\ Adding(t) /\ x \in Nodes /\ x \notin Range(items) /\ link[x] = None
  BY StepArrives
<1>2. /\ items \in Seq(Nodes) /\ m \in Nat /\ Spells(items)
      /\ link \in [Nodes -> Nodes \cup {None}] /\ None \notin Nodes
      /\ \A i \in 1 .. m : items[i] \in Nodes /\ items[i] \in Range(items)
      /\ (items = <<>> <=> m = 0)
  <2>1. items \in Seq(Nodes) BY DEF IInv, TypeOK
  <2> QED BY <2>1, InRange, EmptySeq
          DEF IInv, TypeOK, Exact, SListAssumption, NoneAssumption
<1>3. /\ items' = Append(items, x) /\ tail' = x /\ UNCHANGED <<node, ops>>
      /\ IF head = None THEN head' = x /\ UNCHANGED link
                        ELSE link' = [link EXCEPT ![tail] = x] /\ UNCHANGED head
  BY DEF SListAppend
<1> HIDE DEF x
<1>4. /\ Len(items') = m + 1 /\ items'[m + 1] = x /\ Apiece(items')
      /\ items' \in Seq(Nodes) /\ Range(items') = Range(items) \cup {x}
      /\ \A i \in 1 .. m : items'[i] = items[i]
  BY <1>1, <1>2, <1>3, AtEnd DEF Spells
<1>5. /\ head = IF items = <<>> THEN None ELSE items[1]
      /\ tail = IF items = <<>> THEN None ELSE items[m]
  BY <1>2 DEF Spells, Exact, TailSound
<1> HIDE DEF m
<1>6. items' # <<>> BY <1>2, <1>4, EmptySeq
<1>7. head' = items'[1]
  <2>1. CASE m = 0 BY <1>2, <1>3, <1>4, <1>5, <2>1
  <2>2. CASE m # 0
    <3>1. 1 \in 1 .. m BY <1>2, <2>2
    <3>2. head = items[1] /\ head # None BY <1>2, <1>5, <2>2, <3>1
    <3> QED BY <1>3, <1>4, <3>1, <3>2
  <2> QED BY <2>1, <2>2
<1>8. /\ \A n \in Nodes : n \notin Range(items) => link'[n] = link[n]
      /\ \A i \in 1 .. m : link'[items[i]] = IF i = m THEN x ELSE items[i + 1]
  <2>1. CASE m = 0
    <3>1. UNCHANGED link BY <1>2, <1>3, <1>5, <2>1
    <3>2. \A i \in 1 .. m : FALSE BY <2>1
    <3> QED BY <3>1, <3>2
  <2>2. CASE m # 0
    <3>1. 1 \in 1 .. m /\ m \in 1 .. m BY <1>2, <2>2
    <3>2. head # None /\ tail = items[m] BY <1>2, <1>5, <2>2, <3>1
    <3>3. link' = [link EXCEPT ![items[m]] = x] BY <1>3, <3>2
    <3>4. \A n \in Nodes : link'[n] = IF n = items[m] THEN x ELSE link[n]
      BY <1>2, <3>1, <3>3
    <3>5. \A i \in 1 .. m : i # m => items[i] # items[m]
      BY <1>2, <3>1 DEF Spells, Apiece, m
    <3>6. \A i \in 1 .. m : i # m => link[items[i]] = items[i + 1]
      BY <1>2 DEF Spells, m
    <3> QED BY <1>2, <3>1, <3>4, <3>5, <3>6
  <2> QED BY <2>1, <2>2
<1>9. ASSUME NEW i \in 1 .. Len(items')
      PROVE  link'[items'[i]] = IF i = Len(items') THEN None ELSE items'[i + 1]
  <2>1. CASE i = m + 1 BY <1>1, <1>4, <1>8, <2>1
  <2>2. CASE i \in 1 .. m
    <3>1. i # m + 1 /\ (i # m => i + 1 \in 1 .. m) BY <1>2, <2>2
    <3>2. i # m => items'[i + 1] = items[i + 1] BY <1>4, <3>1
    <3> QED BY <1>4, <1>8, <2>2, <3>1, <3>2
  <2> QED BY <1>2, <1>4, <2>1, <2>2
<1>10. Spells(items)' BY <1>4, <1>6, <1>7, <1>9 DEF Spells, Apiece
<1>11. TailSound' BY <1>3, <1>4, <1>6 DEF TailSound
<1>12. NewNodes' /\ InUse' /\ CountSound'
  <2>1. ASSUME NEW u \in Threads, u # t, Adding(u) PROVE link'[node[u]] = link[node[u]]
    <3>1. node[u] \in Nodes /\ node[u] \notin Range(items)
      BY <2>1 DEF IInv, CallsSound, Exact, NewNodes
    <3> QED BY <1>8, <3>1
  <2> QED BY <1>4, <2>1, StepArrives DEF x, m
<1> QED BY <1>10, <1>11, <1>12 DEF Exact
-----------------------------------------------------------------------------
\* The steps that count, and the one that removes.
LEMMA StepCounts ==
  ASSUME SListAssumption, IInv, Exact, Apart, NEW t \in Threads,
         AddCount(t) \/ RemoveUnlock(t) \/ RemoveLoad(t) \/ RemoveCount(t)
  PROVE  Exact'
<1>1. /\ pc \in [Threads -> AllOps \cup Places]
      /\ tmp \in [Threads -> 0 .. CountMod - 1] /\ node \in [Threads -> Nodes \cup {None}]
      /\ items \in Seq(Nodes)
  BY DEF IInv, TypeOK
<1>2. /\ UNCHANGED <<head, tail, link, used, ops, items>>
      /\ Counting(t) /\ ~Adding(t) /\ ~Adding(t)'
      /\ \A u \in Threads : u # t => pc'[u] = pc[u] /\ node'[u] = node[u]
  BY <1>1 DEF AddCount, RemoveUnlock, RemoveLoad, RemoveCount, Goto, Counting, Uncounted,
             Adding
<1>3. \A u \in Threads : u # t => ~Counting(u) /\ ~Counting(u)'
  <2>1. \A u \in Threads : Counting(u) => u = t BY <1>2, OneCounts DEF IInv
  <2> QED BY <1>2, <2>1 DEF Counting
<1>4. \A u \in Threads : /\ Adding(u)' <=> Adding(u)
                         /\ Adding(u) => u # t /\ node'[u] = node[u]
  BY <1>2 DEF Adding
<1>5. Spells(items)' /\ TailSound'
  BY <1>2 DEF Exact, Spells, Apiece, TailSound, Called
<1>6. NewNodes' BY <1>2, <1>4 DEF Exact, NewNodes
<1>7. InUse' BY <1>2, <1>4 DEF Exact, InUse
<1>8. Len(items) \in Nat /\ Len(items) + 1 <= CountMod
  <2>1. Len(items) <= Cardinality(Nodes) /\ Cardinality(Nodes) \in Nat
    BY <1>1, LengthIsSize, FS_CardinalityType
       DEF Exact, Spells, SListAssumption, NodesAssumption
  <2>2. Len(items) \in Nat BY <1>1, LenProperties
  <2>3. CountMod \in Nat /\ CountMod > Cardinality(Nodes)
    BY DEF SListAssumption, CountModAssumption
  <2> QED BY <2>1, <2>2, <2>3
<1>9. /\ (Len(items) + 1 - 1) % CountMod = Len(items)
      /\ (Len(items) - 1 + 1) % CountMod = Len(items)
  <2>1. CountMod \in Nat BY DEF SListAssumption, CountModAssumption
  <2>2. \A c, m \in Nat : c + 1 <= m => c % m = c OBVIOUS
  <2>3. Len(items) + 1 - 1 = Len(items) /\ Len(items) - 1 + 1 = Len(items) BY <1>8
  <2> QED BY <1>8, <2>1, <2>2, <2>3
<1>10. CASE AddCount(t)
  <2>1. pc[t] = "added" /\ pc' = [pc EXCEPT ![t] = "idle"]
        /\ nodecount' = (tmp[t] + 1) % CountMod
    BY <1>10 DEF AddCount, Goto
  <2>2. tmp[t] = Len(items) - 1 BY <2>1 DEF Exact, CountSound
  <2>3. nodecount' = Len(items') BY <1>2, <1>9, <2>1, <2>2
  <2>4. ~Counting(t)' BY <1>1, <2>1 DEF Counting, Uncounted
  <2>5. \A u \in Threads : ~Counting(u)' BY <1>3, <2>4
  <2>6. CountSound' BY <2>3, <2>5 DEF CountSound, Counting, Uncounted
  <2> QED BY <1>5, <1>6, <1>7, <2>6 DEF Exact
<1>11. CASE RemoveLoad(t)
  <2>1. /\ pc[t] = "removed" /\ pc' = [pc EXCEPT ![t] = "uncount"]
        /\ tmp' = [tmp EXCEPT ![t] = nodecount] /\ UNCHANGED nodecount
    BY <1>11 DEF RemoveLoad, Goto
  <2>2. nodecount' = Len(items') + 1 /\ tmp'[t] = nodecount'
    BY <1>1, <1>2, <2>1 DEF Exact, CountSound, Uncounted
  <2>3. pc'[t] = "uncount" BY <1>1, <2>1
  <2>4. CountSound' BY <1>3, <2>2, <2>3 DEF CountSound, Counting, Uncounted
  <2> QED BY <1>5, <1>6, <1>7, <2>4 DEF Exact
<1>12. CASE RemoveCount(t)
  <2>1. pc[t] = "uncount" /\ pc' = [pc EXCEPT ![t] = "idle"] /\ nodecount' = Less(tmp[t])
    BY <1>12 DEF RemoveCount, Goto
  <2>2. tmp[t] = Len(items) + 1 BY <2>1 DEF Exact, CountSound, Uncounted
  <2>3. nodecount' = Len(items') BY <1>2, <1>9, <2>1, <2>2 DEF Less
  <2>4. ~Counting(t)' BY <1>1, <2>1 DEF Counting, Uncounted
  <2>5. \A u \in Threads : ~Counting(u)' BY <1>3, <2>4
  <2>6. CountSound' BY <2>3, <2>5 DEF CountSound, Counting, Uncounted
  <2> QED BY <1>5, <1>6, <1>7, <2>6 DEF Exact
<1>13. CASE RemoveUnlock(t)
  <2>1. /\ pc[t] = "unlinked" /\ pc' = [pc EXCEPT ![t] = "removed"] /\ UNCHANGED nodecount
    BY <1>13 DEF RemoveUnlock, Goto
  <2>2. nodecount' = Len(items') + 1 BY <1>2, <2>1 DEF Exact, CountSound, Uncounted
  <2>3. pc'[t] = "removed" BY <1>1, <2>1
  <2>4. CountSound' BY <1>3, <2>2, <2>3 DEF CountSound, Counting, Uncounted
  <2> QED BY <1>5, <1>6, <1>7, <2>4 DEF Exact
<1> QED BY <1>10, <1>11, <1>12, <1>13

\* The four branches of slist_remove take the node at place i out of the chain.
LEMMA UnlinkTakesOut ==
  ASSUME SListAssumption, TypeOK, Spells(items), TailSound, Chain = items,
         nodecount = Len(items), NEW i \in 1 .. Len(items), Unlink(i),
         items' = Without(items, items[i]), UNCHANGED ops
  PROVE  Spells(items)' /\ TailSound'
<1> DEFINE n == Len(items)
           rover == items[i]
           prev == IF i = 1 THEN rover ELSE items[i - 1]
<1>1. /\ items \in Seq(Nodes) /\ n \in Nat /\ i \in Nat /\ n > 0 /\ None \notin Nodes
      /\ link \in [Nodes -> Nodes \cup {None}]
      /\ \A k \in 1 .. n : items[k] \in Nodes
      /\ \A j, k \in 1 .. n : items[j] = items[k] => j = k
      /\ \A k \in 1 .. n : link[items[k]] = IF k = n THEN None ELSE items[k + 1]
  <2>1. items \in Seq(Nodes) BY DEF TypeOK
  <2>2. n \in Nat /\ \A k \in 1 .. n : items[k] \in Nodes
    BY <2>1, LenProperties, ElementOfSeq
  <2> QED BY <2>1, <2>2 DEF TypeOK, Spells, Apiece, SListAssumption, NoneAssumption
<1>2. head = items[1] /\ ("sort" \notin Called => tail = items[n])
  <2>1. items # <<>> BY <1>1, EmptySeq
  <2> QED BY <2>1 DEF Spells, TailSound
<1>3. /\ items' \in Seq(Nodes) /\ Len(items') = n - 1 /\ Apiece(items')
      /\ \A k \in 1 .. n - 1 : items'[k] = IF k < i THEN items[k] ELSE items[k + 1]
  <2>1. items \in Seq(Nodes) /\ i \in 1 .. Len(items) /\ Apiece(items) BY <1>1 DEF Spells
  <2> DEFINE r == Without(items, items[i])
  <2>2. /\ r \in Seq(Nodes) /\ Len(r) = Len(items) - 1
        /\ \A k \in 1 .. Len(items) - 1 : r[k] = IF k < i THEN items[k] ELSE items[k + 1]
    BY <2>1, WithoutIs
  <2>3. Apiece(r) BY <2>1, TakenOut
  <2>4. items' = r OBVIOUS
  <2> HIDE DEF r
  <2> QED BY <2>2, <2>3, <2>4
<1>4. items' = <<>> <=> n = 1
  BY <1>1, <1>3, EmptySeq
<1>5. Called' = Called BY DEF Called
<1>6. rover \in Nodes /\ (link[rover] = None <=> i = n) /\ (head = rover <=> i = 1)
      /\ (i # n => i + 1 \in 1 .. n) /\ 1 \in 1 .. n /\ n \in 1 .. n
      /\ (i # 1 => prev = items[i - 1] /\ i - 1 \in 1 .. n)
      /\ (i # n => link[rover] = items[i + 1])
  <2>1. 1 \in 1 .. n /\ n \in 1 .. n /\ rover \in Nodes BY <1>1
  <2>2. head = rover <=> i = 1 BY <1>1, <1>2, <2>1
  <2>3. (i # n => i + 1 \in 1 .. n) /\ (i # 1 => i - 1 \in 1 .. n) BY <1>1
  <2>4. (i # n => link[rover] = items[i + 1]) /\ (i = n => link[rover] = None) BY <1>1
  <2>5. i # n => items[i + 1] # None BY <1>1, <2>3
  <2> QED BY <2>1, <2>2, <2>3, <2>4, <2>5
<1>7. /\ n = 1 => head' = None /\ tail' = None /\ UNCHANGED link
      /\ n # 1 /\ i = n => tail' = prev /\ link' = [link EXCEPT ![prev] = None] /\ UNCHANGED head
      /\ n # 1 /\ i # n /\ i = 1 => head' = link[rover] /\ UNCHANGED <<tail, link>>
      /\ n # 1 /\ i # n /\ i # 1 =>
            link' = [link EXCEPT ![prev] = link[rover]] /\ UNCHANGED <<head, tail>>
  <2> HIDE DEF n
  <2>1. nodecount = n BY DEF n
  <2> QED BY <1>6, <2>1 DEF Unlink
<1> HIDE DEF n, rover, prev
<1>8. CASE n = 1
  <2>1. items' = <<>> /\ head' = None /\ tail' = None BY <1>4, <1>7, <1>8
  <2>2. Spells(items)' BY <1>3, <1>8, <2>1 DEF Spells
  <2> QED BY <2>1, <2>2 DEF TailSound
<1>9. CASE n # 1
  <2>1. items' # <<>> /\ 1 \in 1 .. n - 1 /\ n - 1 \in 1 .. n - 1 BY <1>1, <1>4, <1>9
  <2>2. head' = items'[1]
    <3>1. CASE i = 1
      <4>1. i # n /\ ~(1 < i) BY <1>1, <1>9, <3>1
      <4>2. head' = items[1 + 1] BY <1>6, <1>7, <1>9, <3>1, <4>1
      <4> QED BY <1>3, <2>1, <4>1, <4>2
    <3>2. CASE i # 1
      <4>1. 1 < i BY <1>1, <3>2
      <4>2. head' = head BY <1>7, <1>9, <3>2
      <4> QED BY <1>2, <1>3, <2>1, <4>1, <4>2
    <3> QED BY <3>1, <3>2
  <2>3. "sort" \notin Called => tail' = items'[n - 1]
    <3> SUFFICES ASSUME "sort" \notin Called PROVE tail' = items'[n - 1]
      OBVIOUS
    <3>1. CASE i = n
      <4>1. n - 1 < i /\ i # 1 BY <1>1, <1>9, <3>1
      <4>2. tail' = items[n - 1] BY <1>6, <1>7, <1>9, <3>1, <4>1
      <4> QED BY <1>3, <2>1, <4>1, <4>2
    <3>2. CASE i # n
      <4>1. ~(n - 1 < i) /\ (n - 1) + 1 = n
        <5>1. i <= n BY DEF n
        <5> QED BY <1>1, <3>2, <5>1
      <4>2. tail' = tail BY <1>7, <1>9, <3>2
      <4> QED BY <1>2, <1>3, <2>1, <4>1, <4>2
    <3> QED BY <3>1, <3>2
  <2>4. \A k \in 1 .. n : link'[items[k]] =
              IF i # 1 /\ k = i - 1 THEN (IF i = n THEN None ELSE items[i + 1])
              ELSE link[items[k]]
    <3>1. CASE i = 1
      <4>1. UNCHANGED link BY <1>1, <1>6, <1>7, <1>9, <3>1
      <4> QED BY <3>1, <4>1
    <3>2. CASE i # 1
      <4>1. link' = [link EXCEPT ![items[i - 1]] = IF i = n THEN None ELSE items[i + 1]]
        <5>1. CASE i = n BY <1>6, <1>7, <1>9, <3>2, <5>1
        <5>2. CASE i # n BY <1>6, <1>7, <1>9, <3>2, <5>2
        <5> QED BY <5>1, <5>2
      <4>2. i - 1 \in 1 .. n /\ items[i - 1] \in Nodes BY <1>1, <1>6, <3>2
      <4>3. \A k \in 1 .. n : items[k] = items[i - 1] <=> k = i - 1 BY <1>1, <4>2
      <4> QED BY <1>1, <3>2, <4>1, <4>2, <4>3
    <3> QED BY <3>1, <3>2
  <2>5. ASSUME NEW k \in 1 .. n - 1
        PROVE  link'[items'[k]] = IF k = n - 1 THEN None ELSE items'[k + 1]
    <3>1. /\ k \in Nat /\ k \in 1 .. n /\ k + 1 \in 1 .. n /\ k # n
          /\ (k # n - 1 => k + 1 \in 1 .. n - 1)
          /\ (k + 1 = n <=> k = n - 1) /\ i <= n
      BY <1>1 DEF n
    <3>2. CASE k + 1 < i
      <4>1. k < i /\ k # i - 1 /\ k # n - 1 BY <1>1, <3>1, <3>2
      <4>2. items'[k] = items[k] /\ items'[k + 1] = items[k + 1] BY <1>3, <3>1, <3>2, <4>1
      <4>3. link'[items[k]] = items[k + 1] BY <1>1, <2>4, <3>1, <4>1
      <4> QED BY <4>1, <4>2, <4>3
    <3>3. CASE k + 1 = i
      <4>1. k < i /\ i # 1 /\ k = i - 1 /\ (k = n - 1 <=> i = n) BY <1>1, <3>1, <3>3
      <4>2. items'[k] = items[k] /\ (i # n => items'[k + 1] = items[i + 1])
        <5>1. ~(k + 1 < i) BY <3>1, <3>3
        <5>2. i # n => items'[k + 1] = items[(k + 1) + 1] BY <1>3, <3>1, <4>1, <5>1
        <5> QED BY <1>3, <3>3, <4>1, <5>2
      <4>3. link'[items[k]] = IF i = n THEN None ELSE items[i + 1]
        BY <2>4, <3>1, <4>1
      <4> QED BY <4>1, <4>2, <4>3
    <3>4. CASE k + 1 > i
      <4>1. ~(k < i) /\ k + 1 # i - 1 /\ ~(k + 1 < i) BY <1>1, <3>1, <3>4
      <4>2. /\ items'[k] = items[k + 1]
            /\ (k # n - 1 => items'[k + 1] = items[(k + 1) + 1])
        BY <1>3, <3>1, <4>1
      <4>3. link'[items[k + 1]] = IF k + 1 = n THEN None ELSE items[(k + 1) + 1]
        BY <1>1, <2>4, <3>1, <4>1
      <4> QED BY <3>1, <4>2, <4>3
    <3> QED BY <1>1, <3>1, <3>2, <3>3, <3>4
  <2>6. Spells(items)' BY <1>3, <2>1, <2>2, <2>5 DEF Spells, Apiece
  <2>7. TailSound' BY <1>3, <1>5, <2>1, <2>3 DEF TailSound
  <2> QED BY <2>6, <2>7
<1> QED BY <1>8, <1>9

\* Nobody else is in a call, and none is counting.
LEMMA Solo ==
  ASSUME SListAssumption, IInv, Exact, Apart, lock = None, NEW t \in Threads,
         pc[t] \in {"remove", "sort"}
  PROVE  /\ \A u \in Threads : ~Adding(u) /\ ~Counting(u)
         /\ \A u \in Threads \ {t} : pc[u] = "idle"
         /\ nodecount = Len(items) /\ Chain = items
         /\ used \subseteq Range(items) /\ Range(items) \subseteq used
<1>1. pc[t] \in ops[t] /\ pc[t] \in Others
  BY DEF IInv, CallsSound, Places, Inside, Uncounted, Others
<1>2. \A u \in Threads \ {t} : pc[u] = "idle" BY <1>1, Alone DEF IInv
<1>3. \A u \in Threads : ~Adding(u) /\ ~Counting(u)
  BY <1>2 DEF Adding, Counting, Uncounted
<1>4. nodecount = Len(items) BY <1>3 DEF Exact, CountSound
<1>5. Chain = items
  <2>1. LinksTyped /\ items \in Seq(Nodes) BY DEF IInv, TypeOK, LinksTyped
  <2> QED BY <2>1, ChainIs DEF Exact
<1>6. used \subseteq Range(items) BY <1>3 DEF Exact, InUse, IInv, TypeOK
<1>7. Range(items) \subseteq used
  <2>1. \A n \in Range(items) : n \in Nodes BY RangeOfSeq DEF IInv, TypeOK
  <2> QED BY <2>1 DEF Exact, InUse
<1> QED BY <1>2, <1>3, <1>4, <1>5, <1>6, <1>7

LEMMA StepRemove ==
  ASSUME SListAssumption, IInv, Exact, Apart, NEW t \in Threads, SListRemove(t)
  PROVE  Exact'
<1> DEFINE i == First(arg[t])
<1>1. /\ pc[t] = "remove" /\ pc' = [pc EXCEPT ![t] = "unlinked"] /\ lock = None
      /\ Matches(arg[t]) # {} /\ Unlink(i)
      /\ used' = used \ {Chain[i]} /\ items' = Without(items, Chain[i])
      /\ UNCHANGED <<nodecount, node, tmp, ops>>
  BY DEF SListRemove, Take
<1>2. /\ \A u \in Threads : ~Adding(u) /\ ~Counting(u)
      /\ \A u \in Threads \ {t} : pc[u] = "idle"
      /\ nodecount = Len(items) /\ Chain = items
      /\ used \subseteq Range(items) /\ Range(items) \subseteq used
  BY <1>1, Solo
<1>3. i \in 1 .. Len(items)
  <2>1. i \in 1 .. Len(Chain) BY <1>1, Found DEF IInv
  <2> QED BY <1>2, <2>1
<1>4. items' = Without(items, items[i]) /\ used' = used \ {items[i]} BY <1>1, <1>2
<1> HIDE DEF i
<1>5. /\ items \in Seq(Nodes) /\ Len(items) \in Nat
      /\ pc \in [Threads -> AllOps \cup Places]
  BY LenProperties DEF IInv, TypeOK
<1>6. Spells(items)' /\ TailSound'
  BY <1>1, <1>2, <1>3, <1>4, UnlinkTakesOut DEF IInv, Exact
<1>7. Len(items') = Len(items) - 1 /\ Range(items') = Range(items) \ {items[i]}
  BY <1>3, <1>4, <1>5, WithoutIs, TakenOut DEF Exact, Spells
<1>8. pc'[t] = "unlinked" /\ \A u \in Threads \ {t} : pc'[u] = "idle"
  BY <1>1, <1>2, <1>5
<1>9. \A u \in Threads : ~Adding(u)' BY <1>8 DEF Adding
<1>10. NewNodes' BY <1>9 DEF NewNodes
<1>11. InUse' BY <1>2, <1>4, <1>7, <1>9 DEF InUse
<1>12. CountSound'
  <2>1. nodecount' = Len(items') + 1 BY <1>1, <1>2, <1>5, <1>7
  <2>2. \A u \in Threads : u = t \/ pc'[u] = "idle" BY <1>8
  <2> QED BY <1>8, <2>1, <2>2 DEF CountSound, Counting, Uncounted
<1> QED BY <1>6, <1>10, <1>11, <1>12 DEF Exact

LEMMA StepSort ==
  ASSUME SListAssumption, IInv, Exact, Apart, NEW t \in Threads, SListSort(t)
  PROVE  Exact' /\ Chain = items /\ Sorted(items) /\ Len(items') = Len(items)
<1>1. /\ pc[t] = "sort" /\ pc' = [pc EXCEPT ![t] = "done"] /\ lock = None
      /\ link' = Linked(SortedChain)
      /\ head' = IF Chain = <<>> THEN None ELSE Head(SortedChain)
      /\ items' = SortInternal[items]
      /\ UNCHANGED <<tail, nodecount, node, tmp, used, ops>>
  BY DEF SListSort, Goto, Take
<1>2. /\ \A u \in Threads : ~Adding(u) /\ ~Counting(u)
      /\ \A u \in Threads \ {t} : pc[u] = "idle"
      /\ nodecount = Len(items) /\ Chain = items
      /\ used \subseteq Range(items) /\ Range(items) \subseteq used
  BY <1>1, Solo
<1>3. /\ items \in Seq(Nodes) /\ Apiece(items) /\ Len(items) \in Nat /\ LinksTyped
      /\ pc \in [Threads -> AllOps \cup Places]
  BY LenProperties DEF IInv, TypeOK, Exact, Spells, LinksTyped
<1>4. SortedChain = items' BY <1>1, <1>2 DEF SortedChain
<1>5. Sorted(items) /\ Len(items') = Len(items)
  BY <1>1, <1>3, SortSortsNodes DEF SListAssumption
<1>6. items' \in Seq(Nodes) /\ Apiece(items') /\ Range(items') = Range(items)
  BY <1>1, <1>5 DEF Sorted
<1>7. items' = <<>> <=> items = <<>> BY <1>3, <1>5, <1>6, EmptySeq
<1>8. head' = IF items' = <<>> THEN None ELSE items'[1]
  <2>1. items' # <<>> => Head(items') = items'[1] BY DEF Head
  <2> QED BY <1>1, <1>2, <1>4, <1>7, <2>1
<1>9. \A i \in 1 .. Len(items') :
         link'[items'[i]] = IF i = Len(items') THEN None ELSE items'[i + 1]
  BY <1>1, <1>3, <1>4, <1>6, LinkedIs
<1>10. Spells(items)' BY <1>6, <1>8, <1>9 DEF Spells, Apiece
<1>11. TailSound'
  <2>1. "sort" \in Called
    <3>1. "sort" \in ops[t] BY <1>1 DEF IInv, CallsSound, Places, Inside, Uncounted
    <3> QED BY <3>1, Calls DEF IInv
  <2>2. Called' = Called BY <1>1 DEF Called
  <2> QED BY <2>1, <2>2 DEF TailSound
<1>12. \A u \in Threads : pc'[u] \in {"idle", "done"} BY <1>1, <1>2, <1>3
<1>13. \A u \in Threads : ~Adding(u)' /\ ~Counting(u)'
  BY <1>12 DEF Adding, Counting, Uncounted
<1>14. NewNodes' BY <1>13 DEF NewNodes
<1>15. InUse' BY <1>1, <1>2, <1>6, <1>13 DEF InUse
<1>16. CountSound' BY <1>1, <1>2, <1>5, <1>13 DEF CountSound, Counting
<1> QED BY <1>2, <1>5, <1>10, <1>11, <1>14, <1>15, <1>16 DEF Exact

LEMMA StepInit == ASSUME SListAssumption, IInv, Exact, SListInit PROVE Exact'
<1>1. /\ \A u \in Threads : pc[u] = "idle"
      /\ used' = used \ Range(Chain) /\ head' = None /\ tail' = None /\ nodecount' = 0
      /\ items' = <<>> /\ UNCHANGED <<pc, node, ops>>
  BY DEF SListInit, Quiescent
<1>2. Chain = items
  <2>1. LinksTyped /\ items \in Seq(Nodes) BY DEF IInv, TypeOK, LinksTyped
  <2> QED BY <2>1, ChainIs DEF Exact
<1>3. \A u \in Threads : ~Adding(u) /\ ~Counting(u) /\ ~Adding(u)' /\ ~Counting(u)'
  BY <1>1 DEF Adding, Counting, Uncounted
<1>4. used' = {}
  <2>1. used \subseteq Range(items) BY <1>3 DEF Exact, InUse, IInv, TypeOK
  <2> QED BY <1>1, <1>2, <2>1
<1>5. Len(<<>>) = 0 /\ Range(<<>>) = {} BY EmptySeq DEF Range
<1>6. Spells(items)' /\ TailSound' BY <1>1, <1>5 DEF Spells, Apiece, TailSound
<1>7. NewNodes' /\ InUse' /\ CountSound'
  BY <1>1, <1>3, <1>4, <1>5 DEF NewNodes, InUse, CountSound, Counting
<1> QED BY <1>6, <1>7 DEF Exact

\* What a step leaves live was live, and clients keep to their programs.
LEMMA StepLive == ASSUME [Next]_vars, phase' = "live" PROVE ops' = ops /\ phase = "live"
<1>1. ASSUME NEW t \in Threads, CallAdd(t) \/ CallOther(t) PROVE ops' = ops /\ phase = "live"
  BY <1>1 DEF CallAdd, CallOther, Goto
<1>2. ASSUME NEW t \in Threads, Step(t) PROVE ops' = ops /\ phase = "live"
  BY <1>2 DEF Step, SListPrepend, SListAppend, AddCount, SListRemove, RemoveUnlock, RemoveLoad,
             RemoveCount, FindsAndReturns, FindsNothing, GoesRound, SListSort, SortOverflows,
             Return, Goto
<1>3. SListInit \/ SListFree \/ UNCHANGED vars => ops' = ops /\ phase = "live"
  BY DEF SListInit, SListFree, vars, Quiescent
<1> QED BY <1>1, <1>2, <1>3 DEF Next

LEMMA StepExact == ASSUME SListAssumption, IInv, [Next]_vars PROVE Healthy' => Exact'
<1> SUFFICES ASSUME Healthy' PROVE Exact'
  OBVIOUS
<1>1. ops' = ops /\ phase = "live" BY StepLive DEF Healthy
<1>2. Healthy BY <1>1 DEF Healthy, Orderly, Apart, Called
<1>3. Exact /\ Apart BY <1>2 DEF IInv, Healthy, Orderly
<1>4. pc \in [Threads -> AllOps \cup Places]
  BY DEF IInv, TypeOK
<1>5. ASSUME NEW t \in Threads, \/ CallOther(t) \/ FindsAndReturns(t) \/ FindsNothing(t)
                                \/ GoesRound(t) \/ Return(t)
      PROVE  Exact'
  <2>1. /\ UNCHANGED <<head, tail, nodecount, link, node, tmp, used, ops, items>>
        /\ \E a, b \in Others \cup {"idle", "done", "endless"} : Goto(t, a, b)
    BY <1>5 DEF CallOther, FindsAndReturns, FindsNothing, GoesRound, Return, Others
  <2>2. \A u \in Threads : /\ Adding(u)' <=> Adding(u)
                           /\ pc'[u] = pc[u] \/ (~Counting(u) /\ ~Counting(u)')
    BY <1>4, <2>1 DEF Goto, Adding, Counting, Uncounted, Others
  <2> QED BY <1>3, <2>1, <2>2, Untouched
<1>6. CASE UNCHANGED vars
  <2>1. UNCHANGED <<head, tail, nodecount, link, node, tmp, used, ops, items, pc>>
    BY <1>6 DEF vars
  <2>2. \A u \in Threads : (Adding(u)' <=> Adding(u)) /\ pc'[u] = pc[u]
    BY <2>1 DEF Adding
  <2> QED BY <1>3, <2>1, <2>2, Untouched
<1>7. ASSUME NEW t \in Threads, SListAppend(t) PROVE Exact'
  <2>1. "append" \in ops[t]
    BY <1>7 DEF SListAppend, Goto, IInv, CallsSound, Places, Inside, Uncounted
  <2>2. "append" \in Called BY <2>1, Calls DEF IInv
  <2>3. "sort" \notin Called BY <1>2, <2>2 DEF Healthy, Orderly
  <2> QED BY <1>3, <1>7, <2>3, StepAppend
<1>8. ~SListFree BY DEF SListFree, Healthy
<1>9. CASE SListInit BY <1>3, <1>9, StepInit
<1>10. ASSUME NEW t \in Threads, CallAdd(t) PROVE Exact' BY <1>3, <1>10, StepCallAdd
<1>11. ASSUME NEW t \in Threads, SListPrepend(t) PROVE Exact' BY <1>3, <1>11, StepPrepend
<1>12. ASSUME NEW t \in Threads,
              AddCount(t) \/ RemoveUnlock(t) \/ RemoveLoad(t) \/ RemoveCount(t)
       PROVE  Exact'
  BY <1>3, <1>12, StepCounts
<1>13. ASSUME NEW t \in Threads, SListRemove(t) PROVE Exact' BY <1>3, <1>13, StepRemove
<1>14. ASSUME NEW t \in Threads, SListSort(t) PROVE Exact' BY <1>3, <1>14, StepSort
<1>15. ASSUME NEW t \in Threads PROVE ~SortOverflows(t) BY DEF SortOverflows, Healthy
<1> QED BY <1>5, <1>6, <1>7, <1>8, <1>9, <1>10, <1>11, <1>12, <1>13, <1>14, <1>15
        DEF Next, Step

\* The chain a healthy client has built is shorter than the memory: it ends.
LEMMA StepWalks == ASSUME SListAssumption, IInv, [Next]_vars PROVE Healthy' => WalksEnd'
<1> SUFFICES ASSUME Healthy', NEW u \in Threads, pc'[u] = "endless" PROVE FALSE
  BY DEF WalksEnd
<1>1. ops' = ops /\ phase = "live" BY StepLive DEF Healthy
<1>2. Healthy BY <1>1 DEF Healthy, Orderly, Apart, Called
<1>3. Exact /\ WalksEnd /\ TypeOK BY <1>2 DEF IInv
<1>4. pc[u] # "endless" /\ pc \in [Threads -> AllOps \cup Places]
  BY <1>3 DEF WalksEnd, TypeOK
<1>5. Chain = items
  <2>1. LinksTyped /\ items \in Seq(Nodes) BY <1>3 DEF TypeOK, LinksTyped
  <2> QED BY <1>3, <2>1, ChainIs DEF Exact
<1>6. ~Endless
  <2>1. Len(items) <= Cardinality(Nodes)
    BY <1>3, LengthIsSize DEF Exact, Spells, TypeOK, SListAssumption, NodesAssumption
  <2>2. Len(items) \in Nat /\ Cardinality(Nodes) \in Nat
    BY <1>3, LenProperties, FS_CardinalityType
       DEF TypeOK, SListAssumption, NodesAssumption
  <2> QED BY <1>5, <2>1, <2>2 DEF Endless
<1>7. ASSUME NEW t \in Threads PROVE ~GoesRound(t) BY <1>6 DEF GoesRound
<1>8. pc'[u] = pc[u] \/ pc'[u] \in AllOps \cup (Places \ {"endless"})
  <2>1. ASSUME NEW t \in Threads, CallAdd(t) \/ CallOther(t) PROVE pc'[u] \in AllOps \/ pc'[u] = pc[u]
    BY <1>4, <2>1 DEF CallAdd, CallOther, Goto, AllOps
  <2>2. ASSUME NEW t \in Threads, Step(t)
        PROVE  pc'[u] = pc[u] \/ pc'[u] \in Places \ {"endless"}
    <3> USE DEF Goto, Places, Inside, Uncounted
    <3>1. CASE SListPrepend(t) \/ SListAppend(t) \/ AddCount(t)
      BY <1>4, <3>1 DEF SListPrepend, SListAppend, AddCount
    <3>2. CASE SListRemove(t) \/ RemoveUnlock(t) \/ RemoveLoad(t) \/ RemoveCount(t)
      BY <1>4, <3>2 DEF SListRemove, RemoveUnlock, RemoveLoad, RemoveCount
    <3>3. CASE \/ FindsAndReturns(t) \/ FindsNothing(t) \/ SListSort(t)
               \/ SortOverflows(t) \/ Return(t)
      BY <1>4, <3>3 DEF FindsAndReturns, FindsNothing, SListSort, SortOverflows, Return
    <3> QED BY <1>7, <2>2, <3>1, <3>2, <3>3 DEF Step
  <2>3. SListInit \/ SListFree \/ UNCHANGED vars => pc' = pc
    BY DEF SListInit, SListFree, vars
  <2> QED BY <2>1, <2>2, <2>3 DEF Next
<1> QED BY <1>4, <1>8 DEF AllOps
-----------------------------------------------------------------------------
LEMMA Invariance == ASSUME SListAssumption PROVE Spec => []IInv
<1>1. Init => IInv BY InitIInv
<1>2. IInv /\ [Next]_vars => IInv'
  <2> SUFFICES ASSUME IInv, [Next]_vars PROVE IInv'
    OBVIOUS
  <2>1. TypeOK' BY StepType
  <2>2. CallsSound' /\ LockSound' BY StepCalls
  <2>3. Healthy' => Exact' /\ WalksEnd' BY StepExact, StepWalks
  <2> QED BY <2>1, <2>2, <2>3 DEF IInv
<1> QED BY <1>1, <1>2, PTL DEF Spec

\* Every pointer is null or a node's, nodecount stays in its width, and a thread
\* is at a place of an operation.
THEOREM SListTypeCorrect == ASSUME SListAssumption PROVE Spec => []TypeOK
<1>1. IInv => TypeOK BY DEF IInv
<1> QED BY <1>1, Invariance, PTL

\* However adds, removes and sorts race, and whatever they do to the links: the spin
\* lock is held exactly from where a call takes it to where that call unlocks, or
\* for ever by a call that goes round a cycle.  No path of slist_append,
\* slist_prepend, slist_remove, slist_traverse or slist_sort returns with it.
THEOREM LockIsBalanced == ASSUME SListAssumption PROVE Spec => []LockBalanced
<1>1. IInv => LockBalanced BY DEF IInv, CallsSound, LockSound, LockBalanced
<1> QED BY <1>1, Invariance, PTL

ChainKept == Healthy => Chain = items

LEMMA ChainIsKept == ASSUME SListAssumption PROVE IInv => ChainKept
<1> SUFFICES ASSUME IInv, Healthy PROVE Chain = items
  BY DEF ChainKept
<1>1. LinksTyped /\ items \in Seq(Nodes) BY DEF IInv, TypeOK, LinksTyped
<1> QED BY <1>1, ChainIs DEF IInv, Exact

\* For clients whose calls do not meet, or only add, the links from head always
\* spell the nodes added and not removed, in order; tail is the last of them,
\* nodecount their number but for the calls that have yet to count, and nothing
\* leaks.
THEOREM ListIsExact == ASSUME SListAssumption PROVE Spec => []ListExact
<1>1. IInv => ListExact
  <2> SUFFICES ASSUME IInv, Healthy
               PROVE  /\ Chain = items
                      /\ "sort" \notin Called => tail = IF items = <<>> THEN None ELSE Last(items)
                      /\ nodecount = Len(items)
                            - Cardinality({t \in Threads : pc[t] = "added"})
                            + Cardinality({t \in Threads : pc[t] \in Uncounted})
                      /\ \A t \in Threads : pc[t] # "endless"
                      /\ Quiescent => used = Range(Chain)
    BY DEF ListExact, Healthy
  <2>1. /\ Exact /\ Apart /\ TypeOK /\ CallsSound
        /\ \A t \in Threads : pc[t] # "endless"
    BY DEF IInv, WalksEnd, Healthy, Orderly
  <2>2. Chain = items BY ChainIsKept DEF ChainKept
  <2>3. "sort" \notin Called => tail = IF items = <<>> THEN None ELSE Last(items)
    BY <2>1 DEF Exact, TailSound, Last
  <2>4. nodecount = Len(items) - Cardinality({t \in Threads : pc[t] = "added"})
                       + Cardinality({t \in Threads : pc[t] \in Uncounted})
    <3> DEFINE adds == {t \in Threads : pc[t] = "added"}
               removes == {t \in Threads : pc[t] \in Uncounted}
    <3>1. Len(items) \in Nat BY <2>1, LenProperties DEF TypeOK
    <3>2. CASE \A t \in Threads : ~Counting(t)
      <4>1. adds = {} /\ removes = {} BY <3>2 DEF Counting
      <4> HIDE DEF adds, removes
      <4>2. Cardinality(adds) = 0 /\ Cardinality(removes) = 0 BY <4>1, FS_EmptySet
      <4>3. nodecount = Len(items) BY <2>1, <3>2 DEF Exact, CountSound
      <4>4. nodecount = Len(items) - Cardinality(adds) + Cardinality(removes)
        BY <3>1, <4>2, <4>3
      <4> QED BY <4>4 DEF adds, removes
    <3>3. ASSUME NEW t \in Threads, Counting(t)
          PROVE  nodecount = Len(items) - Cardinality(adds) + Cardinality(removes)
      <4>1. \A u \in Threads : Counting(u) => u = t BY <2>1, <3>3, OneCounts
      <4>2. CASE pc[t] = "added"
        <5>1. adds = {t} /\ removes = {} BY <4>1, <4>2 DEF Counting, Uncounted
        <5>2. nodecount = Len(items) - 1 BY <2>1, <4>2 DEF Exact, CountSound
        <5> HIDE DEF adds, removes
        <5>3. Cardinality(adds) = 1 /\ Cardinality(removes) = 0
          BY <5>1, FS_EmptySet, FS_Singleton
        <5> QED BY <3>1, <5>2, <5>3
      <4>3. CASE pc[t] \in Uncounted
        <5>1. adds = {} /\ removes = {t} BY <4>1, <4>3 DEF Counting, Uncounted
        <5>2. nodecount = Len(items) + 1 BY <2>1, <4>3 DEF Exact, CountSound
        <5> HIDE DEF adds, removes
        <5>3. Cardinality(adds) = 0 /\ Cardinality(removes) = 1
          BY <5>1, FS_EmptySet, FS_Singleton
        <5> QED BY <3>1, <5>2, <5>3
      <4> QED BY <3>3, <4>2, <4>3 DEF Counting
    <3> QED BY <3>2, <3>3
  <2>5. Quiescent => used = Range(Chain)
    <3>1. Range(items) \subseteq Nodes BY <2>1, RangeOfSeq DEF TypeOK
    <3>2. Quiescent => \A t \in Threads : ~Adding(t) BY DEF Quiescent, Adding
    <3> QED BY <2>1, <2>2, <3>1, <3>2 DEF Exact, InUse, TypeOK
  <2> QED BY <2>1, <2>2, <2>3, <2>4, <2>5
<1> QED BY <1>1, Invariance, PTL

\* slist_sort leaves the same nodes in order of their data.
THEOREM SortIsRight == ASSUME SListAssumption PROVE Spec => SortSorts
<1> DEFINE Right == \A t \in Threads : SListSort(t) /\ Orderly =>
               /\ \A i, j \in 1 .. Len(Chain') : i < j => Key[Chain'[i]] <= Key[Chain'[j]]
               /\ Len(Chain') = Len(Chain) /\ Range(Chain') = Range(Chain)
<1>1. IInv /\ ChainKept' /\ [Next]_vars => [Right]_vars
  <2> SUFFICES ASSUME IInv, ChainKept', NEW t \in Threads, SListSort(t), Orderly
               PROVE  /\ \A i, j \in 1 .. Len(Chain') :
                            i < j => Key[Chain'[i]] <= Key[Chain'[j]]
                      /\ Len(Chain') = Len(Chain) /\ Range(Chain') = Range(Chain)
    OBVIOUS
  <2>1. phase = "live" /\ items' = SortInternal[items] /\ UNCHANGED <<phase, ops>>
    BY DEF SListSort, Goto
  <2>2. Healthy /\ Healthy' BY <2>1 DEF Healthy, Orderly, Apart, Called
  <2>3. Exact /\ Apart BY <2>2 DEF IInv, Healthy, Orderly
  <2>4. Chain = items /\ Sorted(items) /\ Len(items') = Len(items)
    BY <2>3, StepSort
  <2>5. Chain' = items' BY <2>2 DEF ChainKept
  <2> QED BY <2>1, <2>4, <2>5 DEF Sorted, Arranged
<1>2. IInv => ChainKept BY ChainIsKept
<1> HIDE DEF Right
<1>3. Spec => [][Right]_vars BY <1>1, <1>2, Invariance, PTL DEF Spec
<1> QED BY <1>3 DEF Right, SortSorts
=============================================================================
