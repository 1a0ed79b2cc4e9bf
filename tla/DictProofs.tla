----------------------------- MODULE DictProofs -----------------------------
(***************************************************************************)
(* Proofs about Dict, for any keys, values, hash function and sizes: the   *)
(* chains and the count stay exact, the table acts as a map, and an        *)
(* iteration mixed with deletes returns every entry once.                  *)
(***************************************************************************)
EXTENDS Dict, Ranking, SequenceTheorems

DictAssumption == /\ HashAssumption /\ SizeAssumption
                  /\ NoneAssumption /\ KeysAssumption

\* What a table of n buckets is to be, and what it holds.
Tables(n) == [0 .. n - 1 -> Seq(Keys)]
Apiece(chain) == \A x, y \in 1 .. Len(chain) : chain[x] = chain[y] => x = y
Placed(t, n) ==
    \A i \in 0 .. n - 1 :
        Apiece(t[i]) /\ \A x \in 1 .. Len(t[i]) : Bucket(t[i][x], n) = i
Content(t) == UNION {Range(t[i]) : i \in DOMAIN t}
-----------------------------------------------------------------------------
\* _dictNextPower gives a size a table can have, and one that is enough.
LEMMA Powers == ASSUME DictAssumption
                PROVE  /\ Sizes \subseteq Nat \ {0}
                       /\ \A n \in 0 .. MaxSize : /\ _dictNextPower(n) \in Sizes
                                                 /\ n <= _dictNextPower(n)
<1>1. InitialSize \in Nat \ {0} /\ MaxSize \in Nat /\ InitialSize <= MaxSize
  BY DEF DictAssumption, SizeAssumption
<1>2. MaxSize % MaxSize = 0 /\ MaxSize \in InitialSize .. MaxSize
  BY <1>1
<1>3. MaxSize \in Sizes /\ Sizes \subseteq Nat \ {0}
  BY <1>1, <1>2 DEF Sizes
<1>4. ASSUME NEW n \in 0 .. MaxSize
      PROVE  _dictNextPower(n) \in Sizes /\ n <= _dictNextPower(n)
  <2> DEFINE M == {p \in Sizes : p >= n}
  <2>1. M \in SUBSET Nat BY <1>3
  <2>2. \E m \in M : \A q \in M : m <= q
    <3>1. M # {} BY <1>1, <1>3
    <3> QED BY <2>1, <3>1, HasLeast
  <2>3. \E p \in Sizes : p >= n /\ \A q \in Sizes : q >= n => p <= q BY <2>2
  <2>4. _dictNextPower(n) \in Sizes /\ _dictNextPower(n) >= n
    BY <2>3 DEF _dictNextPower
  <2> QED BY <1>3, <2>4
<1> QED BY <1>3, <1>4

LEMMA Buckets == ASSUME DictAssumption, NEW n \in Nat \ {0}, NEW k \in Keys
                 PROVE  Bucket(k, n) \in 0 .. n - 1
<1>1. Hash[k] \in Nat BY DEF DictAssumption, HashAssumption
<1>2. \A h \in Nat : h % n \in 0 .. n - 1 OBVIOUS
<1> QED BY <1>1, <1>2 DEF Bucket
-----------------------------------------------------------------------------
\* The chains of a table and what is in them.
LEMMA Chains == ASSUME NEW n \in Nat, NEW t \in Tables(n), NEW i \in 0 .. n - 1
                PROVE  /\ t[i] \in Seq(Keys) /\ Len(t[i]) \in Nat
                       /\ DOMAIN t[i] = 1 .. Len(t[i])
                       /\ \A x \in 1 .. Len(t[i]) : t[i][x] \in Keys
                       /\ \A k : k \in Range(t[i]) <=> \E x \in 1 .. Len(t[i]) : t[i][x] = k
<1>1. t[i] \in Seq(Keys) BY DEF Tables
<1>2. /\ Len(t[i]) \in Nat /\ DOMAIN t[i] = 1 .. Len(t[i])
      /\ \A x \in 1 .. Len(t[i]) : t[i][x] \in Keys
  BY <1>1, LenProperties, ElementOfSeq
<1>3. \A k : k \in Range(t[i]) <=> \E x \in 1 .. Len(t[i]) : t[i][x] = k
  BY <1>2 DEF Range
<1> QED BY <1>1, <1>2, <1>3

LEMMA Contents == ASSUME NEW n \in Nat, NEW t \in Tables(n)
                  PROVE  /\ Content(t) \subseteq Keys
                         /\ \A k : k \in Content(t) <=>
                               \E i \in 0 .. n - 1 : \E x \in 1 .. Len(t[i]) : t[i][x] = k
<1>1. DOMAIN t = 0 .. n - 1 BY DEF Tables
<1>2. \A k : k \in Content(t) <=> \E i \in 0 .. n - 1 : k \in Range(t[i])
  BY <1>1 DEF Content
<1>3. \A i \in 0 .. n - 1 : \A k :
         k \in Range(t[i]) <=> \E x \in 1 .. Len(t[i]) : t[i][x] = k
  BY Chains
<1>4. \A i \in 0 .. n - 1 : \A x \in 1 .. Len(t[i]) : t[i][x] \in Keys
  BY Chains
<1>5. \A k : k \in Content(t) <=> \E i \in 0 .. n - 1 : \E x \in 1 .. Len(t[i]) : t[i][x] = k
  BY <1>2, <1>3
<1>6. ASSUME NEW k \in Content(t) PROVE k \in Keys
  <2>1. PICK i \in 0 .. n - 1 : \E x \in 1 .. Len(t[i]) : t[i][x] = k BY <1>5
  <2> QED BY <1>4, <2>1
<1> QED BY <1>5, <1>6

\* A key is found in the bucket its hash calls for, if it is in the table at all.
LEMMA Lookup == ASSUME NEW n \in Nat, NEW t \in Tables(n), Placed(t, n), NEW k \in Content(t)
                PROVE  /\ Bucket(k, n) \in 0 .. n - 1
                       /\ \E x \in 1 .. Len(t[Bucket(k, n)]) : t[Bucket(k, n)][x] = k
<1>1. PICK i \in 0 .. n - 1, x \in Nat : x \in 1 .. Len(t[i]) /\ t[i][x] = k
  BY Contents
<1>2. Bucket(k, n) = i BY <1>1 DEF Placed
<1> QED BY <1>1, <1>2

\* An entry pushed to the front of its bucket.
PushTo(t, n, k) == [t EXCEPT ![Bucket(k, n)] = <<k>> \o @]
LEMMA Pushed ==
  ASSUME DictAssumption, NEW n \in Nat \ {0}, NEW t \in Tables(n), Placed(t, n),
         NEW k \in Keys, k \notin Content(t)
  PROVE  /\ PushTo(t, n, k) \in Tables(n) /\ Placed(PushTo(t, n, k), n)
         /\ Content(PushTo(t, n, k)) = Content(t) \cup {k}
<1> DEFINE b == Bucket(k, n)
           c == <<k>> \o t[b]
           u == [t EXCEPT ![b] = c]
<1>1. b \in 0 .. n - 1 BY Buckets
<1>2. t[b] \in Seq(Keys) /\ Len(t[b]) \in Nat BY <1>1, Chains
<1>3. <<k>> \in Seq(Keys) /\ Len(<<k>>) = 1 /\ <<k>>[1] = k OBVIOUS
<1>4. /\ c \in Seq(Keys) /\ Len(c) = 1 + Len(t[b]) /\ c[1] = k
      /\ \A x \in 1 .. Len(t[b]) : c[x + 1] = t[b][x]
  <2> HIDE DEF b
  <2>1. /\ c \in Seq(Keys) /\ Len(c) = 1 + Len(t[b])
        /\ \A x \in 1 .. 1 + Len(t[b]) :
              c[x] = IF x <= 1 THEN <<k>>[x] ELSE t[b][x - 1]
    BY <1>2, <1>3, ConcatProperties
  <2> HIDE DEF c
  <2>2. c[1] = k BY <1>2, <1>3, <2>1
  <2>3. ASSUME NEW x \in 1 .. Len(t[b]) PROVE c[x + 1] = t[b][x]
    <3>1. x + 1 \in 1 .. 1 + Len(t[b]) /\ ~(x + 1 <= 1) /\ (x + 1) - 1 = x BY <1>2
    <3> QED BY <2>1, <3>1
  <2> QED BY <2>1, <2>2, <2>3
<1>5. \A x \in 1 .. Len(c) : x = 1 \/ \E y \in 1 .. Len(t[b]) : x = y + 1
  <2>1. ASSUME NEW x \in 1 .. 1 + Len(t[b]), x # 1
        PROVE  x - 1 \in 1 .. Len(t[b]) /\ x = (x - 1) + 1
    BY <1>2, <2>1
  <2> HIDE DEF c
  <2> QED BY <1>4, <2>1
<1>6. /\ u \in Tables(n) /\ u[b] = c /\ \A i \in 0 .. n - 1 : i # b => u[i] = t[i]
  <2> HIDE DEF c, b
  <2>1. c \in Seq(Keys) BY <1>4
  <2> QED BY <1>1, <2>1 DEF Tables
<1> HIDE DEF u, c
<1>7. ASSUME NEW x \in 1 .. Len(t[b]) PROVE t[b][x] # k
  BY <1>1, Contents, <1>7
<1>8. Placed(u, n)
  <2>1. Apiece(t[b]) /\ \A x \in 1 .. Len(t[b]) : Bucket(t[b][x], n) = b
    BY <1>1 DEF Placed
  <2>2. Apiece(c)
    <3> SUFFICES ASSUME NEW x \in 1 .. Len(c), NEW y \in 1 .. Len(c), c[x] = c[y]
                 PROVE  x = y
      BY DEF Apiece
    <3>1. CASE x = 1
      <4>1. ASSUME NEW z \in 1 .. Len(t[b]), y = z + 1 PROVE FALSE
        BY <1>4, <1>7, <3>1, <4>1
      <4> QED BY <1>5, <3>1, <4>1
    <3>2. CASE y = 1
      <4>1. ASSUME NEW z \in 1 .. Len(t[b]), x = z + 1 PROVE FALSE
        BY <1>4, <1>7, <3>2, <4>1
      <4> QED BY <1>5, <3>2, <4>1
    <3>3. CASE x # 1 /\ y # 1
      <4>1. PICK v \in 1 .. Len(t[b]) : x = v + 1 BY <1>5, <3>3
      <4>2. PICK w \in 1 .. Len(t[b]) : y = w + 1 BY <1>5, <3>3
      <4>3. t[b][v] = t[b][w] BY <1>4, <4>1, <4>2
      <4> QED BY <2>1, <4>1, <4>2, <4>3 DEF Apiece
    <3> QED BY <3>1, <3>2, <3>3
  <2>3. \A x \in 1 .. Len(c) : Bucket(c[x], n) = b
    BY <1>4, <1>5, <2>1
  <2>4. ASSUME NEW i \in 0 .. n - 1
        PROVE  Apiece(u[i]) /\ \A x \in 1 .. Len(u[i]) : Bucket(u[i][x], n) = i
    <3>1. CASE i = b BY <1>6, <2>2, <2>3, <3>1
    <3>2. CASE i # b
      <4>1. u[i] = t[i] BY <1>6, <3>2
      <4>2. Apiece(t[i]) /\ \A x \in 1 .. Len(t[i]) : Bucket(t[i][x], n) = i
        BY DEF Placed
      <4> QED BY <4>1, <4>2
    <3> QED BY <3>1, <3>2
  <2> QED BY <2>4 DEF Placed
<1>9. Content(u) = Content(t) \cup {k}
  <2>1. ASSUME NEW j \in Content(u) PROVE j \in Content(t) \cup {k}
    <3>1. PICK i \in 0 .. n - 1, x \in Nat : x \in 1 .. Len(u[i]) /\ u[i][x] = j
      BY <1>6, Contents
    <3>2. CASE i = b
      <4>1. x \in 1 .. Len(c) /\ c[x] = j BY <1>6, <3>1, <3>2
      <4>2. x = 1 \/ \E y \in 1 .. Len(t[b]) : x = y + 1 BY <1>5, <4>1
      <4>3. j = k \/ \E y \in 1 .. Len(t[b]) : t[b][y] = j BY <1>4, <4>1, <4>2
      <4> QED BY <1>1, <4>3, Contents
    <3>3. CASE i # b
      <4>1. u[i] = t[i] BY <1>6, <3>3
      <4> QED BY <3>1, <4>1, Contents
    <3> QED BY <3>2, <3>3
  <2>2. ASSUME NEW j \in Content(t) PROVE j \in Content(u)
    <3>1. PICK i \in 0 .. n - 1, x \in Nat : x \in 1 .. Len(t[i]) /\ t[i][x] = j
      BY Contents
    <3>2. CASE i = b
      <4>1. x + 1 \in 1 .. Len(c) /\ c[x + 1] = j
        <5>1. x + 1 \in 1 .. 1 + Len(t[b]) BY <1>2, <3>1, <3>2
        <5> QED BY <1>4, <3>1, <3>2, <5>1
      <4>2. x + 1 \in 1 .. Len(u[b]) /\ u[b][x + 1] = j BY <1>6, <4>1
      <4> QED BY <1>1, <1>6, <4>2, Contents
    <3>3. CASE i # b
      <4>1. u[i] = t[i] BY <1>6, <3>3
      <4> QED BY <1>6, <3>1, <4>1, Contents
    <3> QED BY <3>2, <3>3
  <2>3. k \in Content(u)
    <3>1. 1 \in 1 .. Len(u[b]) /\ u[b][1] = k BY <1>2, <1>4, <1>6
    <3> QED BY <1>1, <1>6, <3>1, Contents
  <2> QED BY <2>1, <2>2, <2>3
<1> QED BY <1>6, <1>8, <1>9 DEF u, c, PushTo
-----------------------------------------------------------------------------
\* A chain whose entry at place i is unlinked.
LEMMA WithoutIs ==
  ASSUME NEW s \in Seq(Keys), NEW i \in 1 .. Len(s), Apiece(s)
  PROVE  /\ Without(s, s[i]) \in Seq(Keys)
         /\ Len(Without(s, s[i])) = Len(s) - 1
         /\ \A x \in 1 .. Len(s) - 1 :
               Without(s, s[i])[x] = IF x < i THEN s[x] ELSE s[x + 1]
<1> DEFINE a == SubSeq(s, 1, i - 1)
           b == SubSeq(s, i + 1, Len(s))
<1>1. Len(s) \in Nat /\ i \in Nat /\ \A x \in 1 .. Len(s) : s[x] \in Keys
  BY LenProperties, ElementOfSeq
<1>2. Without(s, s[i]) = a \o b
  <2>1. DOMAIN s = 1 .. Len(s) BY LenProperties
  <2>2. (CHOOSE x \in 1 .. Len(s) : s[x] = s[i]) = i
    <3>1. \A x \in 1 .. Len(s) : s[x] = s[i] => x = i BY DEF Apiece
    <3> QED BY <3>1
  <2> QED BY <2>1, <2>2 DEF Without, RemoveAt
<1>3. /\ a \in Seq(Keys) /\ Len(a) = i - 1
      /\ \A x \in 1 .. i - 1 : a[x] = s[x]
  <2>1. a \in Seq(Keys) /\ Len(a) = i - 1 BY <1>1, SubSeqProperties
  <2>2. \A x \in 1 .. i - 1 : a[x] = s[1 + x - 1] BY <1>1, SubSeqProperties
  <2>3. \A x \in 1 .. i - 1 : 1 + x - 1 = x OBVIOUS
  <2> QED BY <2>1, <2>2, <2>3
<1>4. /\ b \in Seq(Keys) /\ Len(b) = Len(s) - i
      /\ \A x \in 1 .. Len(s) - i : b[x] = s[i + x]
  <2>1. b \in Seq(Keys) /\ Len(b) = Len(s) - i BY <1>1, SubSeqProperties
  <2>2. \A x \in 1 .. Len(s) - i : b[x] = s[(i + 1) + x - 1] BY <1>1, SubSeqProperties
  <2>3. \A x \in 1 .. Len(s) - i : (i + 1) + x - 1 = i + x BY <1>1
  <2> QED BY <2>1, <2>2, <2>3
<1> HIDE DEF a, b
<1>5. /\ a \o b \in Seq(Keys) /\ Len(a \o b) = Len(a) + Len(b)
      /\ \A x \in 1 .. Len(a) + Len(b) :
            (a \o b)[x] = IF x <= Len(a) THEN a[x] ELSE b[x - Len(a)]
  BY <1>3, <1>4, ConcatProperties
<1>6. Len(a) + Len(b) = Len(s) - 1 BY <1>1, <1>3, <1>4
<1>7. ASSUME NEW x \in 1 .. Len(s) - 1
      PROVE  (a \o b)[x] = IF x < i THEN s[x] ELSE s[x + 1]
  <2>1. CASE x < i
    <3>1. x \in 1 .. i - 1 /\ x <= Len(a) /\ x \in 1 .. Len(a) + Len(b)
      BY <1>1, <1>3, <1>6, <2>1
    <3> QED BY <1>3, <1>5, <2>1, <3>1
  <2>2. CASE ~(x < i)
    <3>1. /\ ~(x <= Len(a)) /\ x \in 1 .. Len(a) + Len(b)
          /\ x - Len(a) \in 1 .. Len(s) - i /\ i + (x - Len(a)) = x + 1
      BY <1>1, <1>3, <1>6, <2>2
    <3> QED BY <1>4, <1>5, <2>2, <3>1
  <2> QED BY <2>1, <2>2
<1> QED BY <1>2, <1>5, <1>6, <1>7

\* The same said of what is in the chain.
LEMMA WithoutHas ==
  ASSUME NEW s \in Seq(Keys), NEW i \in 1 .. Len(s), Apiece(s)
  PROVE  LET c == Without(s, s[i])
         IN  /\ Apiece(c)
             /\ \A x \in 1 .. Len(c) : \E y \in 1 .. Len(s) : y # i /\ c[x] = s[y]
             /\ \A y \in 1 .. Len(s) : y # i => \E x \in 1 .. Len(c) : c[x] = s[y]
<1> DEFINE c == Without(s, s[i])
           from(x) == IF x < i THEN x ELSE x + 1
<1>1. /\ Len(s) \in Nat /\ Len(c) = Len(s) - 1
      /\ \A x \in 1 .. Len(s) - 1 : c[x] = IF x < i THEN s[x] ELSE s[x + 1]
  BY WithoutIs, LenProperties
<1> HIDE DEF c
<1>2. \A x \in 1 .. Len(s) - 1 : from(x) \in 1 .. Len(s) /\ from(x) # i /\ c[x] = s[from(x)]
  BY <1>1
<1>3. \A x, y \in 1 .. Len(s) - 1 : from(x) = from(y) => x = y
  BY <1>1
<1>4. \A y \in 1 .. Len(s) : y # i => \E x \in 1 .. Len(s) - 1 : from(x) = y
  <2> SUFFICES ASSUME NEW y \in 1 .. Len(s), y # i
               PROVE  \E x \in 1 .. Len(s) - 1 : from(x) = y
    OBVIOUS
  <2>1. CASE y < i
    <3>1. y \in 1 .. Len(s) - 1 /\ from(y) = y BY <1>1, <2>1
    <3> QED BY <3>1
  <2>2. CASE y > i
    <3>1. y - 1 \in 1 .. Len(s) - 1 /\ from(y - 1) = y BY <1>1, <2>2
    <3> HIDE DEF from
    <3> QED BY <3>1
  <2> QED BY <1>1, <2>1, <2>2
<1> HIDE DEF from
<1>5. Apiece(c)
  <2> SUFFICES ASSUME NEW x \in 1 .. Len(s) - 1, NEW y \in 1 .. Len(s) - 1, c[x] = c[y]
               PROVE  x = y
    BY <1>1 DEF Apiece
  <2>1. from(x) = from(y) BY <1>2 DEF Apiece
  <2> QED BY <1>3, <2>1
<1> QED BY <1>1, <1>2, <1>4, <1>5 DEF c

\* An entry unlinked from its bucket.
LEMMA Unlinked ==
  ASSUME NEW n \in Nat \ {0}, NEW t \in Tables(n), Placed(t, n), NEW k \in Content(t)
  PROVE  LET u == [t EXCEPT ![Bucket(k, n)] = Without(@, k)]
         IN  u \in Tables(n) /\ Placed(u, n) /\ Content(u) = Content(t) \ {k}
<1> DEFINE b == Bucket(k, n)
           c == Without(t[b], k)
           u == [t EXCEPT ![b] = c]
<1>1. PICK p \in 1 .. Len(t[b]) : t[b][p] = k /\ b \in 0 .. n - 1
  BY Lookup
<1>2. /\ t[b] \in Seq(Keys) /\ Apiece(t[b])
      /\ \A x \in 1 .. Len(t[b]) : Bucket(t[b][x], n) = b
  BY <1>1, Chains DEF Placed
<1> HIDE DEF b
<1>3. /\ c \in Seq(Keys) /\ Apiece(c)
      /\ \A x \in 1 .. Len(c) : \E y \in 1 .. Len(t[b]) : y # p /\ c[x] = t[b][y]
      /\ \A y \in 1 .. Len(t[b]) : y # p => \E x \in 1 .. Len(c) : c[x] = t[b][y]
  <2> DEFINE s == t[b]
  <2>1. p \in 1 .. Len(s) /\ s[p] = k /\ s \in Seq(Keys) /\ Apiece(s) BY <1>1, <1>2
  <2> HIDE DEF s
  <2>2. Without(s, s[p]) \in Seq(Keys) BY <2>1, WithoutIs
  <2>3. /\ Apiece(Without(s, s[p]))
        /\ \A x \in 1 .. Len(Without(s, s[p])) :
              \E y \in 1 .. Len(s) : y # p /\ Without(s, s[p])[x] = s[y]
        /\ \A y \in 1 .. Len(s) :
              y # p => \E x \in 1 .. Len(Without(s, s[p])) : Without(s, s[p])[x] = s[y]
    BY <2>1, WithoutHas
  <2>4. Without(s, s[p]) = c BY <2>1 DEF s
  <2> HIDE DEF c
  <2>5. c \in Seq(Keys) BY <2>2, <2>4
  <2> QED BY <2>3, <2>4, <2>5 DEF s
<1> HIDE DEF c
<1>4. /\ u \in Tables(n) /\ u[b] = c /\ \A i \in 0 .. n - 1 : i # b => u[i] = t[i]
  BY <1>1, <1>3 DEF Tables
<1> HIDE DEF u
<1>5. Placed(u, n)
  <2>1. \A x \in 1 .. Len(c) : Bucket(c[x], n) = b BY <1>2, <1>3
  <2>2. ASSUME NEW i \in 0 .. n - 1
        PROVE  Apiece(u[i]) /\ \A x \in 1 .. Len(u[i]) : Bucket(u[i][x], n) = i
    <3>1. CASE i = b BY <1>3, <1>4, <2>1, <3>1
    <3>2. CASE i # b
      <4>1. u[i] = t[i] BY <1>4, <3>2
      <4>2. Apiece(t[i]) /\ \A x \in 1 .. Len(t[i]) : Bucket(t[i][x], n) = i
        BY DEF Placed
      <4> QED BY <4>1, <4>2
    <3> QED BY <3>1, <3>2
  <2> QED BY <2>2 DEF Placed
<1>6. Content(u) = Content(t) \ {k}
  <2>1. ASSUME NEW j \in Content(u) PROVE j \in Content(t) /\ j # k
    <3>1. PICK i \in 0 .. n - 1, x \in Nat : x \in 1 .. Len(u[i]) /\ u[i][x] = j
      BY <1>4, Contents
    <3>2. CASE i = b
      <4>1. x \in 1 .. Len(c) /\ c[x] = j BY <1>4, <3>1, <3>2
      <4>2. PICK y \in 1 .. Len(t[b]) : y # p /\ t[b][y] = j BY <1>3, <4>1
      <4>3. j # k BY <1>1, <1>2, <4>2 DEF Apiece
      <4> QED BY <1>1, <4>2, <4>3, Contents
    <3>3. CASE i # b
      <4>1. u[i] = t[i] BY <1>4, <3>3
      <4>2. Bucket(j, n) = i BY <3>1, <4>1 DEF Placed
      <4>3. j # k BY <3>3, <4>2 DEF b
      <4> QED BY <3>1, <4>1, <4>3, Contents
    <3> QED BY <3>2, <3>3
  <2>2. ASSUME NEW j \in Content(t), j # k PROVE j \in Content(u)
    <3>1. PICK i \in 0 .. n - 1, x \in Nat : x \in 1 .. Len(t[i]) /\ t[i][x] = j
      BY Contents
    <3>2. CASE i = b
      <4>1. x \in 1 .. Len(t[b]) /\ t[b][x] = j /\ x # p BY <1>1, <2>2, <3>1, <3>2
      <4>2. \E y \in 1 .. Len(u[b]) : u[b][y] = j BY <1>3, <1>4, <4>1
      <4> QED BY <1>1, <1>4, <4>2, Contents
    <3>3. CASE i # b
      <4>1. u[i] = t[i] BY <1>4, <3>3
      <4> QED BY <1>4, <3>1, <4>1, Contents
    <3> QED BY <3>2, <3>3
  <2> QED BY <2>1, <2>2
<1> QED BY <1>4, <1>5, <1>6 DEF u, c, b
-----------------------------------------------------------------------------
\* The places of a table and the keys there.
Kept == size \in Nat /\ table \in Tables(size) /\ Placed(table, size)

LEMMA PlacesAre ==
  ASSUME Kept
  PROVE  /\ \A p \in Places : /\ p[1] \in 0 .. size - 1 /\ p[2] \in 1 .. Len(table[p[1]])
                              /\ p = <<p[1], p[2]>> /\ p[1] \in Nat /\ p[2] \in Nat
                              /\ At(p) \in Held
         /\ \A k \in Held : \E p \in Places : At(p) = k
         /\ \A p, q \in Places : At(p) = At(q) => p = q
         /\ Held \subseteq Keys
<1> USE DEF Kept
<1>0. Held = Content(table) BY DEF Held, Content
<1>1. DOMAIN table = 0 .. size - 1 BY DEF Tables
<1>2. ASSUME NEW p \in Places
      PROVE  /\ p[1] \in 0 .. size - 1 /\ p[2] \in 1 .. Len(table[p[1]])
             /\ p = <<p[1], p[2]>> /\ p[1] \in Nat /\ p[2] \in Nat
             /\ At(p) \in Held
  <2>1. PICK i \in 0 .. size - 1 : p \in {i} \X (1 .. Len(table[i]))
    BY <1>1 DEF Places
  <2>2. p[1] = i /\ p[2] \in 1 .. Len(table[i]) /\ p = <<p[1], p[2]>> BY <2>1
  <2>3. At(p) \in Held BY <1>0, <2>2, Contents DEF At
  <2> QED BY <2>2, <2>3
<1>3. ASSUME NEW k \in Held PROVE \E p \in Places : At(p) = k
  <2>1. PICK i \in 0 .. size - 1, x \in Nat : x \in 1 .. Len(table[i]) /\ table[i][x] = k
    BY <1>0, Contents
  <2>2. <<i, x>> \in Places BY <1>1, <2>1 DEF Places
  <2>3. At(<<i, x>>) = k BY <2>1 DEF At
  <2> QED BY <2>2, <2>3
<1>4. ASSUME NEW p \in Places, NEW q \in Places, At(p) = At(q) PROVE p = q
  <2>1. Bucket(At(p), size) = p[1] /\ Bucket(At(q), size) = q[1]
    BY <1>2 DEF At, Placed
  <2>2. p[1] = q[1] BY <1>4, <2>1
  <2>3. Apiece(table[p[1]]) BY <1>2 DEF Placed
  <2>4. p[2] = q[2] BY <1>2, <1>4, <2>2, <2>3 DEF At, Apiece
  <2> QED BY <1>2, <2>2, <2>4
<1>5. Held \subseteq Keys BY <1>0, Contents
<1> QED BY <1>2, <1>3, <1>4, <1>5

\* Backward takes the key of each of the places once.
LEMMA BackwardIs ==
  ASSUME DictAssumption, Kept, NEW places \in SUBSET Places
  PROVE  /\ Backward(places) \in Seq(Keys)
         /\ Apiece(Backward(places))
         /\ \A k : (\E x \in 1 .. Len(Backward(places)) : Backward(places)[x] = k)
                   <=> \E p \in places : At(p) = k
<1> DEFINE from == [p \in places |-> {q \in places : NotBefore(q, p)}]
           n == Cardinality(places)
           at(x) == CHOOSE p \in places : Cardinality({q \in places : NotBefore(q, p)}) = x
           b == Backward(places)
<1>1. IsFiniteSet(places)
  <2> DEFINE key == [p \in places |-> At(p)]
  <2>1. key \in Injection(places, Keys)
    <3>1. \A p \in places : At(p) \in Keys BY PlacesAre
    <3>2. \A p, q \in places : At(p) = At(q) => p = q BY PlacesAre
    <3>3. key \in [places -> Keys] BY <3>1
    <3>4. \A p, q \in places : key[p] = key[q] => p = q BY <3>2
    <3> HIDE DEF key
    <3> QED BY <3>3, <3>4 DEF Injection, IsInjective
  <2> HIDE DEF key
  <2> QED BY <2>1, FS_Injection DEF DictAssumption, KeysAssumption
<1>2. Nested(places, from)
  <2>1. \A p \in places : p[1] \in Nat /\ p[2] \in Nat /\ p = <<p[1], p[2]>>
    BY PlacesAre
  <2>2. \A p \in places : from[p] \in SUBSET places /\ p \in from[p]
    BY <2>1 DEF NotBefore
  <2>3. ASSUME NEW p \in places, NEW q \in places, ~NotBefore(p, q)
        PROVE  from[q] \subseteq from[p] \ {p}
    <3>1. \A r \in places : NotBefore(r, q) => NotBefore(r, p) /\ r # p
      <4> SUFFICES ASSUME NEW r \in places, NotBefore(r, q) PROVE NotBefore(r, p) /\ r # p
        OBVIOUS
      <4>1. r # p BY <2>3
      <4>2. /\ p[1] \in Nat /\ p[2] \in Nat /\ q[1] \in Nat /\ q[2] \in Nat
            /\ r[1] \in Nat /\ r[2] \in Nat
        BY <2>1
      <4> QED BY <2>3, <4>1, <4>2 DEF NotBefore
    <3> QED BY <3>1
  <2>4. ASSUME NEW p \in places, NEW q \in places, p # q
        PROVE  ~NotBefore(p, q) \/ ~NotBefore(q, p)
    BY <2>1, <2>4 DEF NotBefore
  <2> HIDE DEF from
  <2> QED BY <2>2, <2>3, <2>4 DEF Nested
<1>3. b = [x \in 1 .. n |-> At(at(x))] BY DEF Backward
<1>0. \A p \in places : from[p] = {q \in places : NotBefore(q, p)} OBVIOUS
<1> HIDE DEF from, b
<1>4. Ranked(places, from) BY <1>1, <1>2, NestedRanks
<1>5. /\ n \in Nat
      /\ \A p \in places : Cardinality(from[p]) \in 1 .. n
      /\ \A p, q \in places : Cardinality(from[p]) = Cardinality(from[q]) => p = q
      /\ \A x \in 1 .. n : \E p \in places : Cardinality(from[p]) = x
  BY <1>4, Zenon DEF Ranked
<1>6. \A x \in 1 .. n : at(x) \in places /\ Cardinality(from[at(x)]) = x
  <2> SUFFICES ASSUME NEW x \in 1 .. n
               PROVE  at(x) \in places /\ Cardinality(from[at(x)]) = x
    OBVIOUS
  <2>1. \E p \in places : Cardinality({q \in places : NotBefore(q, p)}) = x
    BY <1>5, <1>0
  <2>2. at(x) \in places /\ Cardinality({q \in places : NotBefore(q, at(x))}) = x
    BY <2>1
  <2> QED BY <1>0, <2>2
<1>7. \A p \in places : at(Cardinality(from[p])) = p
  BY <1>5, <1>6
<1> HIDE DEF at, n
<1>8. \A x \in 1 .. n : b[x] = At(at(x)) /\ at(x) \in Places /\ At(at(x)) \in Keys
  BY <1>3, <1>6, PlacesAre
<1>9. b \in Seq(Keys) /\ Len(b) = n
  <2>1. b \in [1 .. n -> Keys] BY <1>3, <1>8
  <2> QED BY <1>5, <2>1
<1>10. Apiece(b)
  <2> SUFFICES ASSUME NEW x \in 1 .. n, NEW y \in 1 .. n, b[x] = b[y] PROVE x = y
    BY <1>9 DEF Apiece
  <2>1. at(x) = at(y) BY <1>8, PlacesAre
  <2> QED BY <1>6, <2>1
<1>11. ASSUME NEW k PROVE (\E x \in 1 .. n : b[x] = k) <=> \E p \in places : At(p) = k
  <2>1. ASSUME NEW x \in 1 .. n, b[x] = k PROVE \E p \in places : At(p) = k
    BY <1>6, <1>8, <2>1
  <2>2. ASSUME NEW p \in places, At(p) = k PROVE \E x \in 1 .. n : b[x] = k
    <3>1. Cardinality(from[p]) \in 1 .. n BY <1>5
    <3>2. b[Cardinality(from[p])] = k BY <1>7, <1>8, <2>2, <3>1
    <3> QED BY <3>1, <3>2
  <2> QED BY <2>1, <2>2
<1> QED BY <1>9, <1>10, <1>11 DEF b

\* Growing or shrinking to n buckets keeps every entry, in the bucket it belongs to.
LEMMA RehashedIs ==
  ASSUME DictAssumption, Kept, NEW n \in Nat \ {0}
  PROVE  Rehashed(n) \in Tables(n) /\ Placed(Rehashed(n), n) /\ Content(Rehashed(n)) = Held
<1> DEFINE r == Rehashed(n)
           places(i) == {p \in Places : Bucket(At(p), n) = i}
<1>1. r = [i \in 0 .. n - 1 |-> Backward(places(i))] BY DEF Rehashed
<1> HIDE DEF r
<1>2. \A i \in 0 .. n - 1 :
         /\ Backward(places(i)) \in Seq(Keys)
         /\ Apiece(Backward(places(i)))
         /\ \A k : (\E x \in 1 .. Len(Backward(places(i))) : Backward(places(i))[x] = k)
                   <=> \E p \in places(i) : At(p) = k
  BY BackwardIs
<1>3. \A i \in 0 .. n - 1 :
         /\ r[i] \in Seq(Keys) /\ Apiece(r[i])
         /\ \A k : (\E x \in 1 .. Len(r[i]) : r[i][x] = k)
                   <=> \E p \in Places : Bucket(At(p), n) = i /\ At(p) = k
  <2> SUFFICES ASSUME NEW i \in 0 .. n - 1
               PROVE  /\ r[i] \in Seq(Keys) /\ Apiece(r[i])
                      /\ \A k : (\E x \in 1 .. Len(r[i]) : r[i][x] = k)
                                <=> \E p \in Places : Bucket(At(p), n) = i /\ At(p) = k
    OBVIOUS
  <2>1. r[i] = Backward(places(i)) BY <1>1
  <2>2. \A k : (\E p \in places(i) : At(p) = k)
               <=> \E p \in Places : Bucket(At(p), n) = i /\ At(p) = k
    OBVIOUS
  <2>3. /\ Backward(places(i)) \in Seq(Keys)
        /\ Apiece(Backward(places(i)))
        /\ \A k : (\E x \in 1 .. Len(Backward(places(i))) : Backward(places(i))[x] = k)
                  <=> \E p \in places(i) : At(p) = k
    BY <1>2
  <2> HIDE DEF places
  <2> QED BY <2>1, <2>2, <2>3
<1>4. r \in Tables(n)
  <2>1. r = [i \in 0 .. n - 1 |-> r[i]] BY <1>1
  <2> QED BY <1>3, <2>1 DEF Tables
<1>5. Placed(r, n)
  <2>1. ASSUME NEW i \in 0 .. n - 1, NEW x \in 1 .. Len(r[i]) PROVE Bucket(r[i][x], n) = i
    <3>1. \E p \in Places : Bucket(At(p), n) = i /\ At(p) = r[i][x] BY <1>3
    <3> QED BY <3>1
  <2> QED BY <1>3, <2>1 DEF Placed
<1>6. Content(r) = Held
  <2>1. \A k : k \in Content(r) <=> \E i \in 0 .. n - 1 : \E x \in 1 .. Len(r[i]) : r[i][x] = k
    BY <1>4, Contents
  <2>2. ASSUME NEW k \in Content(r) PROVE k \in Held
    <3>1. PICK i \in 0 .. n - 1 : \E x \in 1 .. Len(r[i]) : r[i][x] = k BY <2>1
    <3>2. \E p \in Places : At(p) = k BY <1>3, <3>1
    <3> QED BY <3>2, PlacesAre
  <2>3. ASSUME NEW k \in Held PROVE k \in Content(r)
    <3>1. Bucket(k, n) \in 0 .. n - 1 BY Buckets, PlacesAre
    <3>2. PICK p \in Places : At(p) = k BY PlacesAre
    <3>3. \E x \in 1 .. Len(r[Bucket(k, n)]) : r[Bucket(k, n)][x] = k
      BY <1>3, <3>1, <3>2
    <3> QED BY <2>1, <3>1, <3>3
  <2> QED BY <2>2, <2>3
<1> QED BY <1>4, <1>5, <1>6 DEF r
-----------------------------------------------------------------------------
\* The table, its count and its values agree.
DataSound ==
    /\ size \in {0} \cup Sizes
    /\ table \in Tables(size) /\ Placed(table, size)
    /\ used = Cardinality(Held)
    /\ val \in [Keys -> Vals \cup {None}]
    /\ \A k \in Keys : val[k] # None <=> k \in Held

\* An iterator that is at an entry is in a table with buckets.
IterShape == /\ ~iter.on => iter = NoIterator
             /\ iter.entry # None => size > 0

\* While its user only deletes what it was given last, what an iteration has yet to return
\* is the rest of the chain, from the successor it saved, and the buckets after it.  p
\* is the place of that successor: the entry it is at may be gone by now.
Ahead(i) == {k \in Held : Bucket(k, size) > i}
Chain == table[iter.index]
Ongoing(p) ==
    /\ iter.next = IF p <= Len(Chain) THEN Chain[p] ELSE None
    /\ due = {Chain[x] : x \in p .. Len(Chain)} \cup Ahead(iter.index)
    /\ iter.entry \in Held => p >= 2 /\ Chain[p - 1] = iter.entry
IterSound ==
    iter.on /\ calm =>
        IF iter.entry = None THEN iter.index = -1 /\ due = Held
        ELSE iter.index \in 0 .. size - 1 /\ \E p \in 1 .. Len(Chain) + 1 : Ongoing(p)

IInv == TypeOK /\ DataSound /\ IterShape /\ IterSound
-----------------------------------------------------------------------------
LEMMA Sound == ASSUME DictAssumption, DataSound
               PROVE  /\ Kept /\ (size # 0 => size \in Nat \ {0})
                      /\ Held = Content(table) /\ Held \subseteq Keys
                      /\ IsFiniteSet(Held) /\ Cardinality(Held) \in Nat
                      /\ size = 0 => Held = {}
<1>1. Sizes \subseteq Nat \ {0} BY Powers
<1>2. Kept /\ (size # 0 => size \in Nat \ {0}) BY <1>1 DEF DataSound, Kept
<1>3. Held = Content(table) BY DEF Held, Content
<1>4. Held \subseteq Keys BY <1>2, PlacesAre
<1>5. IsFiniteSet(Held) /\ Cardinality(Held) \in Nat
  BY <1>4, FS_Subset, FS_CardinalityType DEF DictAssumption, KeysAssumption
<1>6. size = 0 => Held = {} BY <1>2, <1>3, Contents DEF Kept
<1> QED BY <1>2, <1>3, <1>4, <1>5, <1>6

\* A lookup finds exactly what is there.
LEMMA Lookups == ASSUME DictAssumption, DataSound, NEW k \in Keys
                 PROVE  /\ Present(k) <=> k \in Held
                        /\ Find(k) = val[k]
<1>1. Present(k) => k \in Held
  <2>1. ASSUME Present(k) PROVE k \in Held
    <3>1. size \in Nat \ {0} BY <2>1, Sound DEF Present
    <3>2. Bucket(k, size) \in 0 .. size - 1 BY <3>1, Buckets
    <3>3. k \in Range(table[Bucket(k, size)]) BY <2>1 DEF Present
    <3>4. table \in Tables(size) BY DEF DataSound
    <3>5. \E x \in 1 .. Len(table[Bucket(k, size)]) : table[Bucket(k, size)][x] = k
      BY <3>1, <3>2, <3>3, <3>4, Chains
    <3> QED BY <3>1, <3>2, <3>4, <3>5, Contents, Sound
  <2> QED BY <2>1
<1>2. k \in Held => Present(k)
  <2>1. ASSUME k \in Held PROVE Present(k)
    <3>1. size \in Nat \ {0} BY <2>1, Sound
    <3>2. /\ table \in Tables(size) /\ Placed(table, size) /\ k \in Content(table)
      BY <2>1, Sound DEF DataSound
    <3>3. /\ Bucket(k, size) \in 0 .. size - 1
          /\ \E x \in 1 .. Len(table[Bucket(k, size)]) : table[Bucket(k, size)][x] = k
      BY <3>1, <3>2, Lookup
    <3>4. k \in Range(table[Bucket(k, size)]) BY <3>1, <3>2, <3>3, Chains
    <3> QED BY <3>1, <3>4 DEF Present
  <2> QED BY <2>1
<1>3. val[k] # None <=> k \in Held BY DEF DataSound
<1> QED BY <1>1, <1>2, <1>3 DEF Find

\* What dictAdd finds when the table has made room.
LEMMA Grown == ASSUME DictAssumption, DataSound, ~TooLarge
               PROVE  /\ Room \in Sizes /\ Room \in Nat \ {0}
                      /\ Roomy \in Tables(Room) /\ Placed(Roomy, Room) /\ Content(Roomy) = Held
<1>1. CASE Needs
  <2>1. Wanted \in 0 .. MaxSize
    <3>1. size \in Nat /\ InitialSize \in Nat /\ MaxSize \in Nat \ {0}
      <4>1. size \in Nat BY Sound DEF Kept
      <4> QED BY <4>1 DEF DictAssumption, SizeAssumption
    <3>2. Wanted \in Nat BY <3>1 DEF Wanted
    <3>3. ~(Wanted > MaxSize) BY <1>1 DEF TooLarge
    <3> QED BY <3>1, <3>2, <3>3
  <2>2. Room \in Sizes /\ Room \in Nat \ {0} /\ Roomy = Rehashed(Room)
    BY <1>1, <2>1, Powers DEF Room, Roomy
  <2> QED BY <2>2, RehashedIs, Sound
<1>2. CASE ~Needs
  <2>1. Room = size /\ Roomy = table /\ size # 0 BY <1>2 DEF Room, Roomy, Needs
  <2>2. size \in Sizes BY <2>1 DEF DataSound
  <2> QED BY <2>1, <2>2, Sound DEF DataSound
<1> QED BY <1>1, <1>2

LEMMA AddNewKeeps == ASSUME DictAssumption, DataSound, NEW k \in Keys, NEW v \in Vals, AddNew(k, v)
                     PROVE  DataSound'
<1>1. ~TooLarge /\ ~Present(k) /\ k \notin Held BY Lookups DEF AddNew
<1>2. /\ size' \in Sizes /\ size' \in Nat \ {0} /\ Roomy \in Tables(size')
      /\ Placed(Roomy, size') /\ Content(Roomy) = Held /\ size' = Room
  BY <1>1, Grown DEF AddNew
<1>3. table' = [Roomy EXCEPT ![Bucket(k, size')] = <<k>> \o @] BY <1>2 DEF AddNew
<1>4. table' \in Tables(size') /\ Placed(table', size') /\ Content(table') = Held \cup {k}
  <2>1. table' = PushTo(Roomy, size', k) BY <1>3 DEF PushTo
  <2>2. /\ size' \in Nat \ {0} /\ Roomy \in Tables(size') /\ Placed(Roomy, size')
        /\ k \notin Content(Roomy)
    BY <1>1, <1>2
  <2>3. /\ PushTo(Roomy, size', k) \in Tables(size')
        /\ Placed(PushTo(Roomy, size', k), size')
        /\ Content(PushTo(Roomy, size', k)) = Content(Roomy) \cup {k}
    BY <2>2, Pushed
  <2> QED BY <1>2, <2>1, <2>3
<1>5. Held' = Held \cup {k} BY <1>4 DEF Held, Content
<1>6. used' = Cardinality(Held')
  <2>1. used = Cardinality(Held) BY DEF DataSound
  <2>2. Cardinality(Held \cup {k}) = Cardinality(Held) + 1 BY <1>1, Sound, FS_AddElement
  <2> QED BY <1>5, <2>1, <2>2 DEF AddNew
<1>7. val' \in [Keys -> Vals \cup {None}] /\ \A j \in Keys : val'[j] # None <=> j \in Held'
  <2>1. val' = [val EXCEPT ![k] = v] /\ v # None
    BY DEF AddNew, DictAssumption, NoneAssumption
  <2> QED BY <1>5, <2>1 DEF DataSound
<1>8. Placed(table, size)' BY <1>4 DEF Placed, Bucket
<1> QED BY <1>2, <1>4, <1>6, <1>7, <1>8 DEF DataSound, Tables, Sizes

LEMMA AddOldKeeps ==
  ASSUME DictAssumption, DataSound, NEW k \in Keys, AddOld(k),
         val' \in [Keys -> Vals \cup {None}], \A j \in Keys : val'[j] # None <=> val[j] # None
  PROVE  DataSound'
<1>1. /\ size' \in Sizes /\ table' \in Tables(size') /\ Placed(table', size')
      /\ Content(table') = Held
  BY Grown DEF AddOld
<1>2. Held' = Held BY <1>1 DEF Held, Content
<1>3. Placed(table, size)' BY <1>1 DEF Placed, Bucket
<1>4. used' = Cardinality(Held') BY <1>2 DEF DataSound, AddOld
<1> QED BY <1>1, <1>2, <1>3, <1>4 DEF DataSound, Tables, Sizes

LEMMA DeleteKeeps == ASSUME DictAssumption, DataSound, NEW k \in Keys, DictDelete(k)
                     PROVE  DataSound'
<1>1. CASE ~Present(k)
  <2>1. UNCHANGED <<size, used, table, val>> BY <1>1 DEF DictDelete
  <2> QED BY <2>1 DEF DataSound, Held, Tables, Sizes, Placed, Bucket
<1>2. CASE Present(k)
  <2>1. /\ k \in Held /\ size \in Nat \ {0} /\ size' = size
        /\ table' = [table EXCEPT ![Bucket(k, size)] = Without(@, k)]
        /\ used' = used - 1 /\ val' = [val EXCEPT ![k] = None]
    BY <1>2, Lookups, Sound DEF DictDelete, Uncount, Present
  <2>2. /\ table' \in Tables(size) /\ Placed(table', size)
        /\ Content(table') = Content(table) \ {k}
    <3>1. table \in Tables(size) /\ Placed(table, size) /\ k \in Content(table)
      BY <2>1, Sound DEF Kept
    <3>2. /\ [table EXCEPT ![Bucket(k, size)] = Without(@, k)] \in Tables(size)
          /\ Placed([table EXCEPT ![Bucket(k, size)] = Without(@, k)], size)
          /\ Content([table EXCEPT ![Bucket(k, size)] = Without(@, k)])
                = Content(table) \ {k}
      BY <2>1, <3>1, Unlinked
    <3> QED BY <2>1, <3>2
  <2>3. Held' = Held \ {k} BY <2>2 DEF Held, Content
  <2>4. used' = Cardinality(Held')
    <3>1. Cardinality(Held \ {k}) = Cardinality(Held) - 1 BY <2>1, Sound, FS_RemoveElement
    <3> QED BY <2>1, <2>3, <3>1 DEF DataSound
  <2>5. val' \in [Keys -> Vals \cup {None}] /\ \A j \in Keys : val'[j] # None <=> j \in Held'
    BY <2>1, <2>3 DEF DataSound
  <2>6. Placed(table, size)' BY <2>1, <2>2 DEF Placed, Bucket
  <2> QED BY <2>1, <2>2, <2>4, <2>5, <2>6 DEF DataSound, Tables, Sizes
<1> QED BY <1>1, <1>2

LEMMA ExpandKeeps == ASSUME DictAssumption, DataSound, NEW n \in Nat, Expand(n)
                     PROVE  DataSound' /\ size' \in {size} \cup Sizes
<1>1. CASE UNCHANGED <<size, table>>
  <2>1. UNCHANGED <<size, used, table, val>> BY <1>1 DEF Expand
  <2> QED BY <2>1 DEF DataSound, Held, Tables, Sizes, Placed, Bucket
<1>2. CASE n <= MaxSize /\ size' = _dictNextPower(n) /\ table' = Rehashed(_dictNextPower(n))
  <2>0. n \in 0 .. MaxSize BY <1>2 DEF DictAssumption, SizeAssumption
  <2>1. /\ size' \in Sizes /\ size' \in Nat \ {0} /\ table' = Rehashed(size')
        /\ UNCHANGED <<used, val>>
    BY <1>2, <2>0, Powers DEF Expand
  <2>2. /\ table' \in Tables(size') /\ Placed(table', size') /\ Content(table') = Held
    BY <2>1, RehashedIs, Sound
  <2>3. Held' = Held BY <2>2 DEF Held, Content
  <2>4. Placed(table, size)' BY <2>2 DEF Placed, Bucket
  <2> QED BY <2>1, <2>2, <2>3, <2>4 DEF DataSound, Tables, Sizes
<1> QED BY <1>1, <1>2 DEF Expand

\* A table without buckets.
LEMMA NoTable == /\ <<>> \in Tables(0) /\ Placed(<<>>, 0) /\ Content(<<>>) = {}
                 /\ Cardinality({}) = 0
<1>1. 0 .. 0 - 1 = {} /\ DOMAIN <<>> = {} OBVIOUS
<1>2. <<>> \in [{} -> Seq(Keys)] OBVIOUS
<1>3. <<>> \in Tables(0) BY <1>1, <1>2 DEF Tables
<1>4. Placed(<<>>, 0) BY <1>1 DEF Placed
<1>5. Content(<<>>) = {} BY <1>1 DEF Content
<1>6. Cardinality({}) = 0 BY FS_EmptySet
<1> QED BY <1>3, <1>4, <1>5, <1>6

LEMMA ClearKeeps == ASSUME DictAssumption, size' = 0, used' = 0, table' = <<>>,
                           val' = [k \in Keys |-> None]
                    PROVE  DataSound'
<1>1. Held' = {} BY NoTable DEF Held, Content
<1>2. table' \in Tables(size') BY NoTable
<1>3. Placed(table, size)' BY NoTable DEF Placed, Bucket
<1>4. used' = Cardinality(Held') BY <1>1, NoTable
<1>5. val' \in [Keys -> Vals \cup {None}] /\ \A k \in Keys : val'[k] = None OBVIOUS
<1> QED BY <1>1, <1>2, <1>3, <1>4, <1>5 DEF DataSound, Tables
-----------------------------------------------------------------------------
\* What dictNext saves as the successor of the entry it returns.
LEMMA SuccessorIs ==
  ASSUME Kept, NEW i \in 0 .. size - 1, NEW x \in 1 .. Len(table[i])
  PROVE  Successor(table[i][x]) = IF x < Len(table[i]) THEN table[i][x + 1] ELSE None
<1> DEFINE c == table[i]
           later == {y \in 2 .. Len(c) : c[y - 1] = c[x]}
<1>1. /\ Len(c) \in Nat /\ x \in 1 .. Len(c) /\ Apiece(c) /\ Bucket(c[x], size) = i
  BY Chains DEF Kept, Placed
<1>2. Successor(c[x]) = IF later = {} THEN None ELSE c[CHOOSE y \in later : TRUE]
  BY <1>1 DEF Successor
<1> HIDE DEF c
<1>3. \A y \in 2 .. Len(c) : c[y - 1] = c[x] <=> y = x + 1
  <2> SUFFICES ASSUME NEW y \in 2 .. Len(c) PROVE c[y - 1] = c[x] <=> y = x + 1
    OBVIOUS
  <2>1. y - 1 \in 1 .. Len(c) /\ (y - 1 = x <=> y = x + 1) BY <1>1
  <2>2. c[y - 1] = c[x] <=> y - 1 = x BY <1>1, <2>1 DEF Apiece
  <2> QED BY <2>1, <2>2
<1>4. CASE x < Len(c)
  <2>1. x + 1 \in 2 .. Len(c) BY <1>1, <1>4
  <2>2. later = {x + 1} BY <1>3, <2>1
  <2> QED BY <1>2, <1>4, <2>2 DEF c
<1>5. CASE ~(x < Len(c))
  <2>1. later = {} BY <1>1, <1>3, <1>5
  <2> QED BY <1>2, <1>5, <2>1 DEF c
<1> QED BY <1>4, <1>5

LEMMA SuccessorTyped == ASSUME DictAssumption, Kept, size > 0, NEW k \in Keys
                        PROVE  Successor(k) \in Keys \cup {None}
<1> DEFINE c == table[Bucket(k, size)]
           later == {y \in 2 .. Len(c) : c[y - 1] = k}
<1>1. size \in Nat \ {0} BY DEF Kept
<1>2. Bucket(k, size) \in 0 .. size - 1 BY <1>1, Buckets
<1>3. Len(c) \in Nat /\ \A x \in 1 .. Len(c) : c[x] \in Keys BY <1>1, <1>2, Chains DEF Kept
<1>4. Successor(k) = IF later = {} THEN None ELSE c[CHOOSE y \in later : TRUE]
  BY DEF Successor
<1> HIDE DEF c
<1>5. CASE later = {} BY <1>4, <1>5
<1>6. CASE later # {}
  <2>1. (CHOOSE y \in later : TRUE) \in later BY <1>6
  <2>2. (CHOOSE y \in later : TRUE) \in 1 .. Len(c) BY <1>3, <2>1
  <2> QED BY <1>3, <1>4, <1>6, <2>2
<1> QED BY <1>5, <1>6

\* What is due before a step to the next in the chain, and before one to a later bucket.
LEMMA DueInChain ==
  ASSUME DictAssumption, IInv, iter.on, calm, Following
  PROVE  /\ iter.index \in 0 .. size - 1
         /\ \E p \in 1 .. Len(Chain) : iter.next = Chain[p] /\ Ongoing(p)
<1>1. iter.entry # None /\ iter.next # None BY DEF Following
<1>2. iter.index \in 0 .. size - 1 BY <1>1 DEF IInv, IterSound
<1>3. PICK p \in 1 .. Len(Chain) + 1 : Ongoing(p) BY <1>1 DEF IInv, IterSound
<1>4. p <= Len(Chain) /\ iter.next = Chain[p] BY <1>1, <1>3 DEF Ongoing
<1>5. Len(Chain) \in Nat BY <1>2, Sound, Chains DEF IInv, Kept, Chain
<1>6. p \in 1 .. Len(Chain) BY <1>4, <1>5
<1> QED BY <1>2, <1>3, <1>4, <1>6

LEMMA DueInBuckets ==
  ASSUME DictAssumption, IInv, iter.on, calm, ~Following
  PROVE  due = Ahead(iter.index)
<1>s. Kept /\ Held \subseteq Keys /\ (size = 0 => Held = {}) /\ (size # 0 => size \in Nat \ {0})
  BY Sound DEF IInv
<1>1. CASE iter.entry = None
  <2>1. iter.index = -1 /\ due = Held BY <1>1 DEF IInv, IterSound
  <2>2. \A k \in Held : Bucket(k, size) > -1
    <3>1. ASSUME NEW k \in Held PROVE Bucket(k, size) > -1
      <4>1. Bucket(k, size) \in 0 .. size - 1 BY <1>s, Buckets
      <4> QED BY <4>1
    <3> QED BY <3>1
  <2> QED BY <2>1, <2>2 DEF Ahead
<1>2. CASE iter.entry # None
  <2>1. iter.next = None BY <1>2 DEF Following
  <2>2. iter.index \in 0 .. size - 1 BY <1>2 DEF IInv, IterSound
  <2>3. PICK p \in 1 .. Len(Chain) + 1 : Ongoing(p) BY <1>2 DEF IInv, IterSound
  <2>4. Len(Chain) \in Nat /\ \A x \in 1 .. Len(Chain) : Chain[x] \in Keys
    BY <1>s, <2>2, Chains DEF Kept, Chain
  <2>5. ~(p <= Len(Chain))
    <3>1. ASSUME p <= Len(Chain) PROVE FALSE
      <4>1. p \in 1 .. Len(Chain) /\ Chain[p] = None BY <2>1, <2>3, <2>4, <3>1 DEF Ongoing
      <4> QED BY <2>4, <4>1 DEF DictAssumption, NoneAssumption
    <3> QED BY <3>1
  <2>6. p .. Len(Chain) = {} BY <2>4, <2>5
  <2> QED BY <2>3, <2>6 DEF Ongoing
<1> QED BY <1>1, <1>2

\* The next bucket with entries, and what comes from there on.
LEMMA NextBucketIs ==
  ASSUME DictAssumption, IInv, BucketsAhead # {}
  PROVE  LET i == CHOOSE j \in BucketsAhead : \A h \in BucketsAhead : j <= h
         IN  /\ i \in 0 .. size - 1 /\ i > iter.index
             /\ 1 \in 1 .. Len(table[i]) /\ Head(table[i]) = table[i][1]
             /\ table[i][1] \in Keys
             /\ Ahead(iter.index) = {table[i][x] : x \in 1 .. Len(table[i])} \cup Ahead(i)
<1> DEFINE i == CHOOSE j \in BucketsAhead : \A h \in BucketsAhead : j <= h
<1>s. /\ Kept /\ size \in Nat /\ table \in Tables(size) /\ Placed(table, size)
      /\ Held \subseteq Keys /\ (size = 0 => Held = {}) /\ Held = Content(table)
  BY Sound DEF IInv, Kept
<1>0. iter.index \in Int BY DEF IInv, TypeOK
<1>1. BucketsAhead \in SUBSET Nat BY <1>s DEF BucketsAhead
<1>2. \E j \in BucketsAhead : \A h \in BucketsAhead : j <= h BY <1>1, HasLeast
<1>3. i \in BucketsAhead /\ \A h \in BucketsAhead : i <= h BY <1>2
<1> HIDE DEF i
<1>4. i \in 0 .. size - 1 /\ i > iter.index /\ table[i] # <<>> BY <1>3 DEF BucketsAhead
<1>5. table[i] \in Seq(Keys) /\ \A x \in 1 .. Len(table[i]) : table[i][x] \in Keys
  BY <1>s, <1>4, Chains
<1>6. 1 \in 1 .. Len(table[i]) /\ Head(table[i]) = table[i][1] BY <1>4, <1>5, EmptySeq
<1>7. \A x \in 1 .. Len(table[i]) : table[i][x] \in Held /\ Bucket(table[i][x], size) = i
  BY <1>s, <1>4, Contents DEF Placed
<1>8. ASSUME NEW k \in Ahead(iter.index)
      PROVE  (\E x \in 1 .. Len(table[i]) : table[i][x] = k) \/ k \in Ahead(i)
  <2>1. k \in Content(table) /\ Bucket(k, size) > iter.index BY <1>s DEF Ahead
  <2>2. /\ Bucket(k, size) \in 0 .. size - 1
        /\ \E x \in 1 .. Len(table[Bucket(k, size)]) : table[Bucket(k, size)][x] = k
    BY <1>s, <2>1, Lookup
  <2>3. table[Bucket(k, size)] # <<>> BY <2>2
  <2>4. Bucket(k, size) \in BucketsAhead BY <2>1, <2>2, <2>3 DEF BucketsAhead
  <2>5. i <= Bucket(k, size) BY <1>3, <2>4
  <2>6. CASE Bucket(k, size) = i BY <2>2, <2>6
  <2>7. CASE Bucket(k, size) # i
    <3>1. Bucket(k, size) > i BY <1>4, <2>2, <2>5, <2>7
    <3> QED BY <1>s, <2>1, <3>1 DEF Ahead
  <2> QED BY <2>6, <2>7
<1>9. ASSUME NEW k, (\E x \in 1 .. Len(table[i]) : table[i][x] = k) \/ k \in Ahead(i)
      PROVE  k \in Ahead(iter.index)
  <2>1. CASE \E x \in 1 .. Len(table[i]) : table[i][x] = k
    BY <1>4, <1>7, <2>1 DEF Ahead
  <2>2. CASE k \in Ahead(i)
    <3>1. k \in Held /\ Bucket(k, size) > i BY <2>2 DEF Ahead
    <3>2. Bucket(k, size) \in 0 .. size - 1 BY <1>s, <3>1, Lookup
    <3>3. Bucket(k, size) > iter.index BY <1>0, <1>4, <3>1, <3>2
    <3> QED BY <3>1, <3>3 DEF Ahead
  <2> QED BY <1>9, <2>1, <2>2
<1>10. Ahead(iter.index) = {table[i][x] : x \in 1 .. Len(table[i])} \cup Ahead(i)
  BY <1>8, <1>9
<1> QED BY <1>4, <1>5, <1>6, <1>10 DEF i

\* Returning the entry at place x of bucket i leaves what comes after it.
LEMMA YieldKeeps ==
  ASSUME DictAssumption, DataSound, NEW i \in 0 .. size - 1, NEW x \in 1 .. Len(table[i]),
         Yield(table[i][x], i), UNCHANGED <<size, table>>,
         calm => due = {table[i][y] : y \in x .. Len(table[i])} \cup Ahead(i)
  PROVE  IterShape' /\ IterSound'
<1> DEFINE c == table[i]
<1>s. /\ Kept /\ size \in Nat /\ size > 0 /\ Held = Content(table) BY Sound DEF Kept
<1>1. /\ Len(c) \in Nat /\ x \in 1 .. Len(c) /\ Apiece(c)
      /\ \A y \in 1 .. Len(c) : c[y] \in Keys /\ Bucket(c[y], size) = i
  BY <1>s, Chains DEF Kept, Placed
<1>2. /\ iter' = [on |-> TRUE, index |-> i, entry |-> c[x], next |-> Successor(c[x])]
      /\ due' = due \ {c[x]} /\ calm' = calm
  BY DEF Yield
<1>3. Successor(c[x]) = IF x < Len(c) THEN c[x + 1] ELSE None BY <1>s, SuccessorIs
<1>4. /\ iter'.on = TRUE /\ iter'.index = i /\ iter'.entry = c[x]
      /\ iter'.next = IF x < Len(c) THEN c[x + 1] ELSE None
  BY <1>2, <1>3
<1>5. Chain' = c BY <1>4 DEF Chain
<1>6. \A j : Ahead(j)' = Ahead(j) BY DEF Ahead, Held, Bucket
<1>7. c[x] # None BY <1>1 DEF DictAssumption, NoneAssumption
<1>8. IterShape' BY <1>s, <1>4 DEF IterShape
<1> HIDE DEF c
<1>9. ASSUME calm' PROVE Ongoing(x + 1)'
  <2>1. iter'.next = IF x + 1 <= Len(c) THEN c[x + 1] ELSE None BY <1>1, <1>4
  <2>2. due' = {c[y] : y \in x + 1 .. Len(c)} \cup Ahead(i)
    <3>1. due = {c[y] : y \in x .. Len(c)} \cup Ahead(i) BY <1>2, <1>9 DEF c
    <3>2. c[x] \notin Ahead(i) BY <1>1 DEF Ahead
    <3>3. \A y \in x .. Len(c) : y = x \/ y \in x + 1 .. Len(c) BY <1>1
    <3>4. \A y \in x + 1 .. Len(c) : y \in x .. Len(c) /\ c[y] # c[x]
      <4>1. ASSUME NEW y \in x + 1 .. Len(c) PROVE y \in x .. Len(c) /\ c[y] # c[x]
        <5>1. y \in x .. Len(c) /\ y \in 1 .. Len(c) /\ y # x BY <1>1
        <5> QED BY <1>1, <5>1 DEF Apiece
      <4> QED BY <4>1
    <3> QED BY <1>2, <3>1, <3>2, <3>3, <3>4
  <2>3. x + 1 >= 2 /\ c[(x + 1) - 1] = c[x] BY <1>1
  <2> QED BY <1>4, <1>5, <1>6, <2>1, <2>2, <2>3 DEF Ongoing
<1>10. x + 1 \in 1 .. Len(c) + 1 BY <1>1
<1>11. IterSound'
  <2> SUFFICES ASSUME calm' PROVE iter'.index \in 0 .. size' - 1
                                  /\ \E p \in 1 .. Len(Chain') + 1 : Ongoing(p)'
    BY <1>4, <1>7 DEF IterSound
  <2>1. Ongoing(x + 1)' BY <1>9
  <2> QED BY <1>4, <1>5, <1>10, <2>1
<1> QED BY <1>8, <1>11
-----------------------------------------------------------------------------
LEMMA InitIInv == DictAssumption /\ Init => IInv
<1> SUFFICES ASSUME DictAssumption, Init PROVE IInv
  OBVIOUS
<1>1. /\ size = 0 /\ used = 0 /\ table = <<>> /\ val = [k \in Keys |-> None]
      /\ iter = NoIterator /\ due = {} /\ calm = TRUE /\ state = "idle" /\ call.ret = "ok"
  BY DEF Init, Call
<1>2. Held = {} BY <1>1, NoTable DEF Held, Content
<1>3. table \in Tables(size) /\ Placed(table, size) BY <1>1, NoTable
<1>4. DataSound BY <1>1, <1>2, <1>3, NoTable DEF DataSound
<1>5. IterShape /\ IterSound BY <1>1 DEF IterShape, IterSound, NoIterator
<1>6. TypeOK
  <2>1. table \in [0 .. size - 1 -> Seq(Keys)] BY <1>3 DEF Tables
  <2> QED BY <1>1, <2>1 DEF TypeOK, NoIterator
<1> QED BY <1>4, <1>5, <1>6 DEF IInv

\* What every step does to the table.
LEMMA StepData == ASSUME DictAssumption, IInv, [Next]_vars PROVE DataSound'
<1>1. DataSound /\ TypeOK BY DEF IInv
<1>2. ASSUME UNCHANGED <<size, used, table, val>> PROVE DataSound'
  BY <1>1, <1>2 DEF DataSound, Held, Tables, Sizes, Placed, Bucket
<1>3. ASSUME NEW k \in Keys, NEW v \in Vals, AddOld(k), val' \in {val, [val EXCEPT ![k] = v]}
      PROVE  DataSound'
  <2>1. v # None BY DEF DictAssumption, NoneAssumption
  <2>2. val[k] # None
    <3>1. Present(k) BY <1>3 DEF AddOld
    <3> QED BY <1>1, <3>1, Lookups DEF DataSound
  <2>3. val' \in [Keys -> Vals \cup {None}] BY <1>1, <1>3 DEF DataSound
  <2>4. \A j \in Keys : val'[j] # None <=> val[j] # None
    BY <1>1, <1>3, <2>1, <2>2 DEF DataSound
  <2> QED BY <1>1, <1>3, <2>3, <2>4, AddOldKeeps
<1>4. ASSUME NEW k \in Keys, NEW v \in Vals, DictAdd(k, v) PROVE DataSound'
  <2>1. CASE AddNew(k, v) BY <1>1, <2>1, AddNewKeeps
  <2>2. CASE AddOld(k) /\ UNCHANGED val BY <1>3, <2>2
  <2>3. CASE UNCHANGED <<size, table, used, val>> BY <1>2, <2>3
  <2> QED BY <1>4, <2>1, <2>2, <2>3 DEF DictAdd, GrowthFails
<1>5. ASSUME NEW k \in Keys, NEW v \in Vals, DictReplace(k, v) PROVE DataSound'
  <2>1. CASE AddNew(k, v) BY <1>1, <2>1, AddNewKeeps
  <2>2. CASE AddOld(k) /\ val' = [val EXCEPT ![k] = v] BY <1>3, <2>2
  <2>3. CASE UNCHANGED <<size, table, used, val>> BY <1>2, <2>3
  <2> QED BY <1>5, <2>1, <2>2, <2>3 DEF DictReplace, GrowthFails
<1>6. ASSUME NEW k \in Keys, DictDelete(k) PROVE DataSound'
  BY <1>1, <1>6, DeleteKeeps
<1>7. ASSUME NEW k \in Keys, DictFind(k) PROVE DataSound'
  BY <1>2, <1>7 DEF DictFind
<1>8. ASSUME DictExpand PROVE DataSound'
  <2>1. PICK n \in 0 .. MaxSize + 1 : Expand(n) BY <1>8 DEF DictExpand
  <2> QED BY <1>1, <2>1, ExpandKeeps
<1>9. ASSUME DictResize PROVE DataSound'
  <2>1. used \in Nat /\ InitialSize \in Nat BY <1>1 DEF TypeOK, DictAssumption, SizeAssumption
  <2>2. PICK n \in Nat : Expand(n) BY <1>9, <2>1 DEF DictResize
  <2> QED BY <1>1, <2>2, ExpandKeeps
<1>10. ASSUME DictClear PROVE DataSound'
  BY <1>10, ClearKeeps DEF DictClear
<1>11. ASSUME GetIterator \/ NextInChain \/ NextIsFreed \/ NextBucket \/ NextIsNull \/ RandomCall
       PROVE  DataSound'
  BY <1>2, <1>11 DEF GetIterator, NextInChain, NextIsFreed, NextBucket, NextIsNull, RandomCall
<1>12. ASSUME NEW h \in 0 .. MaxSize - 1, RandomHit(h) PROVE DataSound'
  BY <1>2, <1>12 DEF RandomHit
<1>13. CASE UNCHANGED vars
  BY <1>2, <1>13 DEF vars
<1> QED
  BY <1>4, <1>5, <1>6, <1>7, <1>8, <1>9, <1>10, <1>11, <1>12, <1>13 DEF Next

\* A delete of the entry an iteration is at leaves what the iteration has yet to return.
LEMMA DeleteUnderIterator ==
  ASSUME DictAssumption, IInv, NEW k \in Keys, DictDelete(k)
  PROVE  IterShape' /\ IterSound'
<1>s. /\ DataSound /\ Kept /\ Held = Content(table)
      /\ \A j : j \in Held => size \in Nat \ {0}
  BY Sound DEF IInv
<1>1. size' = size BY DEF DictDelete
<1>2. CASE ~Present(k)
  <2>1. UNCHANGED <<size, table, iter, due>> /\ calm' = calm
    BY <1>2 DEF DictDelete, IInv, TypeOK
  <2> QED BY <2>1 DEF IInv, IterShape, IterSound, Ongoing, Chain, Ahead, Held, Bucket
<1>3. CASE Present(k) /\ ~(calm' /\ iter'.on)
  <2>1. iter' = iter \/ iter' = [iter EXCEPT !.next = Freed] BY <1>3 DEF DictDelete
  <2>2. iter'.on = iter.on /\ iter'.entry = iter.entry BY <2>1 DEF IInv, TypeOK
  <2>3. ~iter.on => iter' = iter
    <3>1. ASSUME ~iter.on PROVE iter.next # k
      BY <3>1 DEF IInv, IterShape, NoIterator, DictAssumption, NoneAssumption
    <3> QED BY <1>3, <3>1 DEF DictDelete
  <2> QED BY <1>1, <1>3, <2>2, <2>3 DEF IInv, IterShape, IterSound
<1>4. CASE Present(k) /\ calm' /\ iter'.on
  <2>1. iter' = iter \/ iter' = [iter EXCEPT !.next = Freed] BY <1>4 DEF DictDelete
  <2>2. iter.on /\ calm /\ iter.entry = k
    <3>1. iter.on BY <1>4, <2>1 DEF IInv, TypeOK
    <3> QED BY <1>4, <3>1 DEF DictDelete
  <2>3. k \in Held /\ k # None
    BY <1>s, <1>4, Lookups DEF DictAssumption, NoneAssumption
  <2>4. iter.index \in 0 .. size - 1 BY <2>2, <2>3 DEF IInv, IterSound
  <2>5. PICK p \in 1 .. Len(Chain) + 1 : Ongoing(p) BY <2>2, <2>3 DEF IInv, IterSound
  <2>6. /\ Chain \in Seq(Keys) /\ Len(Chain) \in Nat /\ Apiece(Chain)
        /\ \A x \in 1 .. Len(Chain) : Chain[x] \in Keys /\ Bucket(Chain[x], size) = iter.index
    BY <1>s, <2>4, Chains DEF Kept, Placed, Chain
  <2>7. p - 1 \in 1 .. Len(Chain) /\ Chain[p - 1] = k
    BY <2>2, <2>3, <2>5, <2>6 DEF Ongoing
  <2>8. iter.next # k
    <3>1. CASE p <= Len(Chain)
      <4>1. p \in 1 .. Len(Chain) /\ p # p - 1 BY <2>6, <3>1
      <4>2. Chain[p] # Chain[p - 1] BY <2>6, <2>7, <4>1 DEF Apiece
      <4> QED BY <2>5, <2>7, <3>1, <4>2 DEF Ongoing
    <3>2. CASE ~(p <= Len(Chain)) BY <2>3, <2>5, <3>2 DEF Ongoing
    <3> QED BY <3>1, <3>2
  <2>9. /\ iter' = iter /\ due' = due \ {k}
        /\ table' = [table EXCEPT ![Bucket(k, size)] = Without(@, k)]
    BY <1>4, <2>8 DEF DictDelete
  <2>10. Bucket(k, size) = iter.index BY <2>6, <2>7
  <2>11. Held' = Held \ {k}
    <3>1. k \in Content(table) /\ size \in Nat \ {0} /\ table \in Tables(size)
          /\ Placed(table, size)
      BY <1>s, <2>3 DEF Kept
    <3>2. Content([table EXCEPT ![Bucket(k, size)] = Without(@, k)]) = Content(table) \ {k}
      BY <3>1, Unlinked
    <3> QED BY <1>s, <2>9, <3>2 DEF Held, Content
  <2>12. Chain' = Without(Chain, k)
    BY <1>s, <2>4, <2>9, <2>10 DEF Chain, Kept, Tables
  <2> DEFINE c == Chain
             d == Without(c, k)
             m == Len(c)
  <2>13. /\ Len(d) = m - 1
         /\ \A x \in 1 .. m - 1 : d[x] = IF x < p - 1 THEN c[x] ELSE c[x + 1]
    BY <2>6, <2>7, WithoutIs
  <2>14. Ahead(iter.index)' = Ahead(iter.index)
    BY <1>1, <2>9, <2>10, <2>11 DEF Ahead, Bucket, IInv, TypeOK
  <2>15. Chain' = d BY <2>12
  <2>16. /\ p \in Nat /\ m \in Nat /\ p - 1 \in 1 .. m /\ c[p - 1] = k
         /\ \A x, y \in 1 .. m : c[x] = c[y] => x = y
    BY <2>6, <2>7 DEF Apiece
  <2>17. /\ iter.next = IF p <= m THEN c[p] ELSE None
         /\ due = {c[x] : x \in p .. m} \cup Ahead(iter.index)
    BY <2>5 DEF Ongoing
  <2>18. k \notin Ahead(iter.index) BY <2>4, <2>10 DEF Ahead
  <2> HIDE DEF d, c, m
  <2>19. Ongoing(p - 1)'
    <3>1. iter'.next = IF p - 1 <= m - 1 THEN d[p - 1] ELSE None
      <4>1. CASE p <= m
        <5>1. p - 1 \in 1 .. m - 1 /\ ~(p - 1 < p - 1) /\ (p - 1) + 1 = p BY <2>16, <4>1
        <5>2. d[p - 1] = c[p] BY <2>13, <5>1
        <5> QED BY <2>9, <2>17, <4>1, <5>1, <5>2
      <4>2. CASE ~(p <= m)
        <5>1. ~(p - 1 <= m - 1) BY <2>16, <4>2
        <5> QED BY <2>9, <2>17, <4>2, <5>1
      <4> QED BY <4>1, <4>2
    <3>2. {d[x] : x \in p - 1 .. m - 1} = {c[x] : x \in p .. m}
      <4>1. ASSUME NEW x \in p - 1 .. m - 1 PROVE d[x] = c[x + 1] /\ x + 1 \in p .. m
        <5>1. x \in 1 .. m - 1 /\ ~(x < p - 1) /\ x + 1 \in p .. m BY <2>16
        <5> QED BY <2>13, <5>1
      <4>2. ASSUME NEW y \in p .. m PROVE y - 1 \in p - 1 .. m - 1 /\ d[y - 1] = c[y]
        <5>1. y - 1 \in p - 1 .. m - 1 /\ (y - 1) + 1 = y BY <2>16
        <5> QED BY <4>1, <5>1
      <4> QED BY <4>1, <4>2
    <3>3. k \notin {c[x] : x \in p .. m}
      <4>1. ASSUME NEW x \in p .. m PROVE c[x] # k
        <5>1. x \in 1 .. m /\ x # p - 1 BY <2>16
        <5> QED BY <2>16, <5>1
      <4> QED BY <4>1
    <3>4. due' = {d[x] : x \in p - 1 .. m - 1} \cup Ahead(iter.index)
      BY <2>9, <2>17, <2>18, <3>2, <3>3
    <3>5. iter'.entry \notin Held' BY <2>2, <2>9, <2>11
    <3> QED BY <2>9, <2>13, <2>14, <2>15, <3>1, <3>4, <3>5 DEF Ongoing
  <2>20. p - 1 \in 1 .. Len(Chain') + 1 BY <2>13, <2>15, <2>16
  <2>21. IterSound'
    BY <1>1, <2>2, <2>3, <2>4, <2>9, <2>19, <2>20 DEF IterSound
  <2>22. IterShape' BY <1>1, <2>9 DEF IInv, IterShape
  <2> QED BY <2>21, <2>22
<1> QED BY <1>2, <1>3, <1>4

\* What every step does to an iteration.
LEMMA StepIter == ASSUME DictAssumption, IInv, [Next]_vars PROVE IterShape' /\ IterSound'
<1>s. /\ DataSound /\ Kept /\ TypeOK /\ IterShape /\ IterSound
      /\ Sizes \subseteq Nat \ {0} /\ size \in Nat
  BY Sound, Powers DEF IInv, Kept, DictAssumption, SizeAssumption
<1>1. ASSUME UNCHANGED <<size, table, iter, due, calm>> PROVE IterShape' /\ IterSound'
  BY <1>s, <1>1 DEF IterShape, IterSound, Ongoing, Chain, Ahead, Held, Bucket
<1>2. ASSUME Disturb, UNCHANGED iter, size' \in {size} \cup Sizes
      PROVE  IterShape' /\ IterSound'
  <2>1. iter.entry # None => size' > 0 BY <1>s, <1>2 DEF IterShape
  <2>2. ~(iter'.on /\ calm') BY <1>2 DEF Disturb
  <2> QED BY <1>s, <1>2, <2>1, <2>2 DEF IterShape, IterSound
<1>3. ASSUME NEW k \in Keys, NEW v \in Vals, DictAdd(k, v) \/ DictReplace(k, v)
      PROVE  IterShape' /\ IterSound'
  <2>1. size' \in {size} \cup Sizes
    <3>1. AddNew(k, v) \/ AddOld(k) => size' \in Sizes BY <1>s, Grown DEF AddNew, AddOld
    <3> QED BY <1>3, <3>1 DEF DictAdd, DictReplace, GrowthFails
  <2> QED BY <1>2, <1>3, <2>1 DEF DictAdd, DictReplace
<1>4. ASSUME NEW k \in Keys, DictDelete(k) PROVE IterShape' /\ IterSound'
  BY <1>4, DeleteUnderIterator
<1>5. ASSUME NEW k \in Keys, DictFind(k) PROVE IterShape' /\ IterSound'
  BY <1>1, <1>5 DEF DictFind, iteration
<1>6. ASSUME NEW n \in Nat, Expand(n) PROVE IterShape' /\ IterSound'
  <2>1. size' \in {size} \cup Sizes BY <1>s, <1>6, ExpandKeeps
  <2> QED BY <1>2, <1>6, <2>1 DEF Expand
<1>7. ASSUME DictExpand PROVE IterShape' /\ IterSound'
  <2>1. PICK n \in 0 .. MaxSize + 1 : Expand(n) BY <1>7 DEF DictExpand
  <2> QED BY <1>6, <2>1
<1>8. ASSUME DictResize PROVE IterShape' /\ IterSound'
  <2>1. used \in Nat /\ InitialSize \in Nat BY <1>s DEF TypeOK, DictAssumption, SizeAssumption
  <2>2. PICK n \in Nat : Expand(n) BY <1>8, <2>1 DEF DictResize
  <2> QED BY <1>6, <2>2
<1>9. ASSUME DictClear PROVE IterShape' /\ IterSound'
  <2>1. iter' = iter /\ iter = NoIterator BY <1>s, <1>9 DEF DictClear, iteration, IterShape
  <2> QED BY <2>1 DEF IterShape, IterSound, NoIterator
<1>10. ASSUME GetIterator PROVE IterShape' /\ IterSound'
  <2>1. iter' = [on |-> TRUE, index |-> -1, entry |-> None, next |-> None]
    BY <1>10 DEF GetIterator, NoIterator
  <2>2. due' = Held' BY <1>10 DEF GetIterator, Held
  <2> QED BY <2>1, <2>2 DEF IterShape, IterSound
<1>11. ASSUME NextInChain PROVE IterShape' /\ IterSound'
  <2>1. /\ iter.on /\ Following /\ Yield(iter.next, iter.index)
        /\ UNCHANGED <<size, table>>
    BY <1>11 DEF NextInChain
  <2>2. CASE calm
    <3>1. iter.index \in 0 .. size - 1 BY <2>1, <2>2, DueInChain
    <3>2. PICK p \in 1 .. Len(Chain) : iter.next = Chain[p] /\ Ongoing(p)
      BY <2>1, <2>2, DueInChain
    <3>3. due = {table[iter.index][y] : y \in p .. Len(table[iter.index])} \cup Ahead(iter.index)
      BY <3>2 DEF Ongoing, Chain
    <3>4. p \in 1 .. Len(table[iter.index]) /\ Yield(table[iter.index][p], iter.index)
      BY <2>1, <3>2 DEF Chain
    <3> QED BY <1>s, <2>1, <3>1, <3>3, <3>4, YieldKeeps
  <2>3. CASE ~calm
    <3>1. size > 0 /\ calm' = calm /\ iter'.on = TRUE
      BY <1>s, <2>1 DEF IterShape, Following, Yield
    <3> QED BY <1>s, <2>1, <2>3, <3>1 DEF IterShape, IterSound
  <2> QED BY <2>2, <2>3 DEF IInv, TypeOK
<1>12. ASSUME NextBucket PROVE IterShape' /\ IterSound'
  <2> DEFINE i == CHOOSE j \in BucketsAhead : \A h \in BucketsAhead : j <= h
  <2>1. /\ iter.on /\ ~Following /\ BucketsAhead # {} /\ Yield(Head(table[i]), i)
        /\ UNCHANGED <<size, table>>
    BY <1>12 DEF NextBucket
  <2>2. /\ i \in 0 .. size - 1 /\ i > iter.index
        /\ 1 \in 1 .. Len(table[i]) /\ Head(table[i]) = table[i][1]
        /\ Ahead(iter.index) = {table[i][x] : x \in 1 .. Len(table[i])} \cup Ahead(i)
    BY <2>1, NextBucketIs
  <2> HIDE DEF i
  <2>3. calm => due = {table[i][y] : y \in 1 .. Len(table[i])} \cup Ahead(i)
    BY <2>1, <2>2, DueInBuckets
  <2> QED BY <1>s, <2>1, <2>2, <2>3, YieldKeeps
<1>13. ASSUME NextIsNull PROVE IterShape' /\ IterSound'
  BY <1>13 DEF NextIsNull, IterShape, IterSound, NoIterator
<1>14. ASSUME NextIsFreed \/ RandomCall PROVE IterShape' /\ IterSound'
  BY <1>1, <1>14 DEF NextIsFreed, RandomCall, iteration
<1>15. ASSUME NEW h \in 0 .. MaxSize - 1, RandomHit(h) PROVE IterShape' /\ IterSound'
  BY <1>1, <1>15 DEF RandomHit, iteration
<1>16. CASE UNCHANGED vars
  BY <1>1, <1>16 DEF vars
<1> QED
  BY <1>3, <1>4, <1>5, <1>7, <1>8, <1>9, <1>10, <1>11, <1>12, <1>13, <1>14, <1>15, <1>16
     DEF Next

\* What kind of values the variables keep.
LEMMA StepType == ASSUME DictAssumption, IInv, [Next]_vars PROVE TypeOK'
<1> DEFINE Iters == [on : BOOLEAN, index : Int, entry : Keys \cup {None},
                     next : Keys \cup {None, Freed}]
           Rets == {"ok", "err", None} \cup Vals
           Rest == /\ iter \in Iters /\ state \in {"idle", "random", "crashed"}
                   /\ call.ret \in Rets /\ due \subseteq Keys /\ calm \in BOOLEAN
<1>s. /\ DataSound /\ Kept /\ Rest /\ IterShape /\ Held \subseteq Keys
  BY Sound DEF IInv, TypeOK
<1>1. ASSUME Rest' PROVE TypeOK'
  <2>1. DataSound' BY StepData
  <2>2. used' \in Nat
    <3>1. Sizes' = Sizes BY DEF Sizes
    <3>2. size' \in Nat
      <4>1. Sizes \subseteq Nat \ {0} BY Powers
      <4> QED BY <2>1, <3>1, <4>1 DEF DataSound
    <3>3. table' \in Tables(size') BY <2>1 DEF DataSound, Tables
    <3>4. Held' = Content(table') BY DEF Held, Content
    <3>5. Held' \subseteq Keys BY <3>2, <3>3, <3>4, Contents
    <3>6. Cardinality(Held') \in Nat
      BY <3>5, FS_Subset, FS_CardinalityType DEF DictAssumption, KeysAssumption
    <3> QED BY <2>1, <3>6 DEF DataSound
  <2> QED BY <1>1, <2>1, <2>2 DEF TypeOK, DataSound, Tables
<1>2. ASSUME NEW k \in Keys, NEW v \in Vals, DictAdd(k, v) PROVE Rest'
  BY <1>s, <1>2 DEF DictAdd, Disturb, AddNew, AddOld, GrowthFails, Call
<1>3. ASSUME NEW k \in Keys, NEW v \in Vals, DictReplace(k, v) PROVE Rest'
  BY <1>s, <1>3 DEF DictReplace, Disturb, AddNew, AddOld, GrowthFails, Call
<1>4. ASSUME NEW k \in Keys, DictDelete(k) PROVE Rest'
  <2>1. [iter EXCEPT !.next = Freed] \in Iters BY <1>s
  <2>2. iter' \in Iters /\ due' \subseteq Keys /\ call'.ret \in Rets
    BY <1>s, <1>4, <2>1 DEF DictDelete, Call
  <2> QED BY <1>s, <1>4, <2>2 DEF DictDelete
<1>5. ASSUME NEW k \in Keys, DictFind(k) PROVE Rest'
  <2>1. Find(k) \in Vals \cup {None} BY <1>s, Lookups DEF DataSound
  <2> QED BY <1>s, <1>5, <2>1 DEF DictFind, iteration, Call
<1>6. ASSUME NEW n, Expand(n) PROVE Rest'
  BY <1>s, <1>6 DEF Expand, Disturb, Call
<1>7. ASSUME DictClear PROVE Rest'
  BY <1>s, <1>7 DEF DictClear, iteration, Call
<1>8. ASSUME GetIterator PROVE Rest'
  <2>1. iter' = [on |-> TRUE, index |-> -1, entry |-> None, next |-> None]
    BY <1>8 DEF GetIterator, NoIterator
  <2>2. iter' \in Iters BY <2>1
  <2> QED BY <1>s, <1>8, <2>2 DEF GetIterator
<1>9. ASSUME NextInChain PROVE Rest'
  <2>1. /\ iter.entry # None /\ iter.next # None /\ iter.next # Freed
        /\ Yield(iter.next, iter.index) /\ UNCHANGED <<state, call>>
    BY <1>9 DEF NextInChain, Following
  <2>2. iter.next \in Keys /\ iter.index \in Int /\ size > 0 BY <1>s, <2>1 DEF IterShape
  <2>3. Successor(iter.next) \in Keys \cup {None} BY <1>s, <2>2, SuccessorTyped
  <2> QED BY <1>s, <2>1, <2>2, <2>3 DEF Yield
<1>10. ASSUME NextBucket PROVE Rest'
  <2> DEFINE i == CHOOSE j \in BucketsAhead : \A h \in BucketsAhead : j <= h
  <2>1. BucketsAhead # {} /\ Yield(Head(table[i]), i) /\ UNCHANGED <<state, call>>
    BY <1>10 DEF NextBucket
  <2>2. i \in 0 .. size - 1 /\ Head(table[i]) \in Keys
    BY <2>1, NextBucketIs
  <2> HIDE DEF i
  <2>3. size > 0 /\ i \in Int BY <1>s, <2>2 DEF Kept
  <2>4. Successor(Head(table[i])) \in Keys \cup {None} BY <1>s, <2>2, <2>3, SuccessorTyped
  <2> QED BY <1>s, <2>1, <2>2, <2>3, <2>4 DEF Yield
<1>11. ASSUME NextIsNull PROVE Rest'
  BY <1>s, <1>11 DEF NextIsNull, NoIterator
<1>12. ASSUME NextIsFreed \/ RandomCall PROVE Rest'
  BY <1>s, <1>12 DEF NextIsFreed, RandomCall, iteration
<1>13. ASSUME NEW h \in 0 .. MaxSize - 1, RandomHit(h) PROVE Rest'
  BY <1>s, <1>13 DEF RandomHit, iteration
<1>14. CASE UNCHANGED vars
  <2>1. Rest' BY <1>s, <1>14 DEF vars
  <2> QED BY <1>1, <2>1
<1>15. CASE Next
  <2> HIDE DEF Rest
  <2>1. Rest'
    BY <1>2, <1>3, <1>4, <1>5, <1>6, <1>7, <1>8, <1>9, <1>10, <1>11, <1>12, <1>13, <1>15
       DEF Next, DictExpand, DictResize
  <2> QED BY <1>1, <2>1
<1> QED BY <1>14, <1>15

LEMMA Invariance == ASSUME DictAssumption PROVE Spec => []IInv
<1>1. Init => IInv BY InitIInv
<1>2. IInv /\ [Next]_vars => IInv' BY StepData, StepIter, StepType DEF IInv
<1> QED BY <1>1, <1>2, PTL DEF Spec
-----------------------------------------------------------------------------
\* Type correctness: the table's size is a power of two it can have, its chains link
\* entries, and an iterator points to an entry, to nothing or to what was freed.
THEOREM DictTypeCorrect == ASSUME DictAssumption PROVE Spec => []TypeOK
<1>1. IInv => TypeOK BY DEF IInv
<1> QED BY <1>1, Invariance, PTL

\* Whatever is added, deleted and moved, used counts the entries, each is in the
\* bucket a lookup searches, and no key has two.
THEOREM EntriesWellPlaced == ASSUME DictAssumption PROVE Spec => []WellPlaced
<1>1. IInv => WellPlaced
  <2> SUFFICES ASSUME IInv PROVE WellPlaced
    OBVIOUS
  <2>1. DataSound /\ Kept /\ size \in Nat /\ table \in Tables(size)
    BY Sound DEF IInv, Kept
  <2>2. DOMAIN table = 0 .. size - 1 BY <2>1 DEF Tables
  <2>3. ASSUME NEW i \in DOMAIN table, NEW x \in DOMAIN table[i], NEW y \in DOMAIN table[i]
        PROVE  /\ Bucket(table[i][x], size) = i
               /\ table[i][x] = table[i][y] => x = y
    <3>1. i \in 0 .. size - 1 /\ DOMAIN table[i] = 1 .. Len(table[i])
      BY <2>1, <2>2, Chains
    <3> QED BY <2>1, <3>1 DEF Kept, Placed, Apiece
  <2> QED BY <2>1, <2>3 DEF WellPlaced, DataSound
<1> QED BY <1>1, Invariance, PTL

\* A walk with dictNext whose user deletes only what it was given last returns each entry
\* once, ends when none is left and never touches one that was freed.
THEOREM IterationIsExact == ASSUME DictAssumption PROVE Spec => IterationExact
<1> DEFINE Act == calm => /\ NextInChain \/ NextBucket => iter'.entry \in due
                          /\ NextIsNull => due = {}
                          /\ ~NextIsFreed
<1>1. ASSUME IInv PROVE Act
  <2> SUFFICES ASSUME calm PROVE /\ NextInChain \/ NextBucket => iter'.entry \in due
                                 /\ NextIsNull => due = {}
                                 /\ ~NextIsFreed
    OBVIOUS
  <2>s. Kept /\ size \in Nat /\ table \in Tables(size) BY <1>1, Sound DEF IInv, Kept
  <2>1. ASSUME NextInChain PROVE iter'.entry \in due
    <3>1. iter.on /\ Following /\ iter'.entry = iter.next BY <2>1 DEF NextInChain, Yield
    <3>2. PICK p \in 1 .. Len(Chain) : iter.next = Chain[p] /\ Ongoing(p)
      BY <1>1, <3>1, DueInChain
    <3>3. Len(Chain) \in Nat
      BY <1>1, <2>s, <3>1, DueInChain, Chains DEF Chain
    <3>4. p \in p .. Len(Chain) BY <3>2, <3>3
    <3> QED BY <3>1, <3>2, <3>4 DEF Ongoing
  <2>2. ASSUME NextBucket PROVE iter'.entry \in due
    <3> DEFINE i == CHOOSE j \in BucketsAhead : \A h \in BucketsAhead : j <= h
    <3>1. iter.on /\ ~Following /\ BucketsAhead # {} /\ iter'.entry = Head(table[i])
      BY <2>2 DEF NextBucket, Yield
    <3>2. /\ 1 \in 1 .. Len(table[i]) /\ Head(table[i]) = table[i][1]
          /\ Ahead(iter.index) = {table[i][x] : x \in 1 .. Len(table[i])} \cup Ahead(i)
      BY <1>1, <3>1, NextBucketIs
    <3> HIDE DEF i
    <3>3. due = Ahead(iter.index) BY <1>1, <3>1, DueInBuckets
    <3> QED BY <3>1, <3>2, <3>3
  <2>3. ASSUME NextIsNull PROVE due = {}
    <3>1. iter.on /\ ~Following /\ BucketsAhead = {} BY <2>3 DEF NextIsNull
    <3>2. due = Ahead(iter.index) BY <1>1, <3>1, DueInBuckets
    <3>3. ASSUME NEW k \in Ahead(iter.index) PROVE FALSE
      <4>1. k \in Held /\ Bucket(k, size) > iter.index BY DEF Ahead
      <4>2. /\ Bucket(k, size) \in 0 .. size - 1
            /\ \E x \in 1 .. Len(table[Bucket(k, size)]) : table[Bucket(k, size)][x] = k
        BY <1>1, <2>s, <4>1, Lookup, Sound DEF IInv, Kept
      <4>3. table[Bucket(k, size)] # <<>> BY <4>2
      <4> QED BY <3>1, <4>1, <4>2, <4>3 DEF BucketsAhead
    <3> QED BY <3>2, <3>3
  <2>4. ASSUME NextIsFreed PROVE FALSE
    <3>1. iter.on /\ Following /\ iter.next = Freed BY <2>4 DEF NextIsFreed
    <3>2. iter.index \in 0 .. size - 1 BY <1>1, <3>1, DueInChain
    <3>3. PICK p \in 1 .. Len(Chain) : iter.next = Chain[p]
      BY <1>1, <3>1, DueInChain
    <3>4. Chain[p] \in Keys BY <2>s, <3>2, Chains DEF Chain
    <3> QED BY <3>1, <3>3, <3>4 DEF DictAssumption, NoneAssumption
  <2> QED BY <2>1, <2>2, <2>3, <2>4
<1> HIDE DEF Act
<1>2. Spec => []IInv BY Invariance
<1>3. Spec => [][Act]_vars BY <1>1, <1>2, PTL DEF Spec
<1> QED BY <1>3 DEF IterationExact, Act
-----------------------------------------------------------------------------
\* The map a table stands for is what its entries hold.
ValIsMap == [k \in Keys |-> Find(k)] = val

LEMMA MappedIs == DictAssumption /\ DataSound => ValIsMap
<1> SUFFICES ASSUME DictAssumption, DataSound PROVE ValIsMap
  OBVIOUS
<1>1. \A k \in Keys : Find(k) = val[k] BY Lookups
<1>2. val = [k \in Keys |-> val[k]] BY DEF DataSound
<1> QED BY <1>1, <1>2 DEF ValIsMap

LEMMA InitMap == ASSUME DictAssumption, Init PROVE Map!Init
<1>1. DataSound BY InitIInv DEF IInv
<1> QED BY <1>1, MappedIs DEF ValIsMap, Init, Map!Init, Call, Map!Call

\* Each call is the map's call with the same result; what is no call of the map, such
\* as a step of an iteration, changes neither.
LEMMA StepMap == ASSUME DictAssumption, IInv, [Next]_vars PROVE [Map!Next]_(Map!mapVars)
<1>s. DataSound /\ DataSound' /\ val \in [Keys -> Vals \cup {None}]
  BY StepData DEF IInv, DataSound
<1>0. /\ [k \in Keys |-> Find(k)] = val
      /\ [k \in Keys |-> Find(k)]' = val'
  <2>1. ValIsMap BY <1>s, MappedIs
  <2>2. (DictAssumption /\ DataSound => ValIsMap)' BY MappedIs, PTL
  <2>3. DictAssumption'
    BY DEF DictAssumption, HashAssumption, SizeAssumption, NoneAssumption, KeysAssumption, Freed
  <2> QED BY <1>s, <2>1, <2>2, <2>3 DEF ValIsMap
<1>p. \A k \in Keys : Present(k) <=> val[k] # None BY <1>s, Lookups DEF DataSound
<1>1. ASSUME UNCHANGED <<val, call>> PROVE UNCHANGED Map!mapVars
  BY <1>0, <1>1 DEF Map!mapVars
<1>3. ASSUME NEW k \in Keys, NEW v \in Vals, DictAdd(k, v)
      PROVE  Map!Next \/ UNCHANGED Map!mapVars
  <2>1. CASE AddNew(k, v) /\ call' = Call("add", <<k, v>>, "ok")
    <3>1. val[k] = None /\ val' = [val EXCEPT ![k] = v] BY <1>p, <2>1 DEF AddNew
    <3>2. Map!Add(k, v) BY <1>0, <2>1, <3>1 DEF Map!Add, Call, Map!Call
    <3> QED BY <3>2 DEF Map!Next
  <2>2. CASE AddOld(k) /\ call' = Call("add", <<k, v>>, "err") /\ UNCHANGED val
    <3>1. val[k] # None BY <1>p, <2>2 DEF AddOld
    <3>2. Map!Add(k, v) BY <1>0, <2>2, <3>1 DEF Map!Add, Call, Map!Call
    <3> QED BY <3>2 DEF Map!Next
  <2>3. CASE GrowthFails BY <1>1, <2>3 DEF GrowthFails
  <2> QED BY <1>3, <2>1, <2>2, <2>3 DEF DictAdd
<1>4. ASSUME NEW k \in Keys, NEW v \in Vals, DictReplace(k, v)
      PROVE  Map!Next \/ UNCHANGED Map!mapVars
  <2>1. CASE call' = Call("put", <<k, v>>, "ok") /\ val' = [val EXCEPT ![k] = v]
    <3>1. Map!Put(k, v) BY <1>0, <2>1 DEF Map!Put, Call, Map!Call
    <3> QED BY <3>1 DEF Map!Next
  <2>2. CASE GrowthFails BY <1>1, <2>2 DEF GrowthFails
  <2> QED BY <1>4, <2>1, <2>2 DEF DictReplace, AddNew
<1>5. ASSUME NEW k \in Keys, DictDelete(k) PROVE Map!Next
  <2>1. CASE Present(k) /\ call' = Call("remove", k, "ok") /\ val' = [val EXCEPT ![k] = None]
    <3>1. val[k] # None BY <1>p, <2>1
    <3>2. Map!Remove(k) BY <1>0, <2>1, <3>1 DEF Map!Remove, Call, Map!Call
    <3> QED BY <3>2 DEF Map!Next
  <2>2. CASE ~Present(k) /\ call' = Call("remove", k, "err") /\ UNCHANGED val
    <3>1. val[k] = None BY <1>p, <2>2
    <3>2. val' = [val EXCEPT ![k] = None] BY <1>s, <2>2, <3>1
    <3>3. Map!Remove(k) BY <1>0, <2>2, <3>1, <3>2 DEF Map!Remove, Call, Map!Call
    <3> QED BY <3>3 DEF Map!Next
  <2> QED BY <1>5, <2>1, <2>2 DEF DictDelete
<1>6. ASSUME NEW k \in Keys, DictFind(k) PROVE Map!Next
  <2>1. call' = Call("get", k, val[k]) /\ UNCHANGED val BY <1>s, <1>6, Lookups DEF DictFind
  <2>2. Map!Get(k) BY <1>0, <2>1 DEF Map!Get, Call, Map!Call
  <2> QED BY <2>2 DEF Map!Next
<1>7. ASSUME NEW n \in Nat, Expand(n) PROVE Map!Next \/ UNCHANGED Map!mapVars
  <2>1. used = Map!Cardinality(Map!Present)
    <3>1. used = Cardinality(Held) BY <1>s DEF DataSound
    <3>2. Held = {k \in Keys : val[k] # None} BY <1>s, Sound DEF DataSound
    <3>3. Map!Present = Held BY <1>0, <3>2 DEF Map!Present
    <3>4. Map!Cardinality(Map!Present) = Cardinality(Map!Present)
      BY DEF Map!Cardinality, Cardinality
    <3> QED BY <3>1, <3>3, <3>4
  <2>2. used \in Nat BY DEF IInv, TypeOK
  <2>3. CASE UNCHANGED <<val, call>> BY <1>1, <2>3
  <2>4. CASE /\ call' = Call("expand", n, IF used > n THEN "err" ELSE "ok")
             /\ UNCHANGED val
    <3>1. call'.op = "expand" /\ call'.arg = n BY <2>4 DEF Call
    <3>2. call' = Map!Call("expand", call'.arg,
                           IF Map!Cardinality(Map!Present) > call'.arg THEN "err" ELSE "ok")
      BY <2>1, <2>4, <3>1 DEF Call, Map!Call
    <3>3. UNCHANGED [k \in Keys |-> Find(k)] BY <1>0, <2>4
    <3>4. Map!Reshape BY ONLY <3>1, <3>2, <3>3 DEF Map!Reshape
    <3> QED BY <3>4 DEF Map!Next
  <2> QED BY <1>7, <2>2, <2>3, <2>4 DEF Expand
<1>7a. ASSUME DictExpand \/ DictResize PROVE Map!Next \/ UNCHANGED Map!mapVars
  <2>1. used \in Nat /\ InitialSize \in Nat /\ MaxSize \in Nat
    BY DEF IInv, TypeOK, DictAssumption, SizeAssumption
  <2>2. PICK n \in Nat : Expand(n) BY <1>7a, <2>1 DEF DictExpand, DictResize
  <2> QED BY <1>7, <2>2
<1>8. ASSUME DictClear PROVE Map!Next
  BY <1>0, <1>8 DEF DictClear, Map!Clear, Map!Next, Call, Map!Call
<1>9. ASSUME \/ GetIterator \/ NextInChain \/ NextIsFreed \/ NextBucket \/ NextIsNull
             \/ RandomCall \/ \E h \in 0 .. MaxSize - 1 : RandomHit(h)
      PROVE  UNCHANGED Map!mapVars
  BY <1>1, <1>9
     DEF GetIterator, NextInChain, NextIsFreed, NextBucket, NextIsNull, RandomCall, RandomHit
<1>10. CASE UNCHANGED vars
  BY <1>1, <1>10 DEF vars
<1> QED
  BY <1>3, <1>4, <1>5, <1>6, <1>7a, <1>8, <1>9, <1>10 DEF Next

\* A dict is a map, whatever sizes its table goes through: every call changes the one key it names and returns what the map would.
THEOREM RefinesMap == ASSUME DictAssumption PROVE Spec => ImplementsMap
<1>1. Init => Map!Init BY InitMap
<1>2. IInv /\ [Next]_vars => [Map!Next]_(Map!mapVars) BY StepMap
<1> QED BY <1>1, <1>2, Invariance, PTL DEF Spec, ImplementsMap, Map!Spec
=============================================================================
