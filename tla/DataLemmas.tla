----------------------------- MODULE DataLemmas -----------------------------
(***************************************************************************)
(* Facts about numbers and sequences that the proofs of several components  *)
(* rest on: how long a run of consecutive numbers is, and induction stated  *)
(* for the set of the values that have a property, so that no operator is   *)
(* passed to a theorem.                                                     *)
(***************************************************************************)
EXTENDS Integers, Sequences, FiniteSets, Lists, FiniteSetTheorems,
        SequenceTheorems, TLAPS

\* A finite set above c that has no gaps is the interval that its size gives.
LEMMA GaplessIsInterval ==
    ASSUME NEW c \in Int, NEW R, IsFiniteSet(R),
           \A s \in R : s \in Int /\ s > c /\ (c+1)..s \subseteq R
    PROVE  /\ Cardinality(R) \in Nat
           /\ R = (c+1)..(c + Cardinality(R))
<1> DEFINE k == Cardinality(R)
<1>1. k \in Nat
  BY FS_CardinalityType
<1>2. \A s \in R : s <= c + k
  <2> TAKE s \in R
  <2>1. s \in Int /\ s > c /\ (c+1)..s \in SUBSET R
    OBVIOUS
  <2>2. Cardinality((c+1)..s) = s - c
    BY <2>1, FS_Interval
  <2>3. Cardinality((c+1)..s) <= k
    BY <2>1, FS_Subset
  <2> QED BY <2>1, <2>2, <2>3, <1>1
<1>3. R \subseteq (c+1)..(c+k)
  BY <1>1, <1>2
<1>4. IsFiniteSet((c+1)..(c+k)) /\ Cardinality((c+1)..(c+k)) = k
  <2>1. c + 1 \in Int /\ c + k \in Int
    BY <1>1
  <2>2. /\ IsFiniteSet((c+1)..(c+k))
        /\ Cardinality((c+1)..(c+k))
             = IF c + 1 > c + k THEN 0 ELSE (c + k) - (c + 1) + 1
    BY <2>1, FS_Interval
  <2> HIDE DEF k
  <2> QED BY <1>1, <2>2
<1> QED BY <1>1, <1>3, <1>4, FS_Subset

\* A set with 0 and with the successor of each of its numbers has them all.
LEMMA NatSetInduction ==
    ASSUME NEW P, 0 \in P, \A n \in Nat : n \in P => n + 1 \in P
    PROVE  Nat \subseteq P
<1> SUFFICES ASSUME NEW m \in Nat PROVE m \in P
  OBVIOUS
\* The numbers up to m below which P has no gap.
<1> DEFINE R == {i \in 0..m : 0..i \subseteq P}
           k == Cardinality(R)
<1>1. R \subseteq 0..m /\ IsFiniteSet(R)
  <2>1. IsFiniteSet(0..m)
    BY FS_Interval
  <2> QED BY <2>1, FS_Subset
<1>2. \A s \in R : s \in Int /\ s > -1 /\ (-1+1)..s \subseteq R
  OBVIOUS
<1>3. k \in Nat /\ R = (-1+1)..(-1+k)
  <2>1. -1 \in Int
    OBVIOUS
  <2> HIDE DEF R
  <2>2. IsFiniteSet(R)
    BY <1>1
  <2> QED BY <1>2, <2>1, <2>2, GaplessIsInterval, Zenon
<1>4. 0 \in R
  OBVIOUS
<1>5. k > 0 /\ k - 1 \in R
  <2> HIDE DEF R, k
  <2> QED BY <1>3, <1>4
<1>6. 0..(k-1) \subseteq P /\ k - 1 \in 0..m
  <2> HIDE DEF k
  <2> QED BY <1>5
<1>7. k \notin R
  <2> HIDE DEF R, k
  <2> QED BY <1>3
<1> HIDE DEF k
<1>8. k \in P
  <2>1. k - 1 \in P /\ k - 1 \in Nat
    BY <1>3, <1>5, <1>6
  <2> QED BY <2>1, <1>3
<1>9. 0..k \subseteq P
  BY <1>3, <1>6, <1>8
<1> QED BY <1>3, <1>6, <1>7, <1>9

\* A set with each number whose predecessors it has, has them all.
LEMMA NatSetStrongInduction ==
    ASSUME NEW P, \A n \in Nat : 0..(n-1) \subseteq P => n \in P
    PROVE  Nat \subseteq P
<1> DEFINE Q == {n \in Nat : 0..(n-1) \subseteq P}
<1>1. 0 \in Q
  OBVIOUS
<1>2. ASSUME NEW n \in Nat, n \in Q PROVE n + 1 \in Q
  <2>1. n \in P /\ 0..(n-1) \subseteq P
    BY <1>2
  <2>2. 0..((n+1)-1) \subseteq P
    BY <2>1
  <2> QED BY <2>2
<1>3. Nat \subseteq Q
  <2> HIDE DEF Q
  <2> QED BY <1>1, <1>2, NatSetInduction
<1> QED BY <1>3

\* A bounded set of numbers has a greatest one.
LEMMA NatSetMax ==
    ASSUME NEW k \in Nat, NEW S, S \subseteq 0..k, S # {}
    PROVE  \E m \in S : \A x \in S : x <= m
<1> DEFINE P == {n \in Nat : (\E x \in S : x >= k - n) => \E m \in S : \A x \in S : x <= m}
<1>1. 0 \in P
  OBVIOUS
<1>2. ASSUME NEW n \in Nat, n \in P PROVE n + 1 \in P
  <2> SUFFICES ASSUME NEW y \in S, y >= k - (n + 1)
               PROVE  \E m \in S : \A x \in S : x <= m
    OBVIOUS
  <2>1. CASE \E x \in S : x >= k - n
    BY <1>2, <2>1
  <2>2. CASE ~ \E x \in S : x >= k - n
    <3>1. \A x \in S : x <= y
      BY <2>2
    <3> QED BY <3>1
  <2> QED BY <2>1, <2>2
<1> HIDE DEF P
<1>3. k \in P
  BY <1>1, <1>2, NatSetInduction
<1>4. \E x \in S : x >= k - k
  <2>1. PICK x \in S : x \in 0..k
    OBVIOUS
  <2>2. x >= k - k
    BY <2>1
  <2> QED BY <2>2
<1> QED BY <1>3, <1>4 DEF P

\* A set of naturals that is not empty has a least element.
LEMMA NatSetMin ==
    ASSUME NEW S, S \subseteq Nat, S # {}
    PROVE  \E m \in S : \A x \in S : m <= x
<1> DEFINE P == {n \in Nat : n \in S => \E m \in S : \A x \in S : m <= x}
<1>1. ASSUME NEW n \in Nat, 0..(n-1) \subseteq P PROVE n \in P
  <2> SUFFICES ASSUME n \in S PROVE \E m \in S : \A x \in S : m <= x
    OBVIOUS
  <2>1. CASE \E y \in S : y < n
    <3>1. PICK y \in S : y < n
      BY <2>1
    <3>2. y \in 0..(n-1)
      BY <3>1
    <3> QED BY <1>1, <3>1, <3>2
  <2>2. CASE ~ \E y \in S : y < n
    BY <2>2
  <2> QED BY <2>1, <2>2
<1> HIDE DEF P
<1>2. Nat \subseteq P
  BY <1>1, NatSetStrongInduction
<1> QED BY <1>2 DEF P

\* A set with the empty sequence and with each of its sequences extended by
\* an element has all the sequences.
LEMMA SeqSetInduction ==
    ASSUME NEW S, NEW P, <<>> \in P,
           \A s \in Seq(S), e \in S : s \in P => Append(s, e) \in P
    PROVE  Seq(S) \subseteq P
<1> DEFINE N == {n \in Nat : \A s \in Seq(S) : Len(s) = n => s \in P}
<1>1. 0 \in N
  <2> SUFFICES ASSUME NEW s \in Seq(S), Len(s) = 0 PROVE s \in P
    OBVIOUS
  <2> QED BY EmptySeq
<1>2. ASSUME NEW n \in Nat, n \in N PROVE n + 1 \in N
  <2> SUFFICES ASSUME NEW s \in Seq(S), Len(s) = n + 1 PROVE s \in P
    OBVIOUS
  <2>1. s # <<>>
    BY EmptySeq
  <2>2. PICK t \in Seq(S), e \in S : s = Append(t, e)
    BY <2>1, SequenceEmptyOrAppend
  <2>3. Len(t) = n
    BY <2>2, AppendProperties, LenProperties
  <2> QED BY <1>2, <2>2, <2>3
<1>3. Nat \subseteq N
  <2> HIDE DEF N
  <2> QED BY <1>1, <1>2, NatSetInduction
<1> QED BY <1>3, LenProperties

-----------------------------------------------------------------------------
(* Lists.                                                                   *)

\* What the picking of a list's positions computes, by recursion.
PickStep(s, I, f) ==
    [i \in 0..Len(s) |->
        IF i = 0 THEN <<>>
        ELSE IF i \in I THEN Append(f[i-1], s[i])
        ELSE f[i-1]]

\* The recursion of Picked defines a function.
LEMMA PickExists ==
    ASSUME NEW I, NEW s, NEW n \in Nat, Len(s) = n
    PROVE  \E f : f = PickStep(s, I, f)
<1> DEFINE G(k, f) == [i \in 0..k |-> IF i = 0 THEN <<>>
                                     ELSE IF i \in I THEN Append(f[i-1], s[i])
                                     ELSE f[i-1]]
           P == {k \in Nat : \E f : f = G(k, f)}
<1>1. 0 \in P
  <2> DEFINE f == [i \in 0..0 |-> <<>>]
  <2>1. f = G(0, f)
    OBVIOUS
  <2> QED BY <2>1
<1>2. ASSUME NEW k \in Nat, k \in P PROVE k + 1 \in P
  <2>1. PICK f : f = G(k, f)
    BY <1>2
  <2> DEFINE last == IF k + 1 \in I THEN Append(f[k], s[k+1]) ELSE f[k]
             g == [i \in 0..(k+1) |-> IF i <= k THEN f[i] ELSE last]
  <2>2. \A i \in 0..(k+1) : g[i] = G(k+1, g)[i]
    <3> TAKE i \in 0..(k+1)
    <3>1. CASE i = 0
      BY <2>1, <3>1
    <3>2. CASE i \in 1..k
      <4>1. i - 1 \in 0..k /\ i \in 0..k /\ i # 0 /\ i - 1 \in 0..(k+1)
        BY <3>2
      <4>2. f[i] = IF i \in I THEN Append(f[i-1], s[i]) ELSE f[i-1]
        BY <2>1, <4>1
      <4>3. g[i] = f[i] /\ g[i-1] = f[i-1]
        BY <4>1
      <4> HIDE DEF g
      <4> QED BY <4>1, <4>2, <4>3
    <3>3. CASE i = k + 1
      <4>1. /\ g[k] = f[k] /\ (k + 1) - 1 = k /\ g[k+1] = last /\ k + 1 # 0
            /\ k + 1 \in 0..(k+1)
        OBVIOUS
      <4> HIDE DEF g
      <4> QED BY <3>3, <4>1
    <3> QED BY <3>1, <3>2, <3>3
  <2> HIDE DEF last
  <2>3. g = G(k+1, g)
    BY <2>2
  <2> HIDE DEF g
  <2> QED BY <2>3
<1> HIDE DEF P
<1>3. n \in P
  BY <1>1, <1>2, NatSetInduction
<1> QED BY <1>3 DEF P, PickStep

\* Picking every position gives the list.
LEMMA PickAll ==
    ASSUME NEW S, NEW s \in Seq(S), NEW I, 1..Len(s) \subseteq I
    PROVE  Picked(s, I) = s
<1> DEFINE n == Len(s)
           f == CHOOSE f : f = PickStep(s, I, f)
<1>1. n \in Nat /\ s \in [1..n -> S]
  BY LenProperties
<1>2. f = PickStep(s, I, f)
  BY <1>1, PickExists
<1>3. Picked(s, I) = f[n]
  BY DEF Picked, PickStep
<1> HIDE DEF f
<1> DEFINE P == {k \in Nat : k <= n => f[k] \in Seq(S) /\ f[k] = [i \in 1..k |-> s[i]]}
<1>4. 0 \in P
  <2>1. f[0] = <<>>
    BY <1>1, <1>2 DEF PickStep
  <2>2. <<>> \in Seq(S) /\ <<>> = [i \in 1..0 |-> s[i]]
    OBVIOUS
  <2> QED BY <2>1, <2>2
<1>5. ASSUME NEW k \in Nat, k \in P PROVE k + 1 \in P
  <2> SUFFICES ASSUME k + 1 <= n
               PROVE  f[k+1] \in Seq(S) /\ f[k+1] = [i \in 1..(k+1) |-> s[i]]
    OBVIOUS
  <2>1. f[k] \in Seq(S) /\ f[k] = [i \in 1..k |-> s[i]]
    BY <1>1, <1>5
  <2>2. f[k+1] = Append(f[k], s[k+1])
    <3>1. k + 1 \in 0..n /\ k + 1 # 0 /\ (k + 1) - 1 = k /\ k + 1 \in I
      BY <1>1
    <3> QED BY <1>2, <3>1 DEF PickStep
  <2>3. s[k+1] \in S
    BY <1>1
  <2> DEFINE g == Append(f[k], s[k+1])
             h == [i \in 1..(k+1) |-> s[i]]
  <2>4. Len(f[k]) = k
    BY <2>1
  <2>5. /\ g \in Seq(S) /\ Len(g) = k + 1 /\ g[k+1] = s[k+1]
        /\ \A i \in 1..k : g[i] = f[k][i]
    BY <2>1, <2>3, <2>4, AppendProperties
  <2>6. h \in Seq(S) /\ Len(h) = k + 1
    BY <1>1
  <2>7. \A i \in 1..(k+1) : g[i] = h[i]
    BY <2>1, <2>5
  <2> HIDE DEF g, h
  <2>8. g = h
    BY <2>5, <2>6, <2>7, SeqEqual
  <2> QED BY <2>2, <2>5, <2>8 DEF g, h
<1> HIDE DEF P
<1>6. Nat \subseteq P
  BY <1>4, <1>5, NatSetInduction
<1>7. f[n] = [i \in 1..n |-> s[i]]
  BY <1>1, <1>6 DEF P
<1> QED BY <1>1, <1>3, <1>7

Elements(s) == {s[i] : i \in DOMAIN s}

\* Picking keeps what is at the positions, and repeats nothing.
LEMMA PickSpec ==
    ASSUME NEW S, NEW s \in Seq(S), NEW I
    PROVE  /\ Picked(s, I) \in Seq(S)
           /\ Elements(Picked(s, I)) = {s[i] : i \in I \cap DOMAIN s}
           /\ Once(s) => Once(Picked(s, I))
<1> DEFINE n == Len(s)
           f == CHOOSE f : f = PickStep(s, I, f)
           Good(k) == /\ f[k] \in Seq(S)
                      /\ Elements(f[k]) = {s[i] : i \in I \cap 1..k}
                      /\ Once(s) => Once(f[k])
<1>1. n \in Nat /\ DOMAIN s = 1..n /\ \A i \in 1..n : s[i] \in S
  BY LenProperties
<1>2. f = PickStep(s, I, f)
  BY <1>1, PickExists
<1>3. Picked(s, I) = f[n]
  BY DEF Picked, PickStep
<1> HIDE DEF f
<1> DEFINE P == {k \in Nat : k <= n => Good(k)}
<1>4. 0 \in P
  <2>1. f[0] = <<>>
    BY <1>1, <1>2 DEF PickStep
  <2>2. <<>> \in Seq(S) /\ Elements(<<>>) = {} /\ Once(<<>>)
    BY DEF Elements, Once
  <2>3. {s[i] : i \in I \cap 1..0} = {}
    OBVIOUS
  <2> QED BY <2>1, <2>2, <2>3
<1>5. ASSUME NEW k \in Nat, k \in P PROVE k + 1 \in P
  <2> SUFFICES ASSUME k + 1 <= n PROVE Good(k+1)
    OBVIOUS
  <2>1. Good(k)
    BY <1>1, <1>5
  <2>2. k + 1 \in 0..n /\ k + 1 # 0 /\ (k + 1) - 1 = k /\ k + 1 \in 1..n
    BY <1>1
  <2>3. f[k+1] = IF k + 1 \in I THEN Append(f[k], s[k+1]) ELSE f[k]
    BY <1>2, <2>2 DEF PickStep
  <2>4. CASE k + 1 \notin I
    <3>1. I \cap 1..(k+1) = I \cap 1..k
      BY <2>4
    <3> QED BY <2>1, <2>3, <2>4, <3>1
  <2>5. CASE k + 1 \in I
    <3> DEFINE g == f[k]
               h == Append(g, s[k+1])
               m == Len(g)
    <3>1. f[k+1] = h
      BY <2>3, <2>5
    <3>2. g \in Seq(S) /\ m \in Nat /\ DOMAIN g = 1..m /\ s[k+1] \in S
      BY <1>1, <2>1, <2>2, LenProperties
    <3> HIDE DEF g, m
    <3>3. /\ h \in Seq(S) /\ Len(h) = m + 1 /\ h[m+1] = s[k+1]
          /\ \A i \in 1..m : h[i] = g[i]
      BY <3>2, AppendProperties DEF m
    <3>4. DOMAIN h = 1..(m+1)
      BY <3>3, LenProperties
    <3> HIDE DEF h
    <3>5. Elements(h) = Elements(g) \cup {s[k+1]}
      BY <3>2, <3>3, <3>4 DEF Elements
    <3>6. {s[i] : i \in I \cap 1..(k+1)} = {s[i] : i \in I \cap 1..k} \cup {s[k+1]}
      BY <2>2, <2>5
    <3>7. Elements(g) = {s[i] : i \in I \cap 1..k} /\ (Once(s) => Once(g))
      BY <2>1 DEF g
    <3>8. Once(s) => Once(h)
      <4> SUFFICES ASSUME Once(s), NEW i \in 1..(m+1), NEW j \in 1..(m+1), h[i] = h[j]
                   PROVE  i = j
        BY <3>4 DEF Once
      <4>1. s[k+1] \notin Elements(g)
        <5>1. \A a \in 1..k : s[a] # s[k+1]
          BY <1>1, <2>2 DEF Once
        <5> QED BY <3>7, <5>1
      <4>2. \A x \in 1..m : h[x] \in Elements(g)
        BY <3>2, <3>3 DEF Elements
      <4>3. CASE i = m + 1 \/ j = m + 1
        BY <3>2, <3>3, <4>1, <4>2, <4>3
      <4>4. CASE i # m + 1 /\ j # m + 1
        <5>1. i \in 1..m /\ j \in 1..m
          BY <3>2, <4>4
        <5>2. g[i] = g[j]
          BY <3>3, <5>1
        <5>3. \A a, b \in 1..m : g[a] = g[b] => a = b
          BY <3>2, <3>7 DEF Once
        <5> QED BY <5>1, <5>2, <5>3
      <4> QED BY <4>3, <4>4
    <3> QED BY <3>1, <3>3, <3>5, <3>6, <3>7, <3>8
  <2> QED BY <2>4, <2>5
<1> HIDE DEF P
<1>6. Nat \subseteq P
  BY <1>4, <1>5, NatSetInduction
<1>7. n \in P
  BY <1>1, <1>6
<1>8. /\ f[n] \in Seq(S)
      /\ Elements(f[n]) = {s[i] : i \in I \cap 1..n}
      /\ Once(s) => Once(f[n])
  <2> HIDE DEF n
  <2> QED BY <1>1, <1>7 DEF P
<1> QED BY <1>1, <1>3, <1>8

\* An element that is not there yet may be appended.
LEMMA AppendOnce ==
    ASSUME NEW S, NEW s \in Seq(S), NEW e \in S
    PROVE  /\ Append(s, e) \in Seq(S)
           /\ Elements(Append(s, e)) = Elements(s) \cup {e}
           /\ Once(s) /\ e \notin Elements(s) => Once(Append(s, e))
<1> DEFINE h == Append(s, e)
           m == Len(s)
<1>1. m \in Nat /\ DOMAIN s = 1..m
  BY LenProperties
<1>2. /\ h \in Seq(S) /\ Len(h) = m + 1 /\ h[m+1] = e
      /\ \A i \in 1..m : h[i] = s[i]
  BY AppendProperties
<1>3. DOMAIN h = 1..(m+1)
  BY <1>2, LenProperties
<1> HIDE DEF h
<1>4. Elements(h) = Elements(s) \cup {e}
  BY <1>1, <1>2, <1>3 DEF Elements
<1>5. ASSUME Once(s), e \notin Elements(s), NEW i \in 1..(m+1), NEW j \in 1..(m+1),
             h[i] = h[j]
      PROVE  i = j
  <2>1. \A x \in 1..m : h[x] \in Elements(s)
    BY <1>1, <1>2 DEF Elements
  <2>2. CASE i = m + 1 \/ j = m + 1
    BY <1>1, <1>2, <1>5, <2>1, <2>2
  <2>3. CASE i # m + 1 /\ j # m + 1
    BY <1>1, <1>2, <1>5, <2>3 DEF Once
  <2> QED BY <2>2, <2>3
<1>6. Once(s) /\ e \notin Elements(s) => Once(h)
  BY <1>3, <1>5 DEF Once
<1> QED BY <1>2, <1>4, <1>6 DEF h

\* x stands before y.
Earlier(s, x, y) == \E i, j \in DOMAIN s : i < j /\ s[i] = x /\ s[j] = y

\* Elements may be cut out of the middle.
LEMMA CutOnce ==
    ASSUME NEW S, NEW s \in Seq(S), NEW a \in 0..Len(s), NEW b \in (a+1)..(Len(s)+1)
    PROVE  LET h == SubSeq(s, 1, a) \o SubSeq(s, b, Len(s))
           IN  /\ h \in Seq(S)
               /\ Elements(h) = {s[i] : i \in 1..a \cup b..Len(s)}
               /\ Once(s) => Once(h)
               /\ \A x, y : Earlier(h, x, y) => Earlier(s, x, y)
<1> DEFINE n == Len(s)
           u == SubSeq(s, 1, a)
           v == SubSeq(s, b, n)
           h == u \o v
           m == n - b + 1
<1>1. /\ n \in Nat /\ DOMAIN s = 1..n /\ \A i \in 1..n : s[i] \in S
      /\ a \in Nat /\ b \in Nat /\ m \in Nat /\ a <= n /\ a < b /\ b + m = n + 1
  BY LenProperties
<1>2. u \in Seq(S) /\ Len(u) = a /\ \A i \in 1..a : u[i] = s[i]
  <2>1. \A i \in 1..a : s[i] \in S
    BY <1>1
  <2>2. /\ u \in Seq(S) /\ Len(u) = IF 1 <= a THEN a - 1 + 1 ELSE 0
        /\ \A i \in 1..(a - 1 + 1) : u[i] = s[1 + i - 1]
    BY <1>1, <2>1, SubSeqProperties
  <2> QED BY <1>1, <2>2
<1>3. v \in Seq(S) /\ Len(v) = m /\ \A i \in 1..m : v[i] = s[b + i - 1]
  <2>1. \A i \in b..n : s[i] \in S
    BY <1>1
  <2>2. /\ v \in Seq(S) /\ Len(v) = IF b <= n THEN n - b + 1 ELSE 0
        /\ \A i \in 1..(n - b + 1) : v[i] = s[b + i - 1]
    BY <1>1, <2>1, SubSeqProperties
  <2> QED BY <1>1, <2>2
<1> HIDE DEF u, v, m
<1>4. /\ h \in Seq(S) /\ Len(h) = a + m
      /\ \A i \in 1..(a + m) : h[i] = IF i <= a THEN u[i] ELSE v[i - a]
  <2>1. /\ h \in Seq(S) /\ Len(h) = Len(u) + Len(v)
        /\ \A i \in 1..(Len(u) + Len(v)) : h[i] = IF i <= Len(u) THEN u[i] ELSE v[i - Len(u)]
    BY <1>2, <1>3, ConcatProperties
  <2> HIDE DEF h
  <2> QED BY <1>2, <1>3, <2>1
<1>5. DOMAIN h = 1..(a + m)
  BY <1>4, LenProperties
<1> HIDE DEF h
\* Where the elements of h come from.
<1> DEFINE from(i) == IF i <= a THEN i ELSE b + (i - a) - 1
<1>6. \A i \in 1..(a + m) : h[i] = s[from(i)] /\ from(i) \in 1..a \cup b..n
  <2> TAKE i \in 1..(a + m)
  <2>1. CASE i <= a
    BY <1>1, <1>2, <1>4, <2>1
  <2>2. CASE ~ (i <= a)
    <3>1. i - a \in 1..m /\ b + (i - a) - 1 \in b..n
      BY <1>1, <2>2
    <3>2. h[i] = v[i - a]
      BY <1>4, <2>2
    <3> QED BY <1>3, <2>2, <3>1, <3>2
  <2> QED BY <2>1, <2>2
<1>7. \A k \in 1..a \cup b..n : \E i \in 1..(a + m) : from(i) = k
  <2> TAKE k \in 1..a \cup b..n
  <2>1. CASE k \in 1..a
    BY <1>1, <2>1
  <2>2. CASE k \in b..n
    <3>1. (a + (k - b + 1)) \in 1..(a + m) /\ from(a + (k - b + 1)) = k
      BY <1>1, <2>2
    <3> QED BY <3>1
  <2> QED BY <2>1, <2>2
<1>8. \A i, j \in 1..(a + m) : /\ from(i) = from(j) => i = j
                               /\ i < j => from(i) < from(j)
  BY <1>1
<1> HIDE DEF from
<1>9. Elements(h) = {s[i] : i \in 1..a \cup b..n}
  <2>1. Elements(h) = {h[i] : i \in 1..(a + m)}
    BY <1>5 DEF Elements
  <2>2. \A i \in 1..(a + m) : h[i] \in {s[k] : k \in 1..a \cup b..n}
    BY <1>6
  <2>3. \A k \in 1..a \cup b..n : s[k] \in {h[i] : i \in 1..(a + m)}
    BY <1>6, <1>7
  <2> QED BY <2>1, <2>2, <2>3
<1>10. 1..a \cup b..n \subseteq DOMAIN s
  BY <1>1
<1>11. Once(s) => Once(h)
  BY <1>5, <1>6, <1>8, <1>10 DEF Once
<1>12. \A x, y : Earlier(h, x, y) => Earlier(s, x, y)
  BY <1>5, <1>6, <1>8, <1>10 DEF Earlier
<1> QED BY <1>4, <1>9, <1>11, <1>12 DEF h, u, v

\* A slice of a sequence.
LEMMA SliceOnce ==
    ASSUME NEW S, NEW s \in Seq(S), NEW a \in 1..(Len(s)+1), NEW b \in 0..Len(s)
    PROVE  /\ SubSeq(s, a, b) \in Seq(S)
           /\ Elements(SubSeq(s, a, b)) = {s[i] : i \in a..b}
           /\ Once(s) => Once(SubSeq(s, a, b))
           /\ \A x, y : Earlier(SubSeq(s, a, b), x, y) => Earlier(s, x, y)
<1> DEFINE n == Len(s)
           h == SubSeq(s, a, b)
<1>1. /\ n \in Nat /\ DOMAIN s = 1..n /\ \A i \in 1..n : s[i] \in S
      /\ a \in Nat /\ b \in Nat /\ a >= 1 /\ b <= n
  BY LenProperties
<1>2. /\ h \in Seq(S) /\ Len(h) = IF a <= b THEN b - a + 1 ELSE 0
      /\ \A i \in 1..(b - a + 1) : h[i] = s[a + i - 1]
  <2>1. \A i \in a..b : s[i] \in S
    BY <1>1
  <2> QED BY <1>1, <2>1, SubSeqProperties
<1> HIDE DEF h
<1>3. DOMAIN h = 1..(b - a + 1)
  BY <1>1, <1>2, LenProperties
<1>4. \A i \in 1..(b - a + 1) : a + i - 1 \in a..b /\ a + i - 1 \in 1..n
  BY <1>1
<1>5. \A k \in a..b : k - a + 1 \in 1..(b - a + 1) /\ a + (k - a + 1) - 1 = k
  BY <1>1
<1>6. Elements(h) = {s[i] : i \in a..b}
  <2>1. \A i \in DOMAIN h : h[i] \in {s[k] : k \in a..b}
    BY <1>2, <1>3, <1>4
  <2>2. \A k \in a..b : s[k] \in Elements(h)
    BY <1>2, <1>3, <1>5 DEF Elements
  <2> QED BY <2>1, <2>2 DEF Elements
<1>7. ASSUME Once(s), NEW i \in DOMAIN h, NEW j \in DOMAIN h, h[i] = h[j]
      PROVE  i = j
  <2>1. s[a + i - 1] = s[a + j - 1] /\ a + i - 1 \in 1..n /\ a + j - 1 \in 1..n
    BY <1>2, <1>3, <1>4, <1>7
  <2>2. a + i - 1 = a + j - 1
    BY <1>1, <1>7, <2>1 DEF Once
  <2> QED BY <1>1, <1>3, <2>2
<1>8. ASSUME NEW x, NEW y, Earlier(h, x, y) PROVE Earlier(s, x, y)
  <2>1. PICK i \in DOMAIN h, j \in DOMAIN h : i < j /\ h[i] = x /\ h[j] = y
    BY <1>8 DEF Earlier
  <2>2. /\ a + i - 1 \in DOMAIN s /\ s[a + i - 1] = x
        /\ a + j - 1 \in DOMAIN s /\ s[a + j - 1] = y
    BY <1>1, <1>2, <1>3, <1>4, <2>1
  <2>3. a + i - 1 < a + j - 1
    BY <1>1, <1>3, <2>1
  <2> QED BY <2>2, <2>3 DEF Earlier
<1> QED BY <1>2, <1>6, <1>7, <1>8 DEF Once, h

\* What a concatenation holds.
LEMMA ConcatElements ==
    ASSUME NEW S, NEW a \in Seq(S), NEW b \in Seq(S)
    PROVE  /\ a \o b \in Seq(S)
           /\ Elements(a \o b) = Elements(a) \cup Elements(b)
<1> DEFINE c == a \o b
<1>1. /\ a \o b \in Seq(S) /\ Len(a \o b) = Len(a) + Len(b)
      /\ \A x \in 1..Len(a) + Len(b) :
            (a \o b)[x] = IF x <= Len(a) THEN a[x] ELSE b[x - Len(a)]
  BY ConcatProperties
<1>2. /\ Len(a) \in Nat /\ Len(b) \in Nat
      /\ DOMAIN a = 1..Len(a) /\ DOMAIN b = 1..Len(b)
      /\ DOMAIN c = 1..(Len(a) + Len(b))
  BY <1>1, LenProperties
<1>3. ASSUME NEW x \in DOMAIN c PROVE c[x] \in Elements(a) \cup Elements(b)
  <2>1. CASE x <= Len(a)
    <3>1. x \in DOMAIN a /\ c[x] = a[x]
      BY <1>1, <1>2, <2>1
    <3> QED BY <3>1 DEF Elements
  <2>2. CASE ~ (x <= Len(a))
    <3>1. x - Len(a) \in DOMAIN b /\ c[x] = b[x - Len(a)]
      BY <1>1, <1>2, <2>2
    <3> QED BY <3>1 DEF Elements
  <2> QED BY <2>1, <2>2
<1>4. ASSUME NEW x \in DOMAIN a PROVE a[x] \in Elements(c)
  <2>1. x \in DOMAIN c /\ c[x] = a[x]
    BY <1>1, <1>2
  <2> QED BY <2>1 DEF Elements
<1>5. ASSUME NEW x \in DOMAIN b PROVE b[x] \in Elements(c)
  <2>1. x + Len(a) \in DOMAIN c /\ c[x + Len(a)] = b[x]
    BY <1>1, <1>2
  <2> QED BY <2>1 DEF Elements
<1> HIDE DEF c
<1> QED BY <1>1, <1>3, <1>4, <1>5 DEF Elements, c
=============================================================================
