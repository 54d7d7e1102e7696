---------------------------- MODULE PagingProofs ----------------------------
(***************************************************************************)
(* Proofs about fitting and paging, for every result, every datagram limit  *)
(* at every attempt, every cost of a pointer and every bound on follow-ups:  *)
(* the pages that a client fetches make up the whole result, and overlap    *)
(* nowhere.  The requests are plain texts, of which continuations can be     *)
(* made.                                                                    *)
(***************************************************************************)
EXTENDS Paging, DataLemmas

-----------------------------------------------------------------------------
(* FitToSize.                                                               *)

\* One round of the binary search.
Narrowed(start, limit, b) ==
    LET mid == (b.lo + b.hi + 1) \div 2
    IN  IF b.lo >= b.hi THEN b
        ELSE IF Fits(start, mid, limit) THEN [b EXCEPT !.lo = mid]
        ELSE [b EXCEPT !.hi = mid - 1]

Rounds(start, limit, most, k, f) ==
    [i \in 0..k |-> IF i = 0 THEN [lo |-> 0, hi |-> most]
                    ELSE Narrowed(start, limit, f[i-1])]

\* The recursion of the binary search defines a function.
LEMMA RoundsExist ==
    ASSUME NEW start, NEW limit, NEW most
    PROVE  \A k \in Nat : \E f : f = Rounds(start, limit, most, k, f)
<1> DEFINE G(k, f) == Rounds(start, limit, most, k, f)
           P == {k \in Nat : \E f : f = G(k, f)}
<1>1. 0 \in P
  <2> DEFINE f == [i \in 0..0 |-> [lo |-> 0, hi |-> most]]
  <2>1. f = G(0, f)
    BY DEF Rounds
  <2> QED BY <2>1
<1>2. ASSUME NEW k \in Nat, k \in P PROVE k + 1 \in P
  <2>1. PICK f : f = G(k, f)
    BY <1>2
  <2> DEFINE g == [i \in 0..(k+1) |->
                    IF i <= k THEN f[i] ELSE Narrowed(start, limit, f[k])]
  <2>2. \A i \in 0..(k+1) : g[i] = G(k+1, g)[i]
    <3> TAKE i \in 0..(k+1)
    <3>1. CASE i = 0
      BY <2>1, <3>1 DEF Rounds
    <3>2. CASE i \in 1..k
      <4>1. i - 1 \in 0..k /\ i \in 0..k /\ i # 0 /\ i - 1 \in 0..(k+1)
        BY <3>2
      <4>2. f[i] = Narrowed(start, limit, f[i-1])
        BY <2>1, <4>1 DEF Rounds
      <4>3. g[i] = f[i] /\ g[i-1] = f[i-1]
        BY <4>1
      <4> QED BY <3>2, <4>1, <4>2, <4>3 DEF Rounds
    <3>3. CASE i = k + 1
      <4>1. g[k] = f[k] /\ (k + 1) - 1 = k /\ g[k+1] = Narrowed(start, limit, f[k])
        OBVIOUS
      <4> QED BY <3>3, <4>1 DEF Rounds
    <3> QED BY <3>1, <3>2, <3>3
  <2>3. g = G(k+1, g)
    BY <2>2 DEF Rounds
  <2> QED BY <2>3
<1> HIDE DEF P
<1>3. Nat \subseteq P
  BY <1>1, <1>2, NatSetInduction
<1> QED BY <1>3 DEF P

\* The search stays within its bounds, and what it finds fits.
LEMMA SearchSpec ==
    ASSUME NEW start, NEW limit, NEW most \in Nat
    PROVE  LET n == Search(start, limit, most)
           IN  n \in 0..most /\ (n # 0 => Fits(start, n, limit))
<1> DEFINE f == CHOOSE f : f = Rounds(start, limit, most, most, f)
<1>1. f = Rounds(start, limit, most, most, f)
  BY RoundsExist
<1>2. Search(start, limit, most) = f[most].lo
  BY DEF Search, Rounds, Narrowed
<1> HIDE DEF f
<1> DEFINE Good(b) == /\ b \in [lo : 0..most, hi : 0..most]
                      /\ b.lo # 0 => Fits(start, b.lo, limit)
           P == {i \in Nat : i <= most => Good(f[i])}
<1>3. 0 \in P
  BY <1>1 DEF Rounds
<1>4. ASSUME NEW i \in Nat, i \in P PROVE i + 1 \in P
  <2> SUFFICES ASSUME i + 1 <= most PROVE Good(f[i+1])
    OBVIOUS
  <2> DEFINE b == f[i]
             mid == (b.lo + b.hi + 1) \div 2
  <2>1. Good(b)
    BY <1>4
  <2>2. f[i+1] = Narrowed(start, limit, b)
    <3>1. i + 1 \in 0..most /\ i + 1 # 0 /\ (i + 1) - 1 = i
      OBVIOUS
    <3> QED BY <1>1, <3>1 DEF Rounds
  <2> HIDE DEF b
  <2>3. b.lo < b.hi => mid \in (b.lo + 1)..b.hi
    BY <2>1
  <2>4. CASE b.lo >= b.hi
    BY <2>1, <2>2, <2>4 DEF Narrowed
  <2>5. CASE b.lo < b.hi
    <3>1. mid \in 0..most /\ mid - 1 \in 0..most
      BY <2>1, <2>3, <2>5
    <3>2. Narrowed(start, limit, b) = IF Fits(start, mid, limit) THEN [b EXCEPT !.lo = mid]
                                      ELSE [b EXCEPT !.hi = mid - 1]
      BY <2>1, <2>5 DEF Narrowed
    <3> HIDE DEF mid
    <3> QED BY <2>1, <2>2, <3>1, <3>2
  <2> QED BY <2>1, <2>4, <2>5
<1> HIDE DEF P
<1>5. Nat \subseteq P
  BY <1>3, <1>4, NatSetInduction
<1>6. Good(f[most])
  BY <1>5 DEF P
<1> QED BY <1>2, <1>6

\* One size tried past the search result.
Scanned(start, limit, found, k, f) ==
    [n \in found..k |->
        IF n = found THEN found
        ELSE IF n <= f[n-1] + DipSpan /\ Fits(start, n, limit) THEN n
        ELSE f[n-1]]

\* The recursion of the scan of dips defines a function.
LEMMA ScannedExist ==
    ASSUME NEW start, NEW limit, NEW found \in Nat
    PROVE  \A d \in Nat : \E f : f = Scanned(start, limit, found, found + d, f)
<1> DEFINE G(d, f) == Scanned(start, limit, found, found + d, f)
           P == {d \in Nat : \E f : f = G(d, f)}
<1>1. 0 \in P
  <2> DEFINE f == [n \in found..found |-> found]
  <2>1. f = G(0, f)
    BY DEF Scanned
  <2> QED BY <2>1
<1>2. ASSUME NEW d \in Nat, d \in P PROVE d + 1 \in P
  <2>1. PICK f : f = G(d, f)
    BY <1>2
  <2> DEFINE k == found + d
             last == IF k + 1 <= f[k] + DipSpan /\ Fits(start, k + 1, limit)
                     THEN k + 1 ELSE f[k]
             g == [n \in found..(k+1) |-> IF n <= k THEN f[n] ELSE last]
  <2>2. \A n \in found..(k+1) : g[n] = G(d+1, g)[n]
    <3> TAKE n \in found..(k+1)
    <3>0. n \in found..(found + (d + 1))
      OBVIOUS
    <3>1. CASE n = found
      BY <2>1, <3>0, <3>1 DEF Scanned
    <3>2. CASE n \in (found+1)..k
      <4>1. n - 1 \in found..k /\ n \in found..k /\ n # found /\ n - 1 \in found..(k+1)
        BY <3>2
      <4>2. f[n] = IF n <= f[n-1] + DipSpan /\ Fits(start, n, limit) THEN n ELSE f[n-1]
        BY <2>1, <4>1 DEF Scanned
      <4>3. g[n] = f[n] /\ g[n-1] = f[n-1]
        BY <4>1
      <4> HIDE DEF g
      <4>4. G(d+1, g)[n]
              = IF n <= g[n-1] + DipSpan /\ Fits(start, n, limit) THEN n ELSE g[n-1]
        BY <3>0, <4>1 DEF Scanned
      <4> QED BY <4>2, <4>3, <4>4
    <3>3. CASE n = k + 1
      <4>1. /\ g[k] = f[k] /\ (k + 1) - 1 = k /\ g[k+1] = last
            /\ k + 1 # found /\ k + 1 \in found..(found + (d + 1))
        OBVIOUS
      <4> HIDE DEF g
      <4>4. G(d+1, g)[k+1]
              = IF k + 1 <= g[k] + DipSpan /\ Fits(start, k + 1, limit) THEN k + 1 ELSE g[k]
        BY <4>1 DEF Scanned
      <4> QED BY <3>3, <4>1, <4>4
    <3> QED BY <3>1, <3>2, <3>3
  <2>3. g = G(d+1, g)
    <3>1. found + (d + 1) = k + 1
      OBVIOUS
    <3> QED BY <2>2, <3>1 DEF Scanned
  <2> QED BY <2>3
<1> HIDE DEF P
<1>3. Nat \subseteq P
  BY <1>1, <1>2, NatSetInduction
<1> QED BY <1>3 DEF P

\* The scan finds a size that fits, and none that fits within DipSpan past it.
LEMMA ScanSpec ==
    ASSUME NEW start, NEW limit, NEW most \in Nat, NEW found \in 0..most,
           found # 0 => Fits(start, found, limit)
    PROVE  LET n == ScanDips(start, limit, found, most)
           IN  /\ n \in found..most
               /\ n # 0 => Fits(start, n, limit)
               /\ \A m \in (n+1)..most : m <= n + DipSpan => ~ Fits(start, m, limit)
<1> DEFINE f == CHOOSE f : f = Scanned(start, limit, found, most, f)
<1>1. f = Scanned(start, limit, found, most, f)
  <2>1. most - found \in Nat /\ found + (most - found) = most /\ found \in Nat
    OBVIOUS
  <2> QED BY <2>1, ScannedExist
<1>2. ScanDips(start, limit, found, most) = f[most]
  BY DEF ScanDips, Scanned
<1> HIDE DEF f
<1> USE LimitsAssumption
<1> DEFINE Good(i, n) ==
             /\ n \in found..i
             /\ n # 0 => Fits(start, n, limit)
             /\ \A m \in (n+1)..i : m <= n + DipSpan => ~ Fits(start, m, limit)
           P == {d \in Nat : found + d <= most => Good(found + d, f[found + d])}
<1>3. 0 \in P
  <2>1. f[found] = found /\ found + 0 = found
    BY <1>1 DEF Scanned
  <2> QED BY <2>1
<1>4. ASSUME NEW d \in Nat, d \in P PROVE d + 1 \in P
  <2> DEFINE k == found + d
             b == f[k]
  <2> SUFFICES ASSUME k + 1 <= most PROVE Good(k + 1, f[k + 1])
    OBVIOUS
  <2>1. Good(k, b)
    BY <1>4
  <2>2. f[k+1] = IF k + 1 <= b + DipSpan /\ Fits(start, k + 1, limit) THEN k + 1 ELSE b
    <3>1. k + 1 \in found..most /\ k + 1 # found /\ (k + 1) - 1 = k
      OBVIOUS
    <3> QED BY <1>1, <3>1 DEF Scanned
  <2> HIDE DEF b
  <2>3. CASE k + 1 <= b + DipSpan /\ Fits(start, k + 1, limit)
    <3>1. f[k+1] = k + 1
      BY <2>2, <2>3
    <3> QED BY <2>3, <3>1
  <2>4. CASE ~ (k + 1 <= b + DipSpan /\ Fits(start, k + 1, limit))
    <3>1. f[k+1] = b
      BY <2>2, <2>4
    <3>2. ASSUME NEW m \in (b+1)..(k+1), m <= b + DipSpan PROVE ~ Fits(start, m, limit)
      <4>1. CASE m = k + 1
        BY <2>4, <3>2, <4>1
      <4>2. CASE m # k + 1
        <5>1. m \in (b+1)..k
          BY <2>1, <4>2
        <5> QED BY <2>1, <3>2, <5>1
      <4> QED BY <4>1, <4>2
    <3> QED BY <2>1, <3>1, <3>2
  <2> QED BY <2>3, <2>4
<1> HIDE DEF P
<1>5. Nat \subseteq P
  BY <1>3, <1>4, NatSetInduction
<1>6. Good(most, f[most])
  <2>1. most - found \in Nat /\ found + (most - found) = most
    OBVIOUS
  <2>2. most - found \in P
    BY <1>5, <2>1
  <2> HIDE DEF Good
  <2> QED BY <2>1, <2>2 DEF P
<1> QED BY <1>2, <1>6

\* FitToSize: a window of what is left that fits, or 0; of the longer ones all
\* that is left does not fit, nor does any that is up to DipSpan nodes longer.
LEMMA FitSpec ==
    ASSUME NEW start, NEW limit, Total - start \in Nat
    PROVE  LET n == FitToSize(start, limit)
           IN  /\ n \in 0..(Total - start)
               /\ n # 0 => Fits(start, n, limit)
               /\ \A m \in (n+1)..(Total - start) :
                     m <= n + DipSpan \/ m = Total - start => ~ Fits(start, m, limit)
<1> DEFINE total == Total - start
           most == total - 1
           found == Search(start, limit, most)
           n == ScanDips(start, limit, found, most)
<1>1. CASE total = 0
  BY <1>1 DEF FitToSize
<1>2. CASE total # 0 /\ Fits(start, total, limit)
  BY <1>2 DEF FitToSize
<1>3. CASE total # 0 /\ ~ Fits(start, total, limit)
  <2>1. FitToSize(start, limit) = n
    BY <1>3 DEF FitToSize
  <2>2. most \in Nat /\ total = most + 1 /\ total \in Nat
    BY <1>3
  <2> HIDE DEF most
  <2>3. found \in 0..most /\ (found # 0 => Fits(start, found, limit))
    BY <2>2, SearchSpec
  <2> HIDE DEF found
  <2>4. /\ n \in found..most
        /\ n # 0 => Fits(start, n, limit)
        /\ \A m \in (n+1)..most : m <= n + DipSpan => ~ Fits(start, m, limit)
    BY <2>2, <2>3, ScanSpec
  <2> HIDE DEF n
  <2>5. n \in 0..total
    BY <2>2, <2>3, <2>4
  <2>6. ASSUME NEW m \in (n+1)..total, m <= n + DipSpan \/ m = total
        PROVE  ~ Fits(start, m, limit)
    <3>1. CASE m = total
      BY <1>3, <3>1
    <3>2. CASE m # total
      <4>1. m \in (n+1)..most
        BY <2>2, <2>5, <3>2
      <4> QED BY <2>4, <2>6, <3>2, <4>1
    <3> QED BY <3>1, <3>2
  <2> HIDE DEF total
  <2> QED BY <2>1, <2>4, <2>5, <2>6 DEF total
<1> QED BY <1>1, <1>2, <1>3

-----------------------------------------------------------------------------
(* The shape of a result.                                                   *)

Forest == \E n \in 1..MaxNodes : up \in Forests(n)

\* The shape of a pre-order forest.
LEMMA ForestSize ==
    ASSUME Forest
    PROVE  /\ Total \in 1..MaxNodes
           /\ Indices = 0..(Total - 1)
           /\ \A i \in Indices :
                /\ up[i] \in Int /\ Match <= up[i] /\ up[i] < i
                /\ \A j \in Indices : up[i] < j /\ j < i => up[j] >= up[i]
<1>1. PICK n \in 1..MaxNodes : up \in Forests(n)
  BY DEF Forest
<1>2. n \in Nat /\ n >= 1
  BY BoundsAssumption
<1>3. /\ Indices = 0..(n-1)
      /\ \A i \in Indices :
           /\ up[i] \in Int /\ Match <= up[i] /\ up[i] < i
           /\ \A j \in Indices : up[i] < j /\ j < i => up[j] >= up[i]
  BY <1>1, <1>2 DEF Forests, Indices, Match
<1>4. Total = n
  <2>1. 0 \in Int /\ n - 1 \in Int
    BY <1>2
  <2>2. Cardinality(0..(n-1)) = n
    BY <1>2, <2>1, FS_Interval
  <2> QED BY <1>3, <2>2 DEF Total
<1> QED BY <1>1, <1>3, <1>4

\* Pointers lead forwards, to nodes of the result.
LEMMA TargetsAhead ==
    ASSUME Forest
    PROVE  \A i \in Indices : \A t \in Targets(i) : t \in Indices /\ t > i
<1> SUFFICES ASSUME NEW i \in Indices, NEW t \in Targets(i)
             PROVE  t \in Indices /\ t > i
  OBVIOUS
<1>1. Indices \subseteq Nat
  BY ForestSize
<1>2. CASE t \in FirstChild(i)
  BY <1>1, <1>2 DEF FirstChild
<1>3. CASE t \in NextSibling(i)
  <2> DEFINE after == {j \in Indices : j > i /\ up[j] = up[i]}
  <2>1. t = Min(after) /\ after # {}
    BY <1>3 DEF NextSibling
  <2>2. \E x \in after : \A y \in after : x <= y
    <3> DEFINE P == {n \in Nat : n \in after => \E x \in after : \A y \in after : x <= y}
    <3>1. ASSUME NEW n \in Nat, 0..(n-1) \subseteq P PROVE n \in P
      <4> SUFFICES ASSUME n \in after PROVE \E x \in after : \A y \in after : x <= y
        OBVIOUS
      <4>1. CASE \E y \in after : y < n
        <5>1. PICK y \in after : y < n
          BY <4>1
        <5>2. y \in 0..(n-1)
          BY <1>1, <5>1
        <5> QED BY <3>1, <5>1, <5>2
      <4>2. CASE ~ \E y \in after : y < n
        BY <1>1, <4>2
      <4> QED BY <4>1, <4>2
    <3> HIDE DEF P
    <3>2. Nat \subseteq P
      BY <3>1, NatSetStrongInduction
    <3> QED BY <1>1, <2>1, <3>2 DEF P
  <2>3. t \in after
    BY <2>1, <2>2 DEF Min
  <2> QED BY <2>3
<1> QED BY <1>2, <1>3 DEF Targets

\* Every node but the first has a pointer to it from an earlier one: its parent,
\* or the sibling before it.
LEMMA InPointer ==
    ASSUME Forest, NEW k \in Indices, k # 0
    PROVE  \E i \in 0..(k-1) : i \in Indices /\ k \in Targets(i)
<1>1. /\ Indices = 0..(Total - 1) /\ Total \in Nat
      /\ \A i \in Indices :
           /\ up[i] \in Int /\ Match <= up[i] /\ up[i] < i
           /\ \A j \in Indices : up[i] < j /\ j < i => up[j] >= up[i]
  BY ForestSize, BoundsAssumption
<1>2. CASE up[k] = k - 1
  <2>1. k - 1 \in Indices /\ (k - 1) + 1 = k
    BY <1>1
  <2>2. k \in FirstChild(k - 1)
    BY <1>2, <2>1 DEF FirstChild
  <2> QED BY <1>1, <2>1, <2>2 DEF Targets
<1>3. CASE up[k] # k - 1
  <2> DEFINE j == up[k] + 1
             S == {i \in 0..(k-1) : up[i] = up[k]}
  <2>1. j \in 0..(k-1) /\ j \in Indices
    BY <1>1, <1>3 DEF Match
  <2>2. up[j] = up[k]
    <3>1. up[j] >= up[k] /\ up[j] < j /\ up[j] \in Int
      BY <1>1, <2>1
    <3> QED BY <1>1, <3>1
  <2>3. S # {} /\ S \subseteq 0..(k-1) /\ k - 1 \in Nat
    BY <1>1, <2>1, <2>2
  <2> HIDE DEF S
  <2>4. PICK i \in S : \A x \in S : x <= i
    BY <2>3, NatSetMax
  <2>5. i \in 0..(k-1) /\ i \in Indices /\ up[i] = up[k]
    BY <1>1, <2>4 DEF S
  <2> DEFINE after == {x \in Indices : x > i /\ up[x] = up[i]}
  <2>6. k \in after
    BY <1>1, <2>5
  <2>7. \A x \in after : k <= x
    <3> SUFFICES ASSUME NEW x \in after, x < k PROVE FALSE
      BY <1>1
    <3>1. x \in S
      BY <1>1, <2>5 DEF S
    <3> QED BY <1>1, <2>4, <2>5, <3>1
  <2>8. Min(after) = k
    <3>1. Min(after) \in after /\ \A x \in after : Min(after) <= x
      BY <2>6, <2>7 DEF Min
    <3> QED BY <1>1, <2>6, <2>7, <3>1
  <2>9. k \in NextSibling(i)
    BY <2>6, <2>8 DEF NextSibling
  <2> QED BY <2>5, <2>9 DEF Targets
<1> QED BY <1>2, <1>3

-----------------------------------------------------------------------------
(* Plain expressions.                                                       *)

\* A plain text is taken apart as it was put together.
LEMMA PlainSplit ==
    ASSUME NEW r \in Seq(Int), Plain(r)
    PROVE  /\ SplitResumeSuffix(r) = [base |-> r, index |-> 0]
           /\ \A i \in Nat :
                SplitResumeSuffix(Continuation(r, i)) = [base |-> r, index |-> i]
<1> DEFINE n == Len(r)
<1>1. n \in Nat /\ DOMAIN r = 1..n /\ \A j \in 1..n : r[j] \in Int
  BY LenProperties
<1>2. SplitResumeSuffix(r) = [base |-> r, index |-> 0]
  <2>1. Delimiters(r, At) = {}
    BY DEF Delimiters, Plain
  <2> DEFINE cut == Min({Len(r) + 1} \cup Delimiters(r, At))
  <2>2. cut = n + 1
    BY <1>1, <2>1 DEF Min
  <2> HIDE DEF cut
  <2>3. SplitFirstUnescaped(r, At)
          = [before |-> Unescape(SubSeq(r, 1, cut - 1), At),
             found  |-> FALSE,
             after  |-> SubSeq(r, cut + 1, Len(r))]
    <3>1. (cut <= Len(r)) = FALSE
      BY <1>1, <2>2
    <3> QED BY <3>1 DEF SplitFirstUnescaped, cut
  <2> QED BY <2>3 DEF SplitResumeSuffix
<1>3. ASSUME NEW i \in Nat
      PROVE  SplitResumeSuffix(Continuation(r, i)) = [base |-> r, index |-> i]
  <2> DEFINE c == Continuation(r, i)
             e == <<At, i>>
  <2>1. e \in Seq(Int) /\ Len(e) = 2 /\ e[1] = At /\ e[2] = i /\ c = r \o e
    BY DEF Continuation, At
  <2> HIDE DEF e
  <2>2. /\ c \in Seq(Int) /\ Len(c) = n + 2 /\ DOMAIN c = 1..(n+2)
        /\ \A j \in 1..n : c[j] = r[j]
        /\ c[n+1] = At /\ c[n+2] = i
    <3>1. /\ r \o e \in Seq(Int) /\ Len(r \o e) = n + 2
          /\ \A j \in 1..(n+2) : (r \o e)[j] = IF j <= n THEN r[j] ELSE e[j - n]
      <4>1. /\ r \o e \in Seq(Int) /\ Len(r \o e) = Len(r) + Len(e)
            /\ \A j \in 1..(Len(r) + Len(e)) :
                  (r \o e)[j] = IF j <= Len(r) THEN r[j] ELSE e[j - Len(r)]
        BY <2>1, ConcatProperties
      <4> QED BY <2>1, <4>1
    <3>2. c \in Seq(Int) /\ Len(c) = n + 2 /\ DOMAIN c = 1..(n+2)
      BY <2>1, <3>1, LenProperties
    <3>3. n + 1 \in 1..(n+2) /\ n + 2 \in 1..(n+2) /\ (n + 1) - n = 1 /\ (n + 2) - n = 2
      BY <1>1
    <3> HIDE DEF c
    <3>4. c[n+1] = At /\ c[n+2] = i
      BY <1>1, <2>1, <3>1, <3>3
    <3>5. \A j \in 1..n : c[j] = r[j]
      BY <1>1, <2>1, <3>1
    <3> QED BY <3>2, <3>4, <3>5
  <2> HIDE DEF c
  <2>3. Unescaped(c, n + 1)
    <3> DEFINE T == {0} \cup {j \in 1..n : c[j] # Backslash}
    <3>1. n \in T
      <4>1. n > 0 => n \in 1..n /\ c[n] = r[n] /\ ~ (n < Len(r))
        BY <1>1, <2>2
      <4>2. n > 0 => r[n] # Backslash
        BY <1>1, <4>1 DEF Plain
      <4> QED BY <1>1, <4>1, <4>2
    <3>2. \A x \in T : x <= n
      BY <1>1
    <3> HIDE DEF T
    <3>3. Max(T) \in T /\ n <= Max(T)
      BY <3>1, <3>2 DEF Max
    <3>4. Max(T) = n
      BY <1>1, <3>1, <3>2, <3>3 DEF T
    <3>5. (n + 1) - 1 = n /\ ((n + 1) - n) % 2 = 1
      BY <1>1
    <3> QED BY <3>4, <3>5 DEF T, Unescaped
  <2>4. Delimiters(c, At) = {n + 1}
    <3>1. \A j \in 1..n : c[j] # At
      BY <1>1, <2>2 DEF Plain
    <3>2. c[n+2] # At
      BY <2>2 DEF At
    <3> QED BY <1>1, <2>2, <2>3, <3>1, <3>2 DEF Delimiters
  <2>5. Min({Len(c) + 1} \cup Delimiters(c, At)) = n + 1
    <3> DEFINE D == {Len(c) + 1} \cup Delimiters(c, At)
    <3>1. D = {n + 3, n + 1}
      BY <1>1, <2>2, <2>4
    <3> HIDE DEF D
    <3>2. Min(D) \in D /\ Min(D) <= n + 1
      <4>1. n + 1 \in D /\ \A y \in D : n + 1 <= y
        BY <1>1, <3>1
      <4> QED BY <4>1 DEF Min
    <3> QED BY <1>1, <3>1, <3>2 DEF D
  <2>6. SubSeq(c, 1, n) = r
    <3>1. \A j \in 1..n : c[j] \in Int
      BY <1>1, <2>2
    <3>2. /\ SubSeq(c, 1, n) \in Seq(Int)
          /\ Len(SubSeq(c, 1, n)) = IF 1 <= n THEN n - 1 + 1 ELSE 0
          /\ \A j \in 1..(n - 1 + 1) : SubSeq(c, 1, n)[j] = c[1 + j - 1]
      BY <1>1, <3>1, SubSeqProperties
    <3>3. Len(SubSeq(c, 1, n)) = n /\ \A j \in 1..n : SubSeq(c, 1, n)[j] = r[j]
      BY <1>1, <2>2, <3>2
    <3> QED BY <3>2, <3>3, SeqEqual
  <2>7. /\ Len(SubSeq(c, n + 2, n + 2)) = 1
        /\ SubSeq(c, n + 2, n + 2)[1] = i
    <3>1. \A j \in (n+2)..(n+2) : c[j] \in Int
      BY <1>1, <2>2
    <3>2. /\ Len(SubSeq(c, n + 2, n + 2)) = IF n + 2 <= n + 2 THEN (n + 2) - (n + 2) + 1 ELSE 0
          /\ \A j \in 1..((n + 2) - (n + 2) + 1) :
                SubSeq(c, n + 2, n + 2)[j] = c[n + 2 + j - 1]
      BY <1>1, <3>1, SubSeqProperties
    <3> QED BY <1>1, <2>2, <3>2
  <2>8. Unescape(r, At) = r
    <3> DEFINE I == {j \in DOMAIN r :
                      ~ (/\ r[j] = Backslash /\ Unescaped(r, j) /\ j < Len(r)
                         /\ r[j+1] \in {At, Backslash})}
    <3>1. 1..n \subseteq I
      BY <1>1 DEF Plain
    <3> HIDE DEF I
    <3>2. Picked(r, I) = r
      BY <3>1, PickAll
    <3> QED BY <3>2 DEF I, Unescape
  <2>9. SplitFirstUnescaped(c, At)
          = [before |-> r, found |-> TRUE, after |-> SubSeq(c, n + 2, n + 2)]
    <3> DEFINE cut == Min({Len(c) + 1} \cup Delimiters(c, At))
    <3>1. cut = n + 1 /\ cut - 1 = n /\ cut + 1 = n + 2 /\ cut <= Len(c) /\ Len(c) = n + 2
      BY <1>1, <2>2, <2>5
    <3> HIDE DEF cut
    <3>2. SplitFirstUnescaped(c, At)
            = [before |-> Unescape(SubSeq(c, 1, cut - 1), At),
               found  |-> cut <= Len(c),
               after  |-> SubSeq(c, cut + 1, Len(c))]
      BY DEF SplitFirstUnescaped, cut
    <3> QED BY <2>6, <2>8, <3>1, <3>2
  <2>10. SplitResumeSuffix(c) = [base |-> r, index |-> i]
    BY <2>7, <2>9 DEF SplitResumeSuffix
  <2> QED BY <2>10 DEF c
<1> QED BY <1>2, <1>3

\* sendFittedNodes sends no more than what is left.
LEMMA AnswerSize ==
    ASSUME Forest, NEW start \in Indices, NEW limits
    PROVE  Answer(start, limits).n \in 0..(Total - start)
<1> DEFINE total == Total - start
           first == FirstTry(start)
           second == FitToSize(start, limits[1])
<1>1. total \in Nat
  BY ForestSize
<1>2. second \in 0..total /\ FitToSize(start, Budget) \in 0..total
  BY <1>1, FitSpec
<1>3. first \in 0..total
  BY <1>1, <1>2 DEF FirstTry
<1>4. /\ Answer(start, limits)
           = IF first = 0 THEN [n |-> 0, known |-> known]
             ELSE IF Fits(start, first, limits[1]) THEN [n |-> first, known |-> known]
             ELSE IF second # 0 /\ Fits(start, second, limits[2])
                  THEN [n |-> second, known |-> Learned(limits[1])]
             ELSE [n |-> 0, known |-> Learned(IF second = 0 THEN limits[1] ELSE limits[2])]
  BY DEF Answer
<1> HIDE DEF first, second
<1>5. Answer(start, limits).n \in {0, first, second}
  BY <1>4
<1> QED BY <1>1, <1>2, <1>3, <1>5

-----------------------------------------------------------------------------
(* Paging.                                                                  *)

\* Continuations can be made of what is asked for.
PlainRequests == \A r \in Requests : r \in Seq(Int) /\ Plain(r)

\* What asks for the result from index t.
Page(t) == IF t = 0 THEN request ELSE Continuation(request, t)

Result ==
    /\ Forest
    /\ request \in Requests
    /\ times \in [Indices -> Nat]

\* The client asks for nothing but pages of this result.
Pages == pending \cup seen \cup dropped \subseteq {Page(t) : t \in Indices}

\* Before a push arrives the client has nothing.
NothingYet ==
    state = "pushing" =>
        /\ pending = {} /\ seen = {} /\ covered = {} /\ dropped = {}
        /\ Delivered = {}

\* What is covered has been delivered, and while something is pending, what has
\* been delivered is covered.
CoverIsDelivered ==
    /\ covered \subseteq {request} \X Delivered
    /\ pending # {} => {request} \X Delivered \subseteq covered

\* All that a client still waits for lies past all that it has.
WaitingAhead ==
    \A e \in Waiting, i \in Delivered : i < Index(e)

\* A continuation is forgotten only once the client has its node.
SeenKept == \A e \in seen : e \in pending \/ Index(e) \in Delivered

\* Where the client's nodes point to, it has been or will go.
Linked ==
    \A i \in Delivered : \A t \in Targets(i) :
        t \in Delivered \/ Page(t) \in pending \cup dropped

\* It starts with the first node.
Started ==
    state \in {"fetching", "done"} => 0 \in Delivered \/ request \in pending

NothingWaits == state = "done" => Waiting = {}

IInv ==
    /\ Result /\ Pages /\ NothingYet /\ CoverIsDelivered /\ WaitingAhead
    /\ DeliveredOnce /\ SeenKept /\ Linked /\ Started /\ NothingWaits

\* What the client asks for is taken apart as it was put together.
LEMMA PageParts ==
    ASSUME PlainRequests, request \in Requests
    PROVE  \A t \in Nat : /\ SplitResumeSuffix(Page(t)) = [base |-> request, index |-> t]
                          /\ Index(Page(t)) = t
BY PlainSplit DEF PlainRequests, Page, Index

\* So only covered pages are not waited for.
LEMMA PageCovered ==
    ASSUME PlainRequests, request \in Requests, NEW t \in Nat, NEW cov
    PROVE  Covered(Page(t), cov) <=> <<request, t>> \in cov
BY PageParts DEF Covered

\* The first page is fitted from a whole forest.
LEMMA InitIInv == PlainRequests /\ Init => IInv
<1> SUFFICES ASSUME PlainRequests, Init PROVE IInv
  OBVIOUS
<1>1. Result /\ 0 \in Indices
  <2>1. Forest
    BY DEF Init, Forest
  <2>2. 0 \in Indices
    BY <2>1, ForestSize
  <2> QED BY <2>1, <2>2 DEF Result, Init
<1>2. Delivered = {} /\ DeliveredOnce
  BY DEF Init, Delivered, DeliveredOnce
<1>3. Pages
  BY <1>1 DEF Pages, Init, Page
<1>4. state = "fetching" => request \in pending
  BY DEF Init
<1> QED
  BY <1>1, <1>2, <1>3, <1>4
  DEF IInv, Init, NothingYet, CoverIsDelivered, WaitingAhead, SeenKept, Linked,
      Started, NothingWaits

\* A delivery adds its window to what the client has.
LEMMA DeliverWindow ==
    ASSUME Result, UNCHANGED up, NEW start \in Indices,
           NEW n \in 0..(Total - start), Deliver(start, n)
    PROVE  /\ Indices' = Indices
           /\ Window(start, n) \subseteq Indices
           /\ times' \in [Indices -> Nat]
           /\ Delivered' = Delivered \cup Window(start, n)
           /\ \A i \in Indices :
                times'[i] = times[i] + IF i \in Window(start, n) THEN 1 ELSE 0
<1>1. Indices' = Indices
  BY DEF Indices
<1>2. Window(start, n) \subseteq Indices /\ Indices \subseteq Nat
  BY ForestSize DEF Window, Result
<1>3. \A i \in Indices :
          /\ times[i] \in Nat
          /\ times'[i] = times[i] + IF i \in Window(start, n) THEN 1 ELSE 0
  BY DEF Result, Deliver
<1>4. times' = [i \in Indices |-> times[i] + IF i \in Window(start, n) THEN 1 ELSE 0]
  BY DEF Deliver
<1>5. times' \in [Indices -> Nat]
  BY <1>3, <1>4
<1>6. \A i \in Indices : times'[i] > 0 <=> times[i] > 0 \/ i \in Window(start, n)
  BY <1>3
<1> QED BY <1>1, <1>2, <1>3, <1>5, <1>6 DEF Delivered

\* The continuations of a window are pages past its end.
LEMMA FoundAhead ==
    ASSUME Result, NEW start \in Indices, NEW n \in 0..(Total - start)
    PROVE  /\ Continuations(start, n) \subseteq {t \in Indices : t >= start + n}
           /\ Found(request, start, n) = {Page(t) : t \in Continuations(start, n)}
           /\ \A i \in Window(start, n) : \A t \in Targets(i) :
                t \in Window(start, n) \/ t \in Continuations(start, n)
<1>1. /\ Window(start, n) \subseteq Indices /\ Indices \subseteq Nat
      /\ start \in Nat /\ n \in Nat /\ Window(start, n) = start..(start + n - 1)
  BY ForestSize DEF Window, Result
<1>2. \A i \in Window(start, n) : \A t \in Targets(i) : t \in Indices /\ t > i
  BY <1>1, TargetsAhead DEF Result
<1>3. \A t \in Continuations(start, n) : t \in Indices /\ t >= start + n /\ t # 0
  <2> SUFFICES ASSUME NEW t \in Continuations(start, n)
               PROVE  t \in Indices /\ t >= start + n /\ t # 0
    OBVIOUS
  <2>1. PICK i \in Window(start, n) : t \in Leaving(i, start, n)
    BY DEF Continuations
  <2> QED BY <1>1, <1>2, <2>1 DEF Leaving
<1>4. Found(request, start, n) = {Page(t) : t \in Continuations(start, n)}
  BY <1>3 DEF Found, Page
<1>5. ASSUME NEW i \in Window(start, n), NEW t \in Targets(i), t \notin Window(start, n)
      PROVE  t \in Continuations(start, n)
  <2>1. t \in Nat /\ i \in Nat /\ t > i
    BY <1>1, <1>2
  <2>2. i >= start /\ ~ (start <= t /\ t <= start + n - 1)
    BY <1>1, <1>5, <2>1
  <2>3. t >= start + n
    BY <1>1, <2>1, <2>2
  <2> QED BY <2>3 DEF Continuations, Leaving
<1> QED BY <1>3, <1>4, <1>5

\* When neither the client nor the result changes, nothing it has or waits for
\* does.
LEMMA ClientUnchanged ==
    ASSUME IInv, UNCHANGED <<up, request, client, times>>,
           state' = state \/ state' = "failed" \/ (state' = "done" /\ Waiting = {}
                                                    /\ state = "fetching")
    PROVE  IInv'
<1>1. /\ Indices' = Indices /\ Delivered' = Delivered /\ Waiting' = Waiting
      /\ \A i : Targets(i)' = Targets(i) /\ Page(i)' = Page(i)
  BY DEF client, Indices, Delivered, Waiting, Targets, FirstChild, NextSibling, Page
<1>2. Result' /\ Pages' /\ DeliveredOnce'
  BY <1>1 DEF IInv, Result, Forest, Pages, DeliveredOnce, client
<1>3. NothingYet' /\ CoverIsDelivered' /\ WaitingAhead' /\ SeenKept'
  BY <1>1 DEF IInv, NothingYet, CoverIsDelivered, WaitingAhead, SeenKept, client
<1>4. Linked' /\ Started' /\ NothingWaits'
  BY <1>1 DEF IInv, Linked, Started, NothingWaits, client
<1> QED BY <1>2, <1>3, <1>4 DEF IInv

\* A continuation that is fetched and answered keeps the invariant.
LEMMA FetchKeeps == PlainRequests /\ IInv /\ Fetch => IInv'
<1> SUFFICES ASSUME PlainRequests, IInv, Fetch PROVE IInv'
  OBVIOUS
<1>1. /\ Result /\ Pages /\ CoverIsDelivered /\ WaitingAhead /\ DeliveredOnce
      /\ SeenKept /\ Linked /\ Started
  BY DEF IInv
<1>2. state = "fetching" /\ UNCHANGED <<up, request>>
  BY DEF Fetch
<1>3. PICK expr \in pending :
        /\ IsNext(expr)
        /\ IF Matches(SplitResumeSuffix(expr).base)
           THEN \E limits \in Limits \X Limits :
                   LET a == Answer(Index(expr), limits)
                   IN  known' = a.known /\ Receive(expr, a.n)
           ELSE /\ pending' = pending \ {expr}
                /\ UNCHANGED <<known, seen, covered, followups, dropped, times, state>>
  BY DEF Fetch
<1>4. Forest /\ request \in Requests /\ Indices \subseteq Nat
  BY <1>1, ForestSize DEF Result
<1>5. PICK s \in Indices : expr = Page(s)
  BY <1>1 DEF Pages
<1>6. SplitResumeSuffix(expr) = [base |-> request, index |-> s] /\ Index(expr) = s
  BY <1>4, <1>5, PageParts
<1>7. PICK limits \in Limits \X Limits : Receive(expr, Answer(s, limits).n)
  BY <1>3, <1>6 DEF Matches
<1> DEFINE n == Answer(s, limits).n
<1>8. n \in 0..(Total - s) /\ s \in Nat
  BY <1>4, AnswerSize
<1> HIDE DEF n
<1>9. Receive(expr, n)
  BY <1>7 DEF n
<1>10. CASE n = 0
  BY <1>2, <1>9, <1>10, ClientUnchanged DEF Receive
<1>11. CASE n # 0
  <2> DEFINE W   == Window(s, n)
             cov == covered \cup ({request} \X W)
             found == Found(request, s, n)
             old == {e \in found : Covered(e, cov)}
             new == found \ (seen \cup old)
  <2>1. /\ covered' = cov /\ Follow(expr, found, cov) /\ Deliver(s, n)
        /\ state' = state
    BY <1>6, <1>9, <1>11 DEF Receive, CoveredBy
  <2>2. PICK taken \in SUBSET new :
          /\ pending' = (pending \ {expr}) \cup taken
          /\ seen' = seen \cup old \cup taken
          /\ dropped' = dropped \cup (new \ taken)
    BY <2>1 DEF Follow
  <2>3. /\ Indices' = Indices /\ W \subseteq Indices /\ Delivered' = Delivered \cup W
        /\ times' \in [Indices -> Nat]
        /\ \A i \in Indices : times'[i] = times[i] + IF i \in W THEN 1 ELSE 0
    BY <1>1, <1>2, <1>8, <2>1, DeliverWindow
  <2>4. /\ found = {Page(t) : t \in Continuations(s, n)}
        /\ Continuations(s, n) \subseteq {t \in Indices : t >= s + n}
        /\ \A i \in W : \A t \in Targets(i) : t \in W \/ t \in Continuations(s, n)
    BY <1>1, <1>8, FoundAhead
  <2>5. W = s..(s + n - 1) /\ s \in W /\ n \in Nat
    BY <1>4, <1>8, <1>11, ForestSize DEF Window
  <2>6. \A t : Page(t)' = Page(t) /\ Targets(t)' = Targets(t)
    BY <1>2 DEF Page, Targets, FirstChild, NextSibling, Indices
  <2>7. expr \in Waiting /\ \A e \in Waiting : s <= Index(e)
    BY <1>3, <1>6 DEF IsNext
  <2>8. Delivered \subseteq Indices /\ \A i \in Delivered : i < s
    BY <1>1, <1>6, <2>7 DEF WaitingAhead, Delivered
  <2>9. \A t \in Nat : /\ Index(Page(t)) = t
                       /\ Covered(Page(t), cov) <=> <<request, t>> \in cov
    BY <1>4, PageParts, PageCovered
  <2>10. {request} \X Delivered = covered
    BY <1>1 DEF CoverIsDelivered
  <2>11. cov = {request} \X Delivered'
    BY <2>3, <2>10
  <2> HIDE DEF W, cov, found
  <2>12. Result'
    BY <1>1, <1>2, <2>3 DEF Result, Forest
  <2>13. Pages'
    BY <1>1, <2>2, <2>3, <2>4, <2>6 DEF Pages
  <2>14. NothingYet'
    BY <1>2, <2>1 DEF NothingYet
  <2>15. CoverIsDelivered'
    BY <1>2, <2>1, <2>11 DEF CoverIsDelivered
  <2>16. WaitingAhead'
    <3> SUFFICES ASSUME NEW e \in Waiting', NEW i \in Delivered' PROVE i < Index(e)
      BY DEF WaitingAhead
    <3>1. e \in pending' /\ ~ Covered(e, cov)
      BY <2>1 DEF Waiting
    <3>2. PICK t \in Indices : e = Page(t)
      BY <2>3, <2>6, <2>13, <3>1 DEF Pages
    <3>3. Index(e) = t /\ t \in Nat /\ t \notin Delivered' /\ i \in Nat
      BY <1>4, <2>3, <2>8, <2>9, <2>11, <3>1, <3>2
    <3>4. s <= t
      <4>1. CASE e \in pending
        <5>1. ~ Covered(e, covered)
          BY <1>4, <2>3, <2>10, <3>2, <3>3, PageCovered
        <5> QED BY <2>7, <3>3, <4>1, <5>1 DEF Waiting
      <4>2. CASE e \in taken
        <5>1. PICK u \in Continuations(s, n) : e = Page(u)
          BY <2>2, <2>4, <4>2
        <5>2. Index(e) = u /\ u >= s + n /\ u \in Nat
          BY <1>4, <2>4, <2>9, <5>1
        <5> QED BY <1>8, <2>5, <3>3, <5>2
      <4> QED BY <2>2, <3>1, <4>1, <4>2
    <3>5. t > s + n - 1
      BY <1>8, <2>3, <2>5, <3>3, <3>4
    <3>6. i <= s + n - 1
      BY <1>8, <2>3, <2>5, <2>8, <3>3
    <3> QED BY <1>8, <2>5, <3>3, <3>5, <3>6
  <2>17. DeliveredOnce'
    <3> SUFFICES ASSUME NEW i \in Indices PROVE times'[i] <= 1
      BY <2>3 DEF DeliveredOnce
    <3>1. times[i] \in Nat /\ times[i] <= 1
      BY <1>1 DEF Result, DeliveredOnce
    <3>2. CASE i \in W
      <4>1. i \notin Delivered
        BY <1>4, <1>8, <2>5, <2>8, <3>2
      <4> QED BY <2>3, <3>1, <3>2, <4>1 DEF Delivered
    <3>3. CASE i \notin W
      BY <2>3, <3>1, <3>3
    <3> QED BY <3>2, <3>3
  <2>18. SeenKept'
    <3> SUFFICES ASSUME NEW e \in seen' PROVE e \in pending' \/ Index(e) \in Delivered'
      BY DEF SeenKept
    <3>1. CASE e \in seen
      <4>1. e \in pending \/ Index(e) \in Delivered
        BY <1>1, <3>1 DEF SeenKept
      <4> QED BY <1>6, <2>2, <2>3, <2>5, <4>1
    <3>2. CASE e \in old
      <4>1. PICK t \in Indices : e = Page(t)
        BY <2>4, <3>2
      <4>2. <<request, t>> \in cov /\ Index(e) = t
        BY <1>4, <2>9, <3>2, <4>1
      <4> QED BY <2>11, <4>2
    <3>3. CASE e \in taken
      BY <2>2, <3>3
    <3> QED BY <2>2, <3>1, <3>2, <3>3
  <2>19. Linked'
    <3> SUFFICES ASSUME NEW i \in Delivered', NEW t \in Targets(i)
                 PROVE  t \in Delivered' \/ Page(t) \in pending' \cup dropped'
      BY <2>6 DEF Linked
    <3>1. CASE i \in Delivered
      <4>1. t \in Delivered \/ Page(t) \in pending \cup dropped
        BY <1>1, <3>1 DEF Linked
      <4>2. CASE Page(t) = expr
        <5>1. t \in Indices
          BY <1>4, <2>8, <3>1, TargetsAhead
        <5>2. t = s
          BY <1>4, <1>6, <2>9, <4>2, <5>1
        <5> QED BY <2>3, <2>5, <5>2
      <4> QED BY <2>2, <2>3, <4>1, <4>2
    <3>2. CASE i \in W /\ t \in W
      BY <2>3, <3>2
    <3>3. CASE i \in W /\ t \notin W
      <4>1. t \in Continuations(s, n) /\ t \in Indices /\ Page(t) \in found
        BY <2>4, <3>3
      <4>2. Index(Page(t)) = t /\ t \in Nat
        BY <1>4, <2>9, <4>1
      <4>3. CASE Page(t) \in seen'
        BY <2>18, <4>2, <4>3 DEF SeenKept
      <4>4. CASE Page(t) \notin seen'
        BY <2>2, <4>1, <4>4
      <4> QED BY <4>3, <4>4
    <3> QED BY <2>3, <3>1, <3>2, <3>3
  <2>20. Started'
    <3>1. 0 \in Delivered \/ request \in pending
      BY <1>1, <1>2 DEF Started
    <3>2. request = expr => 0 \in W
      <4>1. Page(0) = request /\ Index(Page(0)) = 0
        BY <2>9 DEF Page
      <4> QED BY <1>6, <2>5, <4>1
    <3> QED BY <1>2, <2>2, <2>3, <3>1, <3>2 DEF Started
  <2>21. NothingWaits'
    BY <1>2, <2>1 DEF NothingWaits
  <2> QED BY <2>12, <2>13, <2>14, <2>15, <2>16, <2>17, <2>18, <2>19, <2>20, <2>21 DEF IInv
<1> QED BY <1>10, <1>11

\* A page that is pushed keeps the invariant.
LEMMA PushKeeps == PlainRequests /\ IInv /\ ReceivePush => IInv'
<1> SUFFICES ASSUME PlainRequests, IInv, ReceivePush PROVE IInv'
  OBVIOUS
<1>1. /\ Result /\ DeliveredOnce
      /\ pending = {} /\ seen = {} /\ covered = {} /\ dropped = {} /\ Delivered = {}
  BY DEF IInv, ReceivePush, NothingYet
<1>2. UNCHANGED <<up, request, followups, dropped>>
  BY DEF ReceivePush
<1>3. Forest /\ request \in Requests /\ 0 \in Indices /\ Indices \subseteq Nat
  BY <1>1, ForestSize DEF Result
<1>4. PICK limits \in Limits \X Limits :
        LET a     == Answer(0, limits)
            found == Found(request, 0, a.n)
        IN  IF a.n = 0
            THEN state' = "failed" /\ UNCHANGED <<pending, seen, covered, times>>
            ELSE /\ pending' = found
                 /\ seen' = found
                 /\ covered' = UNION {CoveredBy(SplitResumeSuffix(e).base, 0, a.n) :
                                         e \in found}
                 /\ Deliver(0, a.n)
                 /\ state' = "fetching"
  BY DEF ReceivePush
<1> DEFINE n == Answer(0, limits).n
<1>5. n \in 0..(Total - 0)
  BY <1>3, AnswerSize
<1> HIDE DEF n
<1>6. CASE n = 0
  <2>1. state' = "failed" /\ UNCHANGED <<pending, seen, covered, times>>
    BY <1>4, <1>6 DEF n
  <2> QED BY <1>2, <2>1, ClientUnchanged DEF client
<1>7. CASE n # 0
  <2> DEFINE W == Window(0, n)
             found == Found(request, 0, n)
  <2>1. /\ pending' = found /\ seen' = found
        /\ covered' = UNION {CoveredBy(SplitResumeSuffix(e).base, 0, n) : e \in found}
        /\ Deliver(0, n)
        /\ state' = "fetching"
    BY <1>4, <1>7 DEF n
  <2>2. /\ Indices' = Indices /\ W \subseteq Indices /\ Delivered' = W
        /\ times' \in [Indices -> Nat]
        /\ \A i \in Indices : times'[i] = times[i] + IF i \in W THEN 1 ELSE 0
    BY <1>1, <1>2, <1>3, <1>5, <2>1, DeliverWindow
  <2>3. /\ found = {Page(t) : t \in Continuations(0, n)}
        /\ Continuations(0, n) \subseteq {t \in Indices : t >= 0 + n}
        /\ \A i \in W : \A t \in Targets(i) : t \in W \/ t \in Continuations(0, n)
    BY <1>1, <1>3, <1>5, FoundAhead
  <2>4. n \in Nat /\ W = 0..(n - 1) /\ 0 \in W
    BY <1>3, <1>5, <1>7, ForestSize DEF Window
  <2>5. \A t : Page(t)' = Page(t) /\ Targets(t)' = Targets(t)
    BY <1>2 DEF Page, Targets, FirstChild, NextSibling, Indices
  <2>6. \A e \in found : /\ SplitResumeSuffix(e).base = request
                         /\ Index(e) \in Nat /\ Index(e) >= n
    BY <1>3, <1>5, <2>3, <2>4, PageParts
  <2>7. covered' = UNION {{request} \X W : e \in found}
    BY <1>1, <2>1, <2>6 DEF CoveredBy
  <2> HIDE DEF W, found
  <2>8. covered' \subseteq {request} \X W /\ (found # {} => covered' = {request} \X W)
    BY <2>7
  <2>9. Result'
    BY <1>1, <1>2, <2>2 DEF Result, Forest
  <2>10. Pages'
    BY <1>1, <1>2, <2>1, <2>2, <2>3, <2>5 DEF Pages
  <2>11. NothingYet' /\ NothingWaits'
    BY <2>1 DEF NothingYet, NothingWaits
  <2>12. CoverIsDelivered'
    BY <1>2, <2>1, <2>2, <2>8 DEF CoverIsDelivered
  <2>13. WaitingAhead'
    <3> SUFFICES ASSUME NEW e \in Waiting', NEW i \in Delivered' PROVE i < Index(e)
      BY DEF WaitingAhead
    <3>1. e \in found /\ i \in W
      BY <2>1, <2>2 DEF Waiting
    <3> QED BY <2>4, <2>6, <3>1
  <2>14. DeliveredOnce'
    <3> SUFFICES ASSUME NEW i \in Indices PROVE times'[i] <= 1
      BY <2>2 DEF DeliveredOnce
    <3>1. times[i] = 0
      BY <1>1 DEF Result, Delivered
    <3> QED BY <2>2, <3>1
  <2>15. SeenKept'
    BY <2>1 DEF SeenKept
  <2>16. Linked'
    BY <2>1, <2>2, <2>3, <2>5 DEF Linked
  <2>17. Started'
    BY <2>2, <2>4 DEF Started
  <2> QED BY <2>9, <2>10, <2>11, <2>12, <2>13, <2>14, <2>15, <2>16, <2>17 DEF IInv
<1> QED BY <1>6, <1>7

\* Every step keeps the invariant.
LEMMA StepIInv == PlainRequests /\ IInv /\ [Next]_vars => IInv'
<1> SUFFICES ASSUME PlainRequests, IInv, [Next]_vars PROVE IInv'
  OBVIOUS
<1>1. CASE Fetch
  BY <1>1, FetchKeeps
<1>2. CASE ReceivePush
  BY <1>2, PushKeeps
<1>3. CASE Finish
  BY <1>3, ClientUnchanged DEF Finish
<1>4. CASE Learn
  BY <1>4, ClientUnchanged DEF Learn
<1>5. CASE UNCHANGED vars
  BY <1>5, ClientUnchanged DEF vars
<1> QED BY <1>1, <1>2, <1>3, <1>4, <1>5 DEF Next

\* The invariant of a plain Get or push.
LEMMA Inductive == PlainRequests => (Spec => []IInv)
<1> SUFFICES ASSUME PlainRequests PROVE Spec => []IInv
  OBVIOUS
<1>1. Init => IInv
  BY InitIInv
<1>2. IInv /\ [Next]_vars => IInv'
  BY StepIInv
<1> QED BY <1>1, <1>2, PTL DEF Spec

-----------------------------------------------------------------------------
\* No node of a result is sent twice, whatever limits cut it into pages: each
\* page starts past all that the client has (continuation.go Next, MarkCovered).
THEOREM NoPageOverlaps == PlainRequests => (Spec => []DeliveredOnce)
<1>1. IInv => DeliveredOnce
  BY DEF IInv
<1> QED BY <1>1, Inductive, PTL

\* A pointer of a node that the client holds leads to one that it holds, or to a
\* page that it will ask for or has given up at maxFollowups (fixupWindow).
THEOREM NoLinkDangles == PlainRequests => (Spec => []NoDanglingLink)
<1> SUFFICES ASSUME PlainRequests PROVE Spec => []NoDanglingLink
  OBVIOUS
<1>1. IInv => NoDanglingLink
  <2> SUFFICES ASSUME IInv, NEW i \in Delivered, NEW t \in Targets(i)
               PROVE  t \in Delivered \cup {Index(e) : e \in pending \cup dropped}
    BY DEF NoDanglingLink
  <2>1. t \in Delivered \/ Page(t) \in pending \cup dropped
    BY DEF IInv, Linked
  <2>2. t \in Nat /\ request \in Requests
    BY TargetsAhead, ForestSize DEF IInv, Result, Delivered
  <2>3. Index(Page(t)) = t
    BY <2>2, PageParts
  <2> QED BY <2>1, <2>3
<1>2. Spec => []IInv
  BY Inductive
<1> QED BY <1>1, <1>2, PTL

\* A client that finishes and never gave up a continuation has every node: by
\* induction along the pre-order, since to each node but the first an earlier
\* one points, and every pointer was followed.
THEOREM WholeResultArrives == PlainRequests => (Spec => []Complete)
<1> SUFFICES ASSUME PlainRequests PROVE Spec => []Complete
  OBVIOUS
<1>1. IInv => Complete
  <2> SUFFICES ASSUME IInv, state = "done", dropped = {}
               PROVE  Delivered = Indices
    BY DEF Complete
  <2>1. /\ Result /\ Pages /\ CoverIsDelivered /\ Linked /\ Started /\ NothingWaits
    BY DEF IInv
  <2>2. Forest /\ request \in Requests /\ Indices \subseteq Nat /\ 0 \in Indices
    BY <2>1, ForestSize DEF Result
  \* What is still pending is covered.
  <2>3. ASSUME NEW t \in Indices, Page(t) \in pending PROVE t \in Delivered
    <3>1. Covered(Page(t), covered)
      BY <2>1, <2>3 DEF NothingWaits, Waiting
    <3>2. <<request, t>> \in covered
      BY <2>2, <3>1, PageCovered
    <3> QED BY <2>1, <3>2 DEF CoverIsDelivered
  <2>4. 0 \in Delivered
    <3>1. Page(0) = request
      BY DEF Page
    <3> QED BY <2>1, <2>2, <2>3, <3>1 DEF Started
  <2>5. \A i \in Delivered : Targets(i) \subseteq Delivered
    BY <2>1, <2>2, <2>3, TargetsAhead DEF Linked, Delivered
  <2> DEFINE P == {k \in Nat : k \in Indices => k \in Delivered}
  <2>6. ASSUME NEW k \in Nat, 0..(k-1) \subseteq P PROVE k \in P
    <3> SUFFICES ASSUME k \in Indices, k # 0 PROVE k \in Delivered
      BY <2>4
    <3>1. PICK i \in 0..(k-1) : i \in Indices /\ k \in Targets(i)
      BY <2>2, InPointer
    <3>2. i \in Delivered
      BY <2>6, <3>1
    <3> QED BY <2>5, <3>1, <3>2
  <2> HIDE DEF P
  <2>7. Nat \subseteq P
    BY <2>6, NatSetStrongInduction
  <2> QED BY <2>2, <2>7 DEF P, Delivered
<1>2. Spec => []IInv
  BY Inductive
<1> QED BY <1>1, <1>2, PTL

\* FitToSize returns a window that fits, and the largest one, for results of no
\* more nodes than the scan and the trial of the whole rest reach together: past
\* the search's result the scan gives up after dipSpan sizes that do not fit.
THEOREM FitIsExact == MaxNodes <= DipSpan + 1 => (Spec => []FitIsLargest)
<1> SUFFICES ASSUME MaxNodes <= DipSpan + 1 PROVE Spec => []FitIsLargest
  OBVIOUS
<1>1. Init => Forest
  BY DEF Init, Forest
<1>2. Forest /\ [Next]_vars => Forest'
  BY DEF Forest, Next, Fetch, ReceivePush, Finish, Learn, vars
<1>3. Forest => FitIsLargest
  <2> SUFFICES ASSUME Forest,
                      NEW start \in Indices, NEW limit \in Limits
               PROVE  LET n == FitToSize(start, limit)
                      IN  /\ n > 0 => Fits(start, n, limit)
                          /\ \A m \in (n+1)..(Total - start) : ~ Fits(start, m, limit)
    BY DEF FitIsLargest
  <2> DEFINE n == FitToSize(start, limit)
             total == Total - start
  <2>1. total \in Nat /\ total <= MaxNodes /\ DipSpan \in Nat /\ MaxNodes \in Nat
    BY ForestSize, LimitsAssumption, BoundsAssumption
  <2>2. /\ n \in 0..total
        /\ n # 0 => Fits(start, n, limit)
        /\ \A m \in (n+1)..total : m <= n + DipSpan \/ m = total => ~ Fits(start, m, limit)
    BY <2>1, FitSpec
  <2> HIDE DEF n, total
  <2>3. ASSUME NEW m \in (n+1)..total PROVE ~ Fits(start, m, limit)
    <3>1. m <= n + DipSpan \/ m = total
      BY <2>1, <2>2
    <3> QED BY <2>2, <3>1
  <2> QED BY <2>2, <2>3 DEF n, total
<1> QED BY <1>1, <1>2, <1>3, PTL DEF Spec
=============================================================================
