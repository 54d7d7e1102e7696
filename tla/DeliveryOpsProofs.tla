-------------------------- MODULE DeliveryOpsProofs --------------------------
(***************************************************************************)
(* What advance, lowestAbove and MarkReceived do to any receiver.           *)
(***************************************************************************)
EXTENDS DeliveryOps, DataLemmas

\* advance() stops exactly at the first number that is not held: the run it
\* absorbs is an interval, however many numbers are held.
LEMMA RunIsInterval ==
    ASSUME NEW c \in Int, NEW held \in SUBSET Int, IsFiniteSet(held)
    PROVE  /\ Cardinality(Run(c, held)) \in Nat
           /\ Run(c, held) = (c+1)..(c + Cardinality(Run(c, held)))
           /\ c + Cardinality(Run(c, held)) + 1 \notin held
<1> DEFINE R == Run(c, held)
           k == Cardinality(R)
<1>1. R \subseteq held
  BY DEF Run
<1>2. IsFiniteSet(R) /\ k \in Nat
  BY <1>1, FS_Subset, FS_CardinalityType
<1>3. \A s \in R : s \in Int /\ s > c /\ (c+1)..s \subseteq R
  BY DEF Run
<1>4. R = (c+1)..(c+k)
  <2> HIDE DEF R
  <2> QED BY <1>2, <1>3, GaplessIsInterval
<1>5. c + k + 1 \notin held
  <2> SUFFICES ASSUME c + k + 1 \in held PROVE FALSE
    OBVIOUS
  <2>1. (c+1)..(c+k+1) \subseteq held
    BY <1>1, <1>2, <1>4
  <2>2. c + k + 1 \in R
    BY <2>1, <1>2 DEF Run
  <2> QED BY <2>2, <1>2, <1>4
<1> QED BY <1>2, <1>4, <1>5

\* After advance() every number held before is either below the mark or still
\* held, and nothing the mark passed had not been held.
LEMMA AdvanceSpec ==
    ASSUME NEW c \in Nat, NEW held \in SUBSET Nat, IsFiniteSet(held),
           NEW r, r = Advance(c, held)
    PROVE  /\ r.contiguous \in Nat /\ r.contiguous >= c
           /\ r.above \subseteq held
           /\ IsFiniteSet(r.above)
           /\ Cardinality(r.above) <= Cardinality(held)
           /\ \A s \in held : s <= r.contiguous \/ s \in r.above
           /\ \A s \in Nat : s > c /\ s <= r.contiguous => s \in held
           /\ (\A s \in held : s > c) => \A s \in r.above : s > r.contiguous + 1
<1> DEFINE R == Run(c, held)
           k == Cardinality(R)
<1>1. k \in Nat /\ R = (c+1)..(c+k) /\ c + k + 1 \notin held /\ R \subseteq held
  <2>1. c \in Int /\ held \in SUBSET Int
    OBVIOUS
  <2>2. R \subseteq held
    BY DEF Run
  <2> QED BY ONLY <2>1, <2>2, RunIsInterval, IsFiniteSet(held)
<1>2. r.contiguous = c + k /\ r.above = held \ R
  BY DEF Advance
<1>3. IsFiniteSet(held \ R) /\ Cardinality(held \ R) <= Cardinality(held)
  BY FS_Subset, Zenon
<1>4. Cardinality(r.above) <= Cardinality(held) /\ IsFiniteSet(r.above)
  BY <1>2, <1>3
<1>5. r.above \subseteq held
  BY <1>2
<1> HIDE DEF R, k
<1>6. r.contiguous \in Nat /\ r.contiguous >= c
  BY <1>1, <1>2
<1>7. \A s \in held : s <= r.contiguous \/ s \in r.above
  BY <1>1, <1>2
<1>8. \A s \in Nat : s > c /\ s <= r.contiguous => s \in held
  BY <1>1, <1>2
<1>9. ASSUME \A s \in held : s > c, NEW s \in r.above
      PROVE  s > r.contiguous + 1
  <2>1. s \in Nat /\ s > c /\ s \notin R /\ s \in held
    BY <1>2, <1>9
  <2>2. s # c + k + 1
    BY <1>1, <2>1
  <2> QED BY <1>1, <1>2, <2>1, <2>2
<1> QED BY <1>4, <1>5, <1>6, <1>7, <1>8, <1>9

\* lowestAbove() finds the least held number when there is one.
LEMMA LowestSpec ==
    ASSUME NEW held \in SUBSET Nat, held # {}
    PROVE  Lowest(held) \in held /\ \A t \in held : Lowest(held) <= t
\* The numbers below some held m that are not held form a finite set; the
\* run of it that starts at 0 ends just below the least held number.
<1>1. PICK m \in held : m \in Nat
  OBVIOUS
<1> DEFINE free == (0..m) \ held
           k == Cardinality(Run(-1, free))
<1>2. IsFiniteSet(free)
  <2>1. 0 \in Int /\ m \in Int
    BY <1>1
  <2>2. IsFiniteSet(0..m)
    BY <2>1, FS_Interval
  <2>3. free \in SUBSET (0..m)
    OBVIOUS
  <2> QED BY <2>2, <2>3, FS_Subset
<1>3. /\ k \in Nat
      /\ Run(-1, free) = (-1+1)..(-1+k)
      /\ -1 + k + 1 \notin free
  BY <1>2, RunIsInterval
<1>4. Run(-1, free) \subseteq free
  BY DEF Run
<1> HIDE DEF k
<1>5. ASSUME NEW t \in Nat, t < k PROVE t \notin held
  <2>1. t \in (-1+1)..(-1+k)
    BY <1>3, <1>5
  <2> QED BY <1>3, <1>4, <2>1
<1>6. k <= m
  BY <1>1, <1>5, <1>3
<1>7. k \in held /\ \A t \in held : k <= t
  BY <1>1, <1>3, <1>5, <1>6
<1>8. \E s \in held : \A t \in held : s <= t
  BY <1>7
<1> QED BY <1>8 DEF Lowest

\* A receiver between two calls of its methods.
ReceiverOK(r) ==
    /\ r \in [contiguous : Nat, above : SUBSET Nat]
    /\ IsFiniteSet(r.above)
    /\ Cardinality(r.above) <= MaxOutOfOrder
    /\ \A s \in r.above : s > r.contiguous + 1

\* Giving up the oldest gap frees at least one held number, forgets none, and
\* only passes numbers below every held one.
LEMMA SkipSpec ==
    ASSUME NEW r, r \in [contiguous : Nat, above : SUBSET Nat],
           IsFiniteSet(r.above), r.above # {},
           \A s \in r.above : s > r.contiguous + 1,
           NEW q, q = SkipOldestGap(r)
    PROVE  /\ q \in [contiguous : Nat, above : SUBSET Nat]
           /\ q.contiguous >= r.contiguous /\ q.contiguous \in r.above
           /\ q.above \subseteq r.above /\ IsFiniteSet(q.above)
           /\ Cardinality(q.above) < Cardinality(r.above)
           /\ \A s \in q.above : s > q.contiguous + 1
           /\ \A s \in r.above : s <= q.contiguous \/ s \in q.above
           /\ \A s \in Nat : s <= q.contiguous =>
                 s \in r.above \/ \A t \in r.above : t > s
<1> DEFINE low == Lowest(r.above)
<1>1. low \in r.above /\ \A t \in r.above : low <= t
  BY LowestSpec
<1>2. low \in Nat /\ low - 1 \in Nat /\ low - 1 >= r.contiguous
  BY <1>1
<1>3. q = Advance(low - 1, r.above)
  BY DEF SkipOldestGap
<1> HIDE DEF low
<1>4. /\ q.contiguous \in Nat /\ q.contiguous >= low - 1
      /\ q.above \subseteq r.above /\ IsFiniteSet(q.above)
      /\ \A s \in r.above : s <= q.contiguous \/ s \in q.above
      /\ \A s \in Nat : s > low - 1 /\ s <= q.contiguous => s \in r.above
      /\ (\A s \in r.above : s > low - 1)
            => \A s \in q.above : s > q.contiguous + 1
  BY <1>2, <1>3, AdvanceSpec
<1>5. \A s \in q.above : s > q.contiguous + 1
  BY <1>1, <1>2, <1>4
<1>6. low <= q.contiguous /\ low \notin q.above
  BY <1>1, <1>2, <1>4, <1>5
<1>7. q.contiguous \in r.above
  BY <1>2, <1>4, <1>6
<1>8. Cardinality(q.above) < Cardinality(r.above)
  <2>1. q.above \subseteq r.above \ {low}
    BY <1>4, <1>6
  <2>2. /\ IsFiniteSet(r.above \ {low})
        /\ Cardinality(r.above \ {low}) = Cardinality(r.above) - 1
    BY <1>1, FS_RemoveElement
  <2>3. Cardinality(q.above) <= Cardinality(r.above \ {low})
    BY <2>1, <2>2, FS_Subset
  <2>4. Cardinality(q.above) \in Nat /\ Cardinality(r.above) \in Nat
    BY <1>4, FS_CardinalityType
  <2> QED BY <2>2, <2>3, <2>4
<1>9. \A s \in Nat : s <= q.contiguous => s \in r.above \/ \A t \in r.above : t > s
  BY <1>1, <1>2, <1>4
<1>10. q \in [contiguous : Nat, above : SUBSET Nat]
  <2>1. q = [contiguous |-> low - 1 + Cardinality(Run(low - 1, r.above)),
             above |-> r.above \ Run(low - 1, r.above)]
    BY <1>3 DEF Advance
  <2> QED BY <2>1, <1>4
<1> QED BY <1>2, <1>4, <1>5, <1>7, <1>8, <1>9, <1>10

\* One call of MarkReceived: the receiver stays within its bound, remembers
\* every number it was ever told, and only passes over a number that did not
\* arrive when more than MaxOutOfOrder later ones have.
LEMMA MarkReceivedSpec ==
    ASSUME NEW r, ReceiverOK(r), NEW seq \in Nat, NEW q, q = MarkReceived(r, seq)
    PROVE  /\ ReceiverOK(q)
           /\ q.contiguous >= r.contiguous
           /\ q.contiguous > r.contiguous => q.contiguous \in r.above \cup {seq}
           /\ q.above \subseteq r.above \cup {seq}
           /\ \A s \in r.above \cup {seq} : s <= q.contiguous \/ s \in q.above
           /\ \A s \in Nat :
                 s > r.contiguous /\ s <= q.contiguous
                 => \/ s \in r.above \cup {seq}
                    \/ \E later \in SUBSET (r.above \cup {seq}) :
                          /\ IsFiniteSet(later)
                          /\ Cardinality(later) > MaxOutOfOrder
                          /\ \A t \in later : t > s
<1> DEFINE held == r.above \cup {seq}
           next == Advance(r.contiguous, held)
<1>0. /\ r \in [contiguous : Nat, above : SUBSET Nat] /\ IsFiniteSet(r.above)
      /\ r.contiguous \in Nat /\ r.above \in SUBSET Nat
      /\ Cardinality(r.above) <= MaxOutOfOrder
      /\ \A s \in r.above : s > r.contiguous + 1
  BY DEF ReceiverOK
<1>1. CASE IsDuplicate(r, seq)
  <2>1. q = r
    BY <1>1 DEF MarkReceived, Record
  <2>2. \A s \in held : s <= r.contiguous \/ s \in r.above
    BY <1>1 DEF IsDuplicate
  <2> QED BY <1>0, <2>1, <2>2
<1>2. CASE ~ IsDuplicate(r, seq)
  <2>1. held \in SUBSET Nat /\ IsFiniteSet(held)
    BY <1>0, FS_AddElement
  <2>2. \A s \in held : s > r.contiguous
    BY <1>0, <1>2 DEF IsDuplicate
  <2>3. /\ next.contiguous \in Nat /\ next.contiguous >= r.contiguous
        /\ next.above \subseteq held /\ IsFiniteSet(next.above)
        /\ Cardinality(next.above) <= Cardinality(held)
        /\ \A s \in held : s <= next.contiguous \/ s \in next.above
        /\ \A s \in Nat : s > r.contiguous /\ s <= next.contiguous => s \in held
        /\ \A s \in next.above : s > next.contiguous + 1
    <3> HIDE DEF held
    <3> QED BY <1>0, <2>1, <2>2, AdvanceSpec
  <2>4. next \in [contiguous : Nat, above : SUBSET Nat]
    <3>1. next = [contiguous |-> next.contiguous, above |-> next.above]
      BY DEF Advance
    <3> HIDE DEF next
    <3> QED BY <2>1, <2>3, <3>1
  <2>5. Cardinality(next.above) \in Nat
    BY <2>3, FS_CardinalityType
  <2>6. CASE Cardinality(next.above) <= MaxOutOfOrder
    <3>1. q = next
      BY <1>2, <2>5, <2>6, MaxOutOfOrderAssumption DEF MarkReceived, Record
    <3> HIDE DEF next, held
    <3> QED BY <2>3, <2>4, <2>6, <3>1, <1>0 DEF held, ReceiverOK
  <2>7. CASE Cardinality(next.above) > MaxOutOfOrder
    <3>1. q = SkipOldestGap(next)
      BY <1>2, <2>7 DEF MarkReceived, Record
    <3> HIDE DEF next
    <3>2. next.above # {}
      BY <2>7, MaxOutOfOrderAssumption, FS_EmptySet
    <3>3. /\ q \in [contiguous : Nat, above : SUBSET Nat]
          /\ q.contiguous >= next.contiguous /\ q.contiguous \in next.above
          /\ q.above \subseteq next.above /\ IsFiniteSet(q.above)
          /\ Cardinality(q.above) < Cardinality(next.above)
          /\ \A s \in q.above : s > q.contiguous + 1
          /\ \A s \in next.above : s <= q.contiguous \/ s \in q.above
          /\ \A s \in Nat : s <= q.contiguous =>
                s \in next.above \/ \A t \in next.above : t > s
      BY <2>3, <2>4, <3>1, <3>2, SkipSpec
    <3>4. Cardinality(next.above) <= MaxOutOfOrder + 1
      <4>1. Cardinality(held) <= MaxOutOfOrder + 1
        <5>1. Cardinality(held) = IF seq \in r.above THEN Cardinality(r.above)
                                  ELSE Cardinality(r.above) + 1
          BY <1>0, FS_AddElement
        <5>2. Cardinality(r.above) \in Nat
          BY <1>0, FS_CardinalityType
        <5> QED BY <1>0, <5>1, <5>2, MaxOutOfOrderAssumption
      <4>2. Cardinality(held) \in Nat
        BY <2>1, FS_CardinalityType
      <4> HIDE DEF held
      <4> QED BY <2>3, <2>5, <4>1, <4>2, MaxOutOfOrderAssumption
    <3>5. ReceiverOK(q)
      <4>1. Cardinality(q.above) \in Nat
        BY <3>3, FS_CardinalityType
      <4> QED BY <2>5, <3>3, <3>4, <4>1, MaxOutOfOrderAssumption DEF ReceiverOK
    <3>6. \A s \in held : s <= q.contiguous \/ s \in q.above
      BY <2>1, <2>3, <3>3
    <3>7. ASSUME NEW s \in Nat, s <= q.contiguous, s > r.contiguous, s \notin held
          PROVE  \E later \in SUBSET held :
                    /\ IsFiniteSet(later)
                    /\ Cardinality(later) > MaxOutOfOrder
                    /\ \A t \in later : t > s
      <4>1. s \notin next.above
        BY <2>3, <3>7
      <4>2. \A t \in next.above : t > s
        BY <3>3, <3>7, <4>1
      <4> QED BY <2>3, <2>7, <4>2
    <3> QED BY <1>0, <2>1, <2>3, <3>3, <3>5, <3>6, <3>7
  <2> QED BY <2>5, <2>6, <2>7, MaxOutOfOrderAssumption
<1> QED BY <1>1, <1>2
=============================================================================
