-------------------------- MODULE CacheAndCodecProofs --------------------------
(***************************************************************************)
(* The parts of a session in which nothing runs concurrently.               *)
(*                                                                          *)
(* The response cache: its insertion queue expires what a scan of the map   *)
(* would, for any keys, any TTL and any threshold of the compaction.        *)
(*                                                                          *)
(* The codec: every well-typed message is read as itself, for any width of   *)
(* the integers and any number and length in it.  From the bottom up: the    *)
(* recursive functions of the model compute what their defining equations    *)
(* say; numbers and their octets; readTLV of what writeTagLen begins; octets *)
(* that read as a sequence of elements, and so do such octets one after the  *)
(* other; the choices, the lists and the optional fields; the seven          *)
(* messages; the envelope, and its parts.                                    *)
(***************************************************************************)
EXTENDS CacheAndCodec, DataLemmas

-----------------------------------------------------------------------------
(* The response cache.                                                       *)

Records == [seq : Keys, at : 0..Horizon]

\* The records behind the head.
Live == (respHead + 1)..Len(respOrder)

\* The queue is in the order of its times, none in the future.
InOrder ==
    /\ \A i \in 1..Len(respOrder) : respOrder[i].at <= clock
    /\ \A i, j \in 1..Len(respOrder) : i <= j => respOrder[i].at <= respOrder[j].at

\* Every entry still has the record that will expire it.
EntriesRecorded ==
    \A k \in Keys : respCache[k] # None =>
        \E i \in Live : respOrder[i].seq = k /\ respOrder[i].at = respCache[k]

\* A record may outlive its entry (the key was stored again), never the
\* other way round: this is what makes looking at the queue alone enough.
IInv == TypeOK /\ InOrder /\ EntriesRecorded
-----------------------------------------------------------------------------
(* The parts of cacheResponseAt.                                            *)

\* Compaction drops a prefix of spent records, or nothing: every other record
\* keeps its distance to the head.
LEMMA CompactedSpec ==
    ASSUME NEW S, NEW order \in Seq(S), NEW head \in 0..Len(order),
           NEW q, q = Compacted(order, head)
    PROVE  /\ q.order \in Seq(S)
           /\ q.head < CompactMin \/ q.head < Len(q.order) - q.head
           /\ \E d \in {0, head} :
                 /\ Len(q.order) = Len(order) - d
                 /\ q.head = head - d
                 /\ \A i \in 1..Len(q.order) : q.order[i] = order[d + i]
<1>1. Len(order) \in Nat /\ head \in Nat /\ head <= Len(order)
  BY LenProperties
<1>2. CASE head >= CompactMin /\ head * 2 >= Len(order)
  <2> DEFINE rest == SubSeq(order, head + 1, Len(order))
  <2>1. q.order = rest /\ q.head = 0
    BY <1>2 DEF Compacted
  <2>2. \A i \in (head + 1)..Len(order) : order[i] \in S
    BY <1>1, ElementOfSeq
  <2>3. /\ rest \in Seq(S)
        /\ Len(rest) = IF head + 1 <= Len(order) THEN Len(order) - (head + 1) + 1 ELSE 0
        /\ \A i \in 1..(Len(order) - (head + 1) + 1) : rest[i] = order[head + 1 + i - 1]
    BY <1>1, <2>2, SubSeqProperties
  <2> HIDE DEF rest
  <2>4. Len(rest) = Len(order) - head
    BY <1>1, <2>3
  <2>5. \A i \in 1..Len(rest) : rest[i] = order[head + i]
    BY <1>1, <2>3, <2>4
  <2> QED BY <1>1, <2>1, <2>3, <2>4, <2>5, CompactMinAssumption
<1>3. CASE ~ (head >= CompactMin /\ head * 2 >= Len(order))
  <2>1. q.order = order /\ q.head = head
    BY <1>3 DEF Compacted
  <2>2. head < CompactMin \/ head < Len(order) - head
    BY <1>1, <1>3, CompactMinAssumption
  <2> QED BY <1>1, <2>1, <2>2
<1> QED BY <1>2, <1>3

\* In a queue ordered by time the loop over the head stops at the first young
\* record, and every old one lies before it.
LEMMA ExpiredSpec ==
    ASSUME NEW order \in Seq(Records), NEW head \in 0..Len(order), clock \in Nat,
           \A i, j \in 1..Len(order) : i <= j => order[i].at <= order[j].at
    PROVE  /\ Cardinality(Expired(order, head)) \in 0..(Len(order) - head)
           /\ Expired(order, head) = (head+1)..(head + Cardinality(Expired(order, head)))
           /\ \A i \in (head+1)..Len(order) :
                 i \in Expired(order, head) <=> IsOld(order[i])
<1> DEFINE G == Expired(order, head)
           k == Cardinality(G)
<1>1. Len(order) \in Nat /\ head \in Nat /\ head <= Len(order)
  BY LenProperties
<1>2. \A i \in 1..Len(order) : order[i].at \in Nat
  <2> TAKE i \in 1..Len(order)
  <2>1. order[i] \in Records
    BY ElementOfSeq
  <2> QED BY <2>1, HorizonAssumption DEF Records
<1>3. G \subseteq (head+1)..Len(order)
  BY DEF Expired
<1>4. \A i \in G : i \in Int /\ i > head /\ (head+1)..i \subseteq G
  BY <1>1 DEF Expired
<1>5. \A i \in (head+1)..Len(order) : i \in G <=> IsOld(order[i])
  <2> TAKE i \in (head+1)..Len(order)
  <2>1. i \in G => IsOld(order[i])
    BY DEF Expired
  <2>2. ASSUME IsOld(order[i]), NEW j \in (head+1)..i PROVE IsOld(order[j])
    <3>1. i \in 1..Len(order) /\ j \in 1..Len(order) /\ j <= i
      BY <1>1
    <3>2. order[j].at <= order[i].at /\ order[j].at \in Nat /\ order[i].at \in Nat
      BY <1>2, <3>1
    <3> QED BY <2>2, <3>2, TTLAssumption DEF IsOld
  <2>3. IsOld(order[i]) => i \in G
    BY <2>2 DEF Expired
  <2> QED BY <2>1, <2>3
<1>6. IsFiniteSet(G)
  <2>1. head + 1 \in Int /\ Len(order) \in Int
    BY <1>1
  <2>2. IsFiniteSet((head+1)..Len(order))
    BY <2>1, FS_Interval
  <2> HIDE DEF G
  <2> QED BY <1>3, <2>2, FS_Subset
<1>7. k \in Nat /\ G = (head+1)..(head+k)
  <2> HIDE DEF G
  <2>1. head \in Int
    BY <1>1
  <2> QED BY <1>4, <1>6, <2>1, GaplessIsInterval
<1> HIDE DEF G, k
<1>8. k <= Len(order) - head
  <2> SUFFICES ASSUME k > Len(order) - head PROVE FALSE
    BY <1>1, <1>7
  <2>1. head + k \in G
    BY <1>1, <1>7
  <2> QED BY <1>1, <1>3, <1>7, <2>1
<1> QED BY <1>1, <1>5, <1>7, <1>8 DEF G, k
-----------------------------------------------------------------------------
(* The invariant.                                                           *)

\* The cache starts empty.
LEMMA InitIInv == Init => IInv
<1> SUFFICES ASSUME Init PROVE IInv
  OBVIOUS
<1>1. Len(respOrder) = 0 /\ respOrder \in Seq(Records)
  BY EmptySeq DEF Init
<1>2. TypeOK
  BY <1>1, HorizonAssumption DEF Init, TypeOK, Records
<1>3. InOrder /\ EntriesRecorded
  BY <1>1 DEF Init, InOrder, EntriesRecorded
<1> QED BY <1>2, <1>3 DEF IInv

\* Time passes: the order of the queue stays.
LEMMA AdvanceIInv == ASSUME IInv, Advance PROVE IInv'
<1>1. TypeOK'
  BY HorizonAssumption DEF IInv, TypeOK, Advance
<1>2. InOrder'
  <2>1. \A i \in 1..Len(respOrder) : respOrder[i].at \in Nat
    <3> TAKE i \in 1..Len(respOrder)
    <3>1. respOrder[i] \in Records
      BY ElementOfSeq DEF IInv, TypeOK, Records
    <3> QED BY <3>1, HorizonAssumption DEF Records
  <2> QED BY <2>1, HorizonAssumption DEF IInv, TypeOK, InOrder, Advance
<1>3. EntriesRecorded'
  BY DEF IInv, EntriesRecorded, Live, Advance
<1> QED BY <1>1, <1>2, <1>3 DEF IInv

\* What one insertion does: the queue keeps its invariants, and the entries
\* that leave are exactly the old ones.
LEMMA CacheResponseSpec ==
    ASSUME IInv, NEW k \in Keys, CacheResponse(k)
    PROVE  IInv' /\ SpentBounded' /\ Scan!Insert(k)
<1> DEFINE rec   == [seq |-> k, at |-> clock]
           order == Append(respOrder, rec)
           map   == Stored(k)
           gone  == Expired(order, respHead)
           n     == Cardinality(gone)
           head  == respHead + n
           queue == Compacted(order, head)
<1>1. /\ respOrder \in Seq(Records) /\ clock \in 0..Horizon /\ clock \in Nat
      /\ Len(respOrder) \in Nat /\ respHead \in 0..Len(respOrder)
      /\ respCache \in [Keys -> 0..Horizon \cup {None}]
  BY HorizonAssumption, LenProperties DEF IInv, TypeOK, Records
<1>2. /\ rec \in Records /\ order \in Seq(Records)
      /\ Len(order) = Len(respOrder) + 1
      /\ \A i \in 1..Len(respOrder) : order[i] = respOrder[i]
      /\ order[Len(order)] = rec
  <2>1. rec \in Records
    BY <1>1 DEF Records
  <2> HIDE DEF rec
  <2> QED BY <1>1, <2>1, AppendProperties
<1>3. /\ \A i \in 1..Len(order) : order[i].at <= clock
      /\ \A i, j \in 1..Len(order) : i <= j => order[i].at <= order[j].at
  <2>1. \A i \in 1..Len(order) : i \in 1..Len(respOrder) \/ i = Len(order)
    BY <1>1, <1>2
  <2>2. \A i \in 1..Len(order) : order[i].at <= clock
    BY <1>1, <1>2, <2>1 DEF IInv, InOrder
  <2>3. ASSUME NEW i \in 1..Len(order), NEW j \in 1..Len(order), i <= j
        PROVE  order[i].at <= order[j].at
    <3>1. CASE j = Len(order)
      BY <1>2, <2>2, <3>1
    <3>2. CASE j # Len(order)
      <4>1. i \in 1..Len(respOrder) /\ j \in 1..Len(respOrder)
        BY <1>1, <1>2, <2>3, <3>2
      <4> QED BY <1>2, <2>3, <4>1 DEF IInv, InOrder
    <3> QED BY <3>1, <3>2
  <2> QED BY <2>2, <2>3
<1>4. /\ respCache' = [j \in Keys |-> IF \E i \in gone : Drops(order[i], map, j)
                                      THEN None ELSE map[j]]
      /\ respOrder' = queue.order /\ respHead' = queue.head /\ clock' = clock
  BY DEF CacheResponse
<1>5. map \in [Keys -> 0..Horizon \cup {None}]
      /\ \A j \in Keys : map[j] = IF j = k THEN clock ELSE respCache[j]
  BY <1>1 DEF Stored
<1> HIDE DEF rec, order, map
<1>6. /\ n \in 0..(Len(order) - respHead)
      /\ gone = (respHead + 1)..(respHead + n)
      /\ \A i \in (respHead + 1)..Len(order) : i \in gone <=> IsOld(order[i])
  <2>1. respHead \in 0..Len(order)
    BY <1>1, <1>2
  <2> QED BY <1>1, <1>2, <1>3, <2>1, ExpiredSpec
<1> HIDE DEF gone, n
<1>7. /\ queue.order \in Seq(Records)
      /\ queue.head < CompactMin \/ queue.head < Len(queue.order) - queue.head
      /\ \E d \in {0, head} :
            /\ Len(queue.order) = Len(order) - d
            /\ queue.head = head - d
            /\ \A i \in 1..Len(queue.order) : queue.order[i] = order[d + i]
  <2>1. head \in 0..Len(order)
    BY <1>1, <1>2, <1>6
  <2> HIDE DEF head
  <2> QED BY <1>2, <2>1, CompactedSpec
<1> HIDE DEF queue, head
\* Every entry of the new map, the one just stored included, has its record.
<1>8. ASSUME NEW j \in Keys, map[j] # None
      PROVE  \E i \in (respHead + 1)..Len(order) :
                order[i].seq = j /\ order[i].at = map[j]
  <2>1. CASE j = k
    BY <1>1, <1>2, <1>5, <2>1 DEF rec
  <2>2. CASE j # k
    <3>1. PICK i \in Live : respOrder[i].seq = j /\ respOrder[i].at = respCache[j]
      BY <1>5, <1>8, <2>2 DEF IInv, EntriesRecorded
    <3>2. i \in 1..Len(respOrder) /\ i \in (respHead + 1)..Len(order)
      BY <1>1, <1>2 DEF Live
    <3> QED BY <1>2, <1>5, <2>2, <3>1, <3>2
  <2> QED BY <2>1, <2>2
<1>9. \A j \in Keys :
        (\E i \in gone : Drops(order[i], map, j)) <=> map[j] # None /\ clock - map[j] > TTL
  <2> TAKE j \in Keys
  <2>1. ASSUME NEW i \in gone, Drops(order[i], map, j)
        PROVE  map[j] # None /\ clock - map[j] > TTL
    <3>1. i \in (respHead + 1)..Len(order) /\ i \in 1..Len(order)
      BY <1>1, <1>2, <1>6
    <3>2. IsOld(order[i]) /\ map[j] = order[i].at /\ order[i] \in Records
      BY <1>2, <1>6, <2>1, <3>1, ElementOfSeq DEF Drops
    <3> QED BY <3>2, HorizonAssumption DEF IsOld, Records, None
  <2>2. ASSUME map[j] # None, clock - map[j] > TTL
        PROVE  \E i \in gone : Drops(order[i], map, j)
    <3>1. PICK i \in (respHead + 1)..Len(order) :
                order[i].seq = j /\ order[i].at = map[j]
      BY <1>8, <2>2
    <3> QED BY <1>6, <2>2, <3>1 DEF IsOld, Drops
  <2> QED BY <2>1, <2>2
<1>10. respCache' = [j \in Keys |-> IF map[j] # None /\ clock - map[j] > TTL
                                   THEN None ELSE map[j]]
  BY <1>4, <1>9
<1>11. SpentBounded'
  BY <1>4, <1>7 DEF SpentBounded
<1>12. Scan!Insert(k)
  <2>1. ~ (clock - clock > TTL)
    BY <1>1, TTLAssumption
  <2> QED BY <1>4, <1>5, <1>10, <2>1 DEF Scan!Insert, Scan!None, None
<1>13. PICK d \in {0, head} :
             /\ Len(queue.order) = Len(order) - d
             /\ queue.head = head - d
             /\ \A i \in 1..Len(queue.order) : queue.order[i] = order[d + i]
  BY <1>7
<1>14. /\ d \in Nat /\ respHead \in Nat /\ n \in Nat /\ Len(order) \in Nat
       /\ head = respHead + n /\ head <= Len(order) /\ d <= head
  BY <1>1, <1>2, <1>6, <1>13 DEF head
<1>15. TypeOK'
  <2>1. respHead' \in 0..Len(respOrder')
    BY <1>4, <1>13, <1>14
  <2>2. respCache' \in [Keys -> 0..Horizon \cup {None}]
    BY <1>5, <1>10
  <2>3. clock' \in 0..Horizon /\ respOrder' \in Seq(Records)
    BY <1>1, <1>4, <1>7
  <2> QED BY <2>1, <2>2, <2>3 DEF TypeOK, Records
<1>16. InOrder'
  <2>1. \A i \in 1..Len(queue.order) : d + i \in 1..Len(order)
    BY <1>13, <1>14
  <2>2. \A i \in 1..Len(queue.order) : queue.order[i].at <= clock
    BY <1>3, <1>13, <2>1
  <2>3. ASSUME NEW i \in 1..Len(queue.order), NEW j \in 1..Len(queue.order), i <= j
        PROVE  queue.order[i].at <= queue.order[j].at
    <3>1. d + i <= d + j
      BY <1>14, <2>3
    <3> QED BY <1>3, <1>13, <2>1, <3>1
  <2> QED BY <1>4, <2>2, <2>3 DEF InOrder
<1>17. EntriesRecorded'
  <2> SUFFICES ASSUME NEW j \in Keys, respCache'[j] # None
               PROVE  \E i \in Live' : queue.order[i].seq = j
                                       /\ queue.order[i].at = respCache'[j]
    BY <1>4 DEF EntriesRecorded
  <2>1. map[j] # None /\ respCache'[j] = map[j] /\ ~ (clock - map[j] > TTL)
    BY <1>10
  <2>2. PICK i \in (respHead + 1)..Len(order) :
              order[i].seq = j /\ order[i].at = map[j]
    BY <1>8, <2>1
  <2>3. i \notin gone
    BY <1>6, <2>1, <2>2 DEF IsOld
  <2>4. i - d \in Live' /\ i - d \in 1..Len(queue.order) /\ d + (i - d) = i
    BY <1>4, <1>6, <1>13, <1>14, <2>2, <2>3 DEF Live
  <2> QED BY <1>13, <2>1, <2>2, <2>4
<1> QED BY <1>11, <1>12, <1>15, <1>16, <1>17 DEF IInv

\* Every step keeps the queue and the entries together.
LEMMA NextIInv == IInv /\ [Next]_vars => IInv'
<1>1. ASSUME IInv, UNCHANGED vars PROVE IInv'
  BY <1>1 DEF vars, IInv, TypeOK, InOrder, EntriesRecorded, Live
<1> QED BY <1>1, AdvanceIInv, CacheResponseSpec DEF Next

\* The invariant of the cache.
LEMMA Invariance == Spec => []IInv
BY InitIInv, NextIInv, PTL DEF Spec

\* The cache and its queue keep their types: the head never passes the end.
THEOREM CacheTypeCorrect == Spec => []TypeOK
<1>1. IInv => TypeOK
  BY DEF IInv
<1> QED BY <1>1, Invariance, PTL

\* The queue does not hoard spent records, whatever the threshold.
THEOREM SpentRecordsBounded == Spec => []SpentBounded
<1>1. Init => SpentBounded
  BY CompactMinAssumption DEF Init, SpentBounded
<1>2. IInv /\ SpentBounded /\ [Next]_vars => SpentBounded'
  <2>1. ASSUME SpentBounded, UNCHANGED <<respOrder, respHead>> PROVE SpentBounded'
    BY <2>1 DEF SpentBounded
  <2> QED BY <2>1, CacheResponseSpec DEF Next, Advance, vars
<1> QED BY <1>1, <1>2, Invariance, PTL DEF Spec

\* Expiring from the queue is expiring by a scan of the whole map, although a
\* key that is stored again leaves a stale record behind and compaction moves
\* the records.
THEOREM QueueImplementsScan == Spec => ImplementsTTLCache
<1>1. Init => Scan!Init
  BY DEF Init, Scan!Init, Scan!None, None
<1>2. IInv /\ [Next]_vars => [Scan!Next]_<<clock, respCache>>
  <2>1. Advance => Scan!Advance
    BY DEF Advance, Scan!Advance
  <2> QED BY <2>1, CacheResponseSpec DEF Next, Scan!Next, vars
<1> QED BY <1>1, <1>2, Invariance, PTL DEF Spec, ImplementsTTLCache, Scan!Spec

-----------------------------------------------------------------------------
(* Recursion.                                                               *)

\* The parts of a definition by recursion: the value for 0, which smaller
\* number the value for n comes from, and how.
Recursion(S, base, below, step) ==
    /\ base \in S /\ below \in [Nat \ {0} -> Nat] /\ step \in [Nat \ {0} -> [S -> S]]
    /\ \A n \in Nat \ {0} : below[n] < n

Computes(f, S, base, below, step) ==
    /\ f \in [Nat -> S] /\ f[0] = base
    /\ \A n \in Nat \ {0} : f[n] = step[n][f[below[n]]]

\* A function on the numbers may be defined by recursion on smaller ones.
LEMMA NatRecursion ==
    ASSUME NEW S, NEW base, NEW below, NEW step, Recursion(S, base, below, step)
    PROVE  \E f : Computes(f, S, base, below, step)
<1> USE DEF Recursion
<1> DEFINE Upto(k, g) == /\ g \in [0..k -> S]
                         /\ g[0] = base
                         /\ \A n \in 1..k : g[n] = step[n][g[below[n]]]
           P == {k \in Nat : \E g : Upto(k, g)}
           F(k) == CHOOSE g : Upto(k, g)
<1>1. 0 \in P
  <2> DEFINE g == [i \in 0..0 |-> base]
  <2>1. Upto(0, g)
    OBVIOUS
  <2> QED BY <2>1
<1>2. ASSUME NEW k \in Nat, k \in P PROVE k + 1 \in P
  <2>1. PICK g : Upto(k, g)
    BY <1>2
  <2>2. below[k+1] \in 0..k
    OBVIOUS
  <2>3. step[k+1][g[below[k+1]]] \in S
    <3>1. step[k+1] \in [S -> S]
      OBVIOUS
    <3> QED BY <2>1, <2>2, <3>1
  <2> DEFINE x == step[k+1][g[below[k+1]]]
             h == [i \in 0..(k+1) |-> IF i <= k THEN g[i] ELSE x]
  <2> HIDE DEF x
  <2>4. h \in [0..(k+1) -> S] /\ h[0] = base
    BY <2>1, <2>3 DEF x
  <2>5. \A n \in 1..(k+1) : h[n] = step[n][h[below[n]]]
    <3> TAKE n \in 1..(k+1)
    <3>1. below[n] \in 0..k /\ h[below[n]] = g[below[n]]
      OBVIOUS
    <3>2. CASE n <= k
      <4>1. h[n] = g[n]
        BY <3>2
      <4> HIDE DEF h
      <4> QED BY <2>1, <3>1, <3>2, <4>1
    <3>3. CASE n = k + 1
      <4>1. h[n] = x
        BY <3>3
      <4> HIDE DEF h
      <4> QED BY <3>1, <3>3, <4>1 DEF x
    <3> QED BY <3>2, <3>3
  <2> HIDE DEF h
  <2> QED BY <2>4, <2>5
<1>3. \A k \in Nat : Upto(k, F(k))
  <2> HIDE DEF P, Upto
  <2>1. Nat \subseteq P
    BY <1>1, <1>2, NatSetInduction
  <2> QED BY <2>1 DEF P
<1> HIDE DEF F
\* Two such functions agree where both are defined.
<1>4. ASSUME NEW k \in Nat, NEW m \in Nat
      PROVE  \A n \in Nat : n <= k /\ n <= m => F(k)[n] = F(m)[n]
  <2> DEFINE Q == {n \in Nat : n <= k /\ n <= m => F(k)[n] = F(m)[n]}
  <2>1. ASSUME NEW n \in Nat, 0..(n-1) \subseteq Q PROVE n \in Q
    <3> SUFFICES ASSUME n <= k, n <= m PROVE F(k)[n] = F(m)[n]
      OBVIOUS
    <3>1. CASE n = 0
      BY <1>3, <3>1
    <3>2. CASE n # 0
      <4>1. below[n] \in 0..(n-1)
        BY <3>2
      <4>2. F(k)[below[n]] = F(m)[below[n]]
        BY <2>1, <4>1
      <4>3. n \in 1..k /\ n \in 1..m
        BY <3>2
      <4> QED BY <1>3, <4>2, <4>3
    <3> QED BY <3>1, <3>2
  <2>2. Nat \subseteq Q
    <3> HIDE DEF Q
    <3> QED BY <2>1, NatSetStrongInduction
  <2> QED BY <2>2
<1> DEFINE f == [n \in Nat |-> F(n)[n]]
<1>5. f \in [Nat -> S]
  <2>1. \A n \in Nat : F(n)[n] \in S
    BY <1>3
  <2> QED BY <2>1
<1>6. f[0] = base
  BY <1>3
<1>7. ASSUME NEW n \in Nat \ {0} PROVE f[n] = step[n][f[below[n]]]
  <2>1. below[n] \in Nat /\ below[n] <= n /\ n \in 1..n
    OBVIOUS
  <2>2. F(n)[below[n]] = F(below[n])[below[n]]
    BY <1>4, <2>1
  <2>3. F(n)[n] = step[n][F(n)[below[n]]]
    BY <1>3, <2>1
  <2> QED BY <2>1, <2>2, <2>3
<1> HIDE DEF f
<1> QED BY <1>5, <1>6, <1>7 DEF Computes

-----------------------------------------------------------------------------
(* Numbers.                                                                 *)

\* k + 1 octets have 256 times as many numbers as k.
LEMMA PowerSpec ==
    /\ Power[0] = 1
    /\ \A k \in Nat : Power[k] \in Nat \ {0} /\ Power[k+1] = 256 * Power[k]
<1> DEFINE one == 1
           below == [n \in Nat \ {0} |-> n - 1]
           step == [n \in Nat \ {0} |-> [x \in Nat |-> 256 * x]]
           G(f) == [k \in Nat |-> IF k = 0 THEN 1 ELSE 256 * f[k - 1]]
<1>1. Recursion(Nat, one, below, step)
  BY DEF Recursion
<1>2. PICK f : Computes(f, Nat, one, below, step)
  <2> HIDE DEF one, below, step
  <2> QED BY <1>1, NatRecursion
<1>3. ASSUME NEW n \in Nat \ {0} PROVE f[n] = 256 * f[n - 1]
  <2>1. below[n] = n - 1 /\ f[n - 1] \in Nat
    BY <1>2 DEF Computes
  <2>2. step[n][f[n - 1]] = 256 * f[n - 1]
    BY <2>1
  <2> HIDE DEF below, step
  <2> QED BY <1>2, <2>1, <2>2 DEF Computes
<1>4. f = G(f)
  BY <1>2, <1>3 DEF Computes
<1>5. Power = G(Power)
  <2>1. Power = CHOOSE g : g = G(g)
    BY DEF Power, Radix
  <2> HIDE DEF G
  <2> QED BY <1>4, <2>1
<1>6. Power[0] = 1 /\ \A k \in Nat : Power[k+1] = 256 * Power[k]
  <2>1. \A k \in Nat : Power[k] = IF k = 0 THEN 1 ELSE 256 * Power[k - 1]
    BY <1>5
  <2>2. ASSUME NEW k \in Nat PROVE Power[k+1] = 256 * Power[k]
    <3>1. k + 1 \in Nat /\ k + 1 # 0 /\ (k + 1) - 1 = k
      OBVIOUS
    <3> QED BY <2>1, <3>1
  <2> QED BY <2>1, <2>2
<1> DEFINE Q == {k \in Nat : Power[k] \in Nat \ {0}}
<1>7. Nat \subseteq Q
  <2>1. 0 \in Q
    BY <1>6
  <2>2. ASSUME NEW k \in Nat, k \in Q PROVE k + 1 \in Q
    <3>1. 256 * Power[k] \in Nat \ {0}
      BY <2>2
    <3> QED BY <1>6, <3>1
  <2> HIDE DEF Q
  <2> QED BY <2>1, <2>2, NatSetInduction
<1> QED BY <1>6, <1>7

Octet == 0..255

\* An octet is a number below 256.
LEMMA OctetIsNat == \A x \in Octet : x \in Nat /\ x <= 255
BY DEF Octet

\* A string of octets is a string of numbers.
LEMMA OctetsAreNumbers == \A s \in Seq(Octet) : s \in Seq(Nat)
<1>1. Octet \subseteq Nat
  BY DEF Octet
<1> QED BY <1>1, SeqMonotonic

\* Bytes lists the digits to the base 256, the last one appended last.
LEMMA BytesSpec ==
    /\ Bytes[0] = <<>>
    /\ \A n \in Nat : Bytes[n] \in Seq(Octet)
    /\ \A n \in Nat \ {0} : Bytes[n] = Append(Bytes[n \div 256], n % 256)
<1> DEFINE none == <<>>
           below == [n \in Nat \ {0} |-> n \div 256]
           step == [n \in Nat \ {0} |-> [s \in Seq(Octet) |-> Append(s, n % 256)]]
           G(f) == [n \in Nat |-> IF n = 0 THEN <<>> ELSE Append(f[n \div 256], n % 256)]
<1>1. Recursion(Seq(Octet), none, below, step)
  <2>1. \A n \in Nat \ {0} : n % 256 \in Octet /\ n \div 256 \in Nat /\ n \div 256 < n
    BY DEF Octet
  <2>2. \A n \in Nat \ {0} : step[n] \in [Seq(Octet) -> Seq(Octet)]
    BY <2>1, AppendProperties
  <2>3. step \in [Nat \ {0} -> [Seq(Octet) -> Seq(Octet)]]
    BY <2>2
  <2>4. none \in Seq(Octet)
    BY EmptySeq
  <2>5. below \in [Nat \ {0} -> Nat] /\ \A n \in Nat \ {0} : below[n] < n
    BY <2>1
  <2> HIDE DEF none, below, step
  <2> QED BY <2>3, <2>4, <2>5 DEF Recursion
<1>2. PICK f : Computes(f, Seq(Octet), none, below, step)
  <2> HIDE DEF none, below, step
  <2> QED BY <1>1, NatRecursion
<1>3. ASSUME NEW n \in Nat \ {0} PROVE f[n] = Append(f[n \div 256], n % 256)
  <2>1. below[n] = n \div 256 /\ n \div 256 \in Nat
    OBVIOUS
  <2>2. f[n \div 256] \in Seq(Octet)
    BY <1>2, <2>1 DEF Computes
  <2>3. step[n][f[n \div 256]] = Append(f[n \div 256], n % 256)
    BY <2>2
  <2> HIDE DEF below, step
  <2>4. f[n] = step[n][f[below[n]]]
    BY <1>2 DEF Computes
  <2> QED BY <2>1, <2>3, <2>4, Zenon
<1>4. f = G(f)
  <2>1. f \in [Nat -> Seq(Octet)] /\ f[0] = <<>>
    BY <1>2 DEF Computes
  <2>2. \A n \in Nat : f[n] = G(f)[n]
    BY <1>3, <2>1
  <2>3. f = [n \in Nat |-> f[n]] /\ G(f) = [n \in Nat |-> G(f)[n]]
    BY <2>1
  <2> HIDE DEF G
  <2> QED BY <2>2, <2>3, Zenon
<1>5. Bytes = G(Bytes)
  <2>1. Bytes = CHOOSE g : g = G(g)
    BY DEF Bytes, Radix
  <2> HIDE DEF G
  <2> QED BY <1>4, <2>1
<1>6. \A n \in Nat : Bytes[n] = IF n = 0 THEN <<>> ELSE Append(Bytes[n \div 256], n % 256)
  BY <1>5
<1> DEFINE P == {n \in Nat : Bytes[n] \in Seq(Octet)}
<1>7. ASSUME NEW n \in Nat, 0..(n-1) \subseteq P PROVE n \in P
  <2>1. CASE n = 0
    BY <1>6, <2>1, EmptySeq
  <2>2. CASE n # 0
    <3>1. n \div 256 \in 0..(n-1) /\ n % 256 \in Octet
      BY <2>2 DEF Octet
    <3>2. Bytes[n \div 256] \in Seq(Octet)
      BY <1>7, <3>1
    <3>3. Append(Bytes[n \div 256], n % 256) \in Seq(Octet)
      BY <3>1, <3>2, AppendProperties
    <3> QED BY <1>6, <2>2, <3>3
  <2> QED BY <2>1, <2>2
<1>8. Nat \subseteq P
  <2> HIDE DEF P
  <2> QED BY <1>7, NatSetStrongInduction
<1> QED BY <1>6, <1>8

\* BitLen counts the halvings down to zero.
LEMMA BitLenSpec ==
    /\ BitLen[0] = 0
    /\ \A n \in Nat : BitLen[n] \in Nat
    /\ \A n \in Nat \ {0} : BitLen[n] = 1 + BitLen[n \div 2]
<1> DEFINE zero == 0
           below == [n \in Nat \ {0} |-> n \div 2]
           step == [n \in Nat \ {0} |-> [x \in Nat |-> 1 + x]]
           G(f) == [n \in Nat |-> IF n = 0 THEN 0 ELSE 1 + f[n \div 2]]
<1>1. Recursion(Nat, zero, below, step)
  BY DEF Recursion
<1>2. PICK f : Computes(f, Nat, zero, below, step)
  <2> HIDE DEF zero, below, step
  <2> QED BY <1>1, NatRecursion
<1>3. ASSUME NEW n \in Nat \ {0} PROVE f[n] = 1 + f[n \div 2]
  <2>1. below[n] = n \div 2 /\ n \div 2 \in Nat
    OBVIOUS
  <2>2. f[n \div 2] \in Nat
    BY <1>2, <2>1 DEF Computes
  <2>3. step[n][f[n \div 2]] = 1 + f[n \div 2]
    BY <2>2
  <2> HIDE DEF below, step
  <2> QED BY <1>2, <2>1, <2>3 DEF Computes
<1>4. f = G(f)
  BY <1>2, <1>3 DEF Computes
<1>5. BitLen = G(BitLen)
  <2>1. BitLen = CHOOSE g : g = G(g)
    BY DEF BitLen
  <2> HIDE DEF G
  <2> QED BY <1>4, <2>1
<1>6. \A n \in Nat : BitLen[n] = IF n = 0 THEN 0 ELSE 1 + BitLen[n \div 2]
  BY <1>5
<1> DEFINE P == {n \in Nat : BitLen[n] \in Nat}
<1>7. ASSUME NEW n \in Nat, 0..(n-1) \subseteq P PROVE n \in P
  <2>1. CASE n = 0
    BY <1>6, <2>1
  <2>2. CASE n # 0
    <3>1. n \div 2 \in 0..(n-1)
      BY <2>2
    <3> QED BY <1>6, <1>7, <2>2, <3>1
  <2> QED BY <2>1, <2>2
<1>8. Nat \subseteq P
  <2> HIDE DEF P
  <2> QED BY <1>7, NatSetStrongInduction
<1> QED BY <1>6, <1>8

\* The numbers that SetBytes goes through.
Sums(f, s) ==
    /\ f \in [0..Len(s) -> Nat] /\ f[0] = 0
    /\ \A k \in 1..Len(s) : f[k] = 256 * f[k - 1] + s[k]

\* SetBytes is the last of the partial sums that readTLV and big.Int.SetBytes add up.
LEMMA SumsExist ==
    ASSUME NEW s \in Seq(Nat)
    PROVE  \E f : Sums(f, s) /\ SetBytes(s) = f[Len(s)]
<1> DEFINE N == Len(s)
           zero == 0
           below == [n \in Nat \ {0} |-> n - 1]
           octet(n) == IF n \in 1..N THEN s[n] ELSE 0
           step == [n \in Nat \ {0} |-> [x \in Nat |-> 256 * x + octet(n)]]
           G(f) == [k \in 0..N |-> IF k = 0 THEN 0 ELSE 256 * f[k - 1] + s[k]]
<1>1. N \in Nat /\ \A n \in 1..N : s[n] \in Nat
  BY LenProperties, ElementOfSeq
<1> HIDE DEF N
<1>2. Recursion(Nat, zero, below, step)
  <2>1. \A n \in Nat : octet(n) \in Nat
    BY <1>1
  <2> HIDE DEF octet
  <2>2. \A n \in Nat \ {0} : step[n] \in [Nat -> Nat]
    BY <2>1
  <2> QED BY <2>2 DEF Recursion
<1>3. PICK g : Computes(g, Nat, zero, below, step)
  <2> HIDE DEF zero, below, step
  <2> QED BY <1>2, NatRecursion
<1> DEFINE f == [k \in 0..N |-> g[k]]
<1>4. ASSUME NEW k \in 1..N PROVE f[k] = 256 * f[k - 1] + s[k]
  <2>1. k \in Nat \ {0} /\ k - 1 \in Nat /\ below[k] = k - 1 /\ k - 1 \in 0..N /\ k \in 0..N
    BY <1>1
  <2>2. g[k - 1] \in Nat /\ octet(k) = s[k]
    BY <1>3, <2>1 DEF Computes
  <2>3. step[k][g[k - 1]] = 256 * g[k - 1] + s[k]
    BY <2>1, <2>2
  <2> HIDE DEF below, step
  <2>4. g[k] = step[k][g[below[k]]]
    BY <1>3, <2>1 DEF Computes
  <2> QED BY <2>1, <2>3, <2>4
<1>5. f \in [0..N -> Nat] /\ f[0] = 0
  BY <1>1, <1>3 DEF Computes
<1> HIDE DEF f
<1>6. f = G(f)
  BY <1>1, <1>4, <1>5
<1> DEFINE h == CHOOSE h : h = G(h)
<1>7. h = G(h)
  <2> HIDE DEF G
  <2> QED BY <1>6
<1>8. SetBytes(s) = h[N]
  BY DEF SetBytes, Radix, N
<1> HIDE DEF h
<1>9. h[0] = 0 /\ \A k \in 1..N : h[k] = 256 * h[k - 1] + s[k]
  BY <1>1, <1>7
<1> DEFINE P == {k \in Nat : k <= N => h[k] \in Nat}
<1>10. Nat \subseteq P
  <2>1. 0 \in P
    BY <1>9
  <2>2. ASSUME NEW k \in Nat, k \in P PROVE k + 1 \in P
    <3> SUFFICES ASSUME k + 1 <= N PROVE h[k + 1] \in Nat
      OBVIOUS
    <3>1. k + 1 \in 1..N /\ (k + 1) - 1 = k /\ h[k] \in Nat
      BY <1>1, <2>2
    <3>2. s[k + 1] \in Nat /\ h[k + 1] = 256 * h[k] + s[k + 1]
      BY <1>1, <1>9, <3>1
    <3> QED BY <3>1, <3>2
  <2> HIDE DEF P
  <2> QED BY <2>1, <2>2, NatSetInduction
<1>11. h \in [0..N -> Nat]
  <2>1. \A k \in 0..N : h[k] \in Nat
    BY <1>1, <1>10
  <2> HIDE DEF P
  <2> QED BY <1>7, <2>1
<1> QED BY <1>8, <1>9, <1>11 DEF Sums, N

\* They depend on the octets so far only.
LEMMA SumsAgree ==
    ASSUME NEW s \in Seq(Octet), NEW t \in Seq(Octet), NEW f, NEW g, Sums(f, s), Sums(g, t),
           NEW n \in Nat, n <= Len(s), n <= Len(t), \A i \in 1..n : s[i] = t[i]
    PROVE  f[n] = g[n]
<1> DEFINE P == {k \in Nat : k <= n => f[k] = g[k]}
<1>1. Len(s) \in Nat /\ Len(t) \in Nat
  BY LenProperties
<1>2. 0 \in P
  BY DEF Sums
<1>3. ASSUME NEW k \in Nat, k \in P PROVE k + 1 \in P
  <2> SUFFICES ASSUME k + 1 <= n PROVE f[k + 1] = g[k + 1]
    OBVIOUS
  <2>1. f[k] = g[k] /\ s[k + 1] = t[k + 1] /\ (k + 1) - 1 = k
    BY <1>3
  <2>2. k + 1 \in 1..Len(s) /\ k + 1 \in 1..Len(t)
    BY <1>1
  <2>3. f[k + 1] = 256 * f[(k + 1) - 1] + s[k + 1] /\ g[k + 1] = 256 * g[(k + 1) - 1] + t[k + 1]
    BY <2>2 DEF Sums
  <2> QED BY <2>1, <2>3
<1>4. Nat \subseteq P
  <2> HIDE DEF P
  <2> QED BY <1>2, <1>3, NatSetInduction
<1> QED BY <1>4

\* An octet appended is a digit appended.
LEMMA SetBytesSpec ==
    /\ SetBytes(<<>>) = 0
    /\ \A s \in Seq(Nat) : SetBytes(s) \in Nat
    /\ \A s \in Seq(Octet) : SetBytes(s) \in Nat
    /\ \A s \in Seq(Octet) : \A x \in Octet : SetBytes(Append(s, x)) = 256 * SetBytes(s) + x
<1>1. SetBytes(<<>>) = 0
  <2>1. <<>> \in Seq(Nat) /\ Len(<<>>) = 0
    BY EmptySeq
  <2>2. PICK f : Sums(f, <<>>) /\ SetBytes(<<>>) = f[Len(<<>>)]
    BY <2>1, SumsExist
  <2> QED BY <2>1, <2>2 DEF Sums
<1>2. ASSUME NEW s \in Seq(Nat) PROVE SetBytes(s) \in Nat
  <2>1. PICK f : Sums(f, s) /\ SetBytes(s) = f[Len(s)]
    BY SumsExist
  <2>2. Len(s) \in Nat
    BY LenProperties
  <2> QED BY <2>1, <2>2 DEF Sums
<1>3. ASSUME NEW s \in Seq(Octet), NEW x \in Octet
      PROVE  SetBytes(Append(s, x)) = 256 * SetBytes(s) + x
  <2> DEFINE t == Append(s, x)
             n == Len(s)
  <2>1. /\ t \in Seq(Octet) /\ Len(t) = n + 1 /\ t[n + 1] = x /\ n \in Nat
        /\ \A i \in 1..n : t[i] = s[i]
    BY AppendProperties, LenProperties
  <2>2. PICK f : Sums(f, s) /\ SetBytes(s) = f[n]
    BY OctetsAreNumbers, SumsExist
  <2> HIDE DEF t
  <2>3. PICK g : Sums(g, t) /\ SetBytes(t) = g[Len(t)]
    BY <2>1, OctetsAreNumbers, SumsExist
  <2> HIDE DEF n
  <2>4. g[n] = f[n]
    <3>1. n <= Len(t) /\ n <= Len(s)
      BY <2>1 DEF n
    <3> QED BY <2>1, <2>2, <2>3, <3>1, SumsAgree
  <2>5. n + 1 \in 1..Len(t) /\ (n + 1) - 1 = n
    BY <2>1
  <2>6. g[n + 1] = 256 * g[n] + t[n + 1]
    BY <2>3, <2>5 DEF Sums
  <2> QED BY <2>1, <2>2, <2>3, <2>4, <2>6 DEF t, n
<1> QED BY <1>1, <1>2, <1>3, OctetsAreNumbers

\* The octets of a number are those of no other.
LEMMA SetBytesOfBytes ==
    \A n \in Nat : SetBytes(Bytes[n]) = n
<1> DEFINE P == {n \in Nat : SetBytes(Bytes[n]) = n}
<1>1. ASSUME NEW n \in Nat, 0..(n-1) \subseteq P PROVE n \in P
  <2>1. CASE n = 0
    BY <2>1, BytesSpec, SetBytesSpec
  <2>2. CASE n # 0
    <3> DEFINE q == n \div 256
               r == n % 256
    <3>1. q \in 0..(n-1) /\ r \in Nat /\ r \in Octet /\ n = 256 * q + r
      BY <2>2 DEF Octet
    <3>2. Bytes[n] = Append(Bytes[q], r) /\ Bytes[q] \in Seq(Octet)
      <4>1. Bytes[n] = Append(Bytes[n \div 256], n % 256)
        BY <2>2, BytesSpec
      <4> QED BY <3>1, <4>1, BytesSpec
    <3>3. SetBytes(Bytes[q]) = q
      BY <1>1, <3>1
    <3> HIDE DEF q, r
    <3>5. SetBytes(Append(Bytes[q], r)) = 256 * SetBytes(Bytes[q]) + r
      BY <3>1, <3>2, SetBytesSpec
    <3> QED BY <3>1, <3>2, <3>3, <3>5
  <2> QED BY <2>1, <2>2
<1>2. Nat \subseteq P
  <2> HIDE DEF P
  <2> QED BY <1>1, NatSetStrongInduction
<1> QED BY <1>2

\* One more octet, and the bounds of the number have one more digit.
Leading(v, a, p) == a * p <= v /\ v < a * p + p

\* One more octet behind leaves the leading one where it is.
LEMMA DigitBounds ==
    ASSUME NEW a \in Nat, NEW p \in Nat, NEW v \in Nat, NEW x \in Octet,
           NEW q, NEW w, q = 256 * p, w = 256 * v + x, Leading(v, a, p)
    PROVE  Leading(w, a, q)
<1>1. a * p \in Nat /\ a * (256 * p) = 256 * (a * p)
  OBVIOUS
<1> DEFINE m == a * p
<1>2. m \in Nat /\ m <= v /\ v < m + p
  BY <1>1 DEF Leading
<1> HIDE DEF m
<1>3. 256 * m <= 256 * v + x /\ 256 * v + x < 256 * m + 256 * p
  BY <1>2 DEF Octet
<1> QED BY <1>1, <1>3 DEF m, Leading

\* The first octet says how large the number is.
LEMMA FirstOctet ==
    ASSUME NEW s \in Seq(Octet), s # <<>>
    PROVE  /\ Len(s) - 1 \in Nat
           /\ s[1] \in Octet
           /\ Leading(SetBytes(s), s[1], Power[Len(s) - 1])
<1> DEFINE Bounded(t) == /\ Len(t) - 1 \in Nat
                         /\ t[1] \in Octet
                         /\ Leading(SetBytes(t), t[1], Power[Len(t) - 1])
           P == {t \in Seq(Octet) : t # <<>> => Bounded(t)}
<1>1. <<>> \in P
  BY EmptySeq
<1>2. ASSUME NEW t \in Seq(Octet), NEW x \in Octet, t \in P PROVE Append(t, x) \in P
  <2> DEFINE u == Append(t, x)
  <2>1. /\ u \in Seq(Octet) /\ Len(u) = Len(t) + 1 /\ u[Len(t) + 1] = x
        /\ \A i \in 1..Len(t) : u[i] = t[i]
        /\ Len(t) \in Nat
    BY AppendProperties, LenProperties
  <2>2. x \in Nat
    BY DEF Octet
  <2>3. SetBytes(u) = 256 * SetBytes(t) + x /\ SetBytes(t) \in Nat
    BY SetBytesSpec
  <2>4. CASE t = <<>>
    <3>1. Len(u) = 1 /\ u[1] = x /\ SetBytes(u) = x
      BY <2>1, <2>2, <2>3, <2>4, EmptySeq, SetBytesSpec
    <3>2. Power[Len(u) - 1] = 1
      BY <3>1, PowerSpec
    <3>3. Bounded(u)
      <4> HIDE DEF u
      <4>1. Len(u) - 1 = 0
        BY <3>1
      <4>2. Leading(SetBytes(u), u[1], 1)
        BY <2>2, <3>1 DEF Leading
      <4> QED BY <3>1, <3>2, <4>1, <4>2
    <3> QED BY <2>1, <3>3
  <2>5. CASE t # <<>>
    <3>1. Bounded(t)
      BY <1>2, <2>5
    <3> DEFINE k == Len(t) - 1
    <3>2. u[1] = t[1] /\ Len(u) - 1 = k + 1 /\ k \in Nat
      BY <2>1, <3>1
    <3>3. Power[k] \in Nat /\ Power[k + 1] = 256 * Power[k]
      BY <3>2, PowerSpec
    <3> DEFINE p == Power[k]
               v == SetBytes(t)
               a == t[1]
    <3>4. a \in Nat /\ p \in Nat /\ v \in Nat /\ Leading(v, a, p)
      <4>1. a \in Nat
        BY <3>1, OctetIsNat
      <4> QED BY <2>3, <3>1, <3>3, <4>1
    <3>5. Leading(SetBytes(u), a, 256 * p)
      <4> HIDE DEF a, p, u
      <4>1. SetBytes(u) = 256 * v + x
        BY <2>3
      <4> HIDE DEF v
      <4> QED BY <3>4, <4>1, DigitBounds
    <3>6. Power[Len(u) - 1] = 256 * p
      BY <3>2, <3>3
    <3> HIDE DEF u, k, p
    <3>7. Bounded(u)
      BY <2>3, <3>1, <3>2, <3>5, <3>6
    <3> QED BY <2>1, <3>7 DEF u
  <2> QED BY <2>4, <2>5
<1>3. Seq(Octet) \subseteq P
  <2> HIDE DEF P
  <2> QED BY <1>1, <1>2, SeqSetInduction
<1> QED BY <1>3

\* A sequence with an element put in front.
LEMMA ConsSpec ==
    ASSUME NEW S, NEW x \in S, NEW s \in Seq(S)
    PROVE  /\ <<x>> \o s \in Seq(S) /\ <<x>> \o s # <<>>
           /\ Len(<<x>> \o s) = 1 + Len(s)
           /\ (<<x>> \o s)[1] = x
           /\ \A i \in 1..Len(s) : (<<x>> \o s)[i + 1] = s[i]
<1> DEFINE o == <<x>>
           c == o \o s
<1>1. o \in Seq(S) /\ Len(o) = 1 /\ o[1] = x
  OBVIOUS
<1> HIDE DEF o
<1>2. Len(s) \in Nat
  BY LenProperties
<1>3. /\ c \in Seq(S) /\ Len(c) = Len(o) + Len(s)
      /\ \A i \in 1..(Len(o) + Len(s)) : c[i] = IF i <= Len(o) THEN o[i] ELSE s[i - Len(o)]
  BY <1>1, ConcatProperties
<1> HIDE DEF c
<1>4. c # <<>>
  BY <1>1, <1>2, <1>3, EmptySeq
<1>5. Len(c) = 1 + Len(s)
  BY <1>1, <1>3
<1>6. c[1] = x
  BY <1>1, <1>2, <1>3
<1>7. ASSUME NEW i \in 1..Len(s) PROVE c[i + 1] = s[i]
  <2>1. i + 1 \in 1..(1 + Len(s)) /\ ~ (i + 1 <= 1) /\ (i + 1) - 1 = i
    BY <1>2
  <2> QED BY <1>1, <1>3, <2>1
<1> QED BY <1>3, <1>4, <1>5, <1>6, <1>7 DEF c, o

\* An octet of zeros in front changes nothing.
LEMMA SetBytesPadded ==
    ASSUME NEW s \in Seq(Octet)
    PROVE  <<0>> \o s \in Seq(Octet) /\ SetBytes(<<0>> \o s) = SetBytes(s)
<1> DEFINE P == {t \in Seq(Octet) : SetBytes(<<0>> \o t) = SetBytes(t)}
<1>1. <<0>> \in Seq(Octet) /\ <<0>> = Append(<<>>, 0) /\ <<>> \in Seq(Octet) /\ 0 \in Octet
  BY DEF Octet
<1>2. <<>> \in P
  <2>1. <<0>> \o <<>> = <<0>>
    BY <1>1, ConcatEmptySeq
  <2> DEFINE o == <<0>>
  <2>2. o \in Seq(Octet) /\ o # <<>>
    BY <1>1
  <2>3. Len(o) = 1 /\ o[1] = 0
    OBVIOUS
  <2> HIDE DEF o
  <2>4. Leading(SetBytes(o), o[1], Power[Len(o) - 1])
    BY <2>2, FirstOctet
  <2>5. SetBytes(o) = 0
    <3>1. SetBytes(o) \in Nat
      BY <2>2, SetBytesSpec
    <3>2. Power[Len(o) - 1] = 1
      <4>1. Len(o) - 1 = 0
        BY <2>3
      <4> QED BY <4>1, PowerSpec
    <3>3. Leading(SetBytes(o), 0, 1)
      BY <2>3, <2>4, <3>2
    <3> QED BY <3>1, <3>3 DEF Leading
  <2> QED BY <1>1, <2>1, <2>5, SetBytesSpec DEF o
<1>3. ASSUME NEW t \in Seq(Octet), NEW x \in Octet, t \in P PROVE Append(t, x) \in P
  <2> DEFINE z == <<0>>
             y == z \o t
  <2>1. z \in Seq(Octet)
    BY <1>1
  <2> HIDE DEF z
  <2>2. z \o Append(t, x) = Append(y, x)
    BY <2>1, AppendProperties, ConcatProperties, AppendIsConcat, ConcatAssociative
  <2>3. y \in Seq(Octet) /\ Append(t, x) \in Seq(Octet)
    BY <2>1, ConcatProperties, AppendProperties
  <2>4. SetBytes(y) = SetBytes(t)
    BY <1>3 DEF z
  <2> HIDE DEF y
  <2>5. SetBytes(Append(y, x)) = 256 * SetBytes(y) + x
    BY <2>3, SetBytesSpec
  <2>6. SetBytes(Append(t, x)) = 256 * SetBytes(t) + x
    BY SetBytesSpec
  <2> QED BY <2>2, <2>3, <2>4, <2>5, <2>6 DEF z
<1>4. Seq(Octet) \subseteq P
  <2> HIDE DEF P
  <2> QED BY <1>2, <1>3, SeqSetInduction
<1> QED BY <1>1, <1>4, ConcatProperties

\* More octets have at least as many numbers.
LEMMA PowerMonotone ==
    ASSUME NEW m \in Nat, NEW n \in Nat, m <= n
    PROVE  Power[m] <= Power[n]
<1> DEFINE P == {d \in Nat : Power[m] <= Power[m + d]}
<1>1. 0 \in P
  BY PowerSpec
<1>2. ASSUME NEW d \in Nat, d \in P PROVE d + 1 \in P
  <2> DEFINE k == m + d
  <2>1. k \in Nat /\ m + (d + 1) = k + 1
    OBVIOUS
  <2> HIDE DEF k
  <2>2. Power[k] \in Nat /\ Power[k + 1] = 256 * Power[k] /\ Power[m] \in Nat
    BY <2>1, PowerSpec
  <2>3. Power[m] <= Power[k]
    BY <1>2 DEF k
  <2>4. Power[m] <= Power[k + 1]
    BY <2>2, <2>3
  <2> QED BY <2>1, <2>4
<1>3. Nat \subseteq P
  <2> HIDE DEF P
  <2> QED BY <1>1, <1>2, NatSetInduction
<1>4. n - m \in P /\ m + (n - m) = n
  BY <1>3
<1> QED BY <1>4

\* The first octet of a number that is not 0 is not 0.
LEMMA BytesLeading ==
    \A n \in Nat \ {0} : Bytes[n] # <<>> /\ Bytes[n][1] >= 1
<1> DEFINE P == {n \in Nat : n # 0 => Bytes[n] # <<>> /\ Bytes[n][1] >= 1}
<1>1. ASSUME NEW n \in Nat, 0..(n-1) \subseteq P PROVE n \in P
  <2> SUFFICES ASSUME n # 0 PROVE Bytes[n] # <<>> /\ Bytes[n][1] >= 1
    OBVIOUS
  <2> DEFINE q == n \div 256
             r == n % 256
  <2>1. q \in 0..(n-1) /\ q \in Nat /\ r \in Octet /\ (q = 0 => r >= 1)
    BY DEF Octet
  <2>2. Bytes[n] = Append(Bytes[q], r) /\ Bytes[q] \in Seq(Octet)
    <3>1. Bytes[n] = Append(Bytes[n \div 256], n % 256)
      BY BytesSpec
    <3> QED BY <2>1, <3>1, BytesSpec
  <2> HIDE DEF q, r
  <2>3. CASE q = 0
    <3>1. Bytes[q] = <<>>
      BY <2>3, BytesSpec
    <3>2. Append(<<>>, r) # <<>> /\ Append(<<>>, r)[1] = r
      OBVIOUS
    <3> QED BY <2>1, <2>2, <2>3, <3>1, <3>2
  <2>4. CASE q # 0
    <3>1. Bytes[q] # <<>> /\ Bytes[q][1] >= 1
      BY <1>1, <2>1, <2>4
    <3>2. Len(Bytes[q]) \in Nat /\ Len(Bytes[q]) # 0
      BY <2>2, <3>1, EmptySeq
    <3>3. 1 \in 1..Len(Bytes[q])
      BY <3>2
    <3>4. Append(Bytes[q], r) # <<>> /\ Append(Bytes[q], r)[1] = Bytes[q][1]
      BY <2>1, <2>2, <3>3, AppendProperties
    <3> QED BY <2>2, <3>1, <3>4
  <2> QED BY <2>3, <2>4
<1>2. Nat \subseteq P
  <2> HIDE DEF P
  <2> QED BY <1>1, NatSetStrongInduction
<1> QED BY <1>2

\* A number takes as many octets as it is large.
LEMMA BytesLength ==
    ASSUME NEW n \in Nat, NEW k \in Nat, Power[k] <= n, n < Power[k + 1]
    PROVE  /\ Len(Bytes[n]) = k + 1
           /\ Bytes[n][1] \in Octet
           /\ Leading(n, Bytes[n][1], Power[k])
<1> DEFINE s == Bytes[n]
           L == Len(s) - 1
           a == s[1]
<1>1. Power[k] \in Nat \ {0}
  BY PowerSpec
<1>2. s \in Seq(Octet) /\ s # <<>> /\ a >= 1 /\ SetBytes(s) = n
  <2>1. n \in Nat \ {0}
    BY <1>1
  <2>2. Bytes[n] # <<>> /\ Bytes[n][1] >= 1
    BY <2>1, BytesLeading
  <2>3. Bytes[n] \in Seq(Octet) /\ SetBytes(Bytes[n]) = n
    BY BytesSpec, SetBytesOfBytes
  <2> QED BY <2>2, <2>3
<1> HIDE DEF s
<1>3. L \in Nat /\ a \in Octet /\ Leading(n, a, Power[L])
  BY <1>2, FirstOctet
<1>4. Len(s) = L + 1
  BY <1>2, LenProperties
<1>5. a \in 1..255
  BY <1>2, <1>3 DEF Octet
<1> HIDE DEF L, a
<1>6. Power[L] \in Nat /\ Power[L + 1] = 256 * Power[L]
  BY <1>3, PowerSpec
<1>7. Power[L] <= n /\ n < Power[L + 1]
  <2> DEFINE p == Power[L]
  <2>1. a * p <= n /\ n < a * p + p
    BY <1>3 DEF Leading
  <2>2. a * p >= p /\ a * p + p <= 256 * p
    <3> HIDE DEF p
    <3>1. p \in Nat
      BY <1>6 DEF p
    <3> QED BY <1>5, <3>1
  <2>3. a * p \in Nat
    BY <1>5, <1>6
  <2> HIDE DEF p
  <2>4. p \in Nat
    BY <1>6 DEF p
  <2> QED BY <1>6, <2>1, <2>2, <2>3, <2>4 DEF p
<1>8. L = k
  <2>1. CASE L < k
    <3>1. Power[L + 1] <= Power[k]
      BY <1>3, <2>1, PowerMonotone
    <3>2. Power[L + 1] \in Nat
      BY <1>6
    <3> QED BY <1>1, <1>7, <3>1, <3>2
  <2>2. CASE k < L
    <3>1. Power[k + 1] <= Power[L] /\ Power[k + 1] \in Nat
      <4>1. k + 1 \in Nat /\ k + 1 <= L
        BY <1>3, <2>2
      <4> QED BY <1>3, <4>1, PowerMonotone, PowerSpec
    <3> QED BY <1>6, <1>7, <3>1
  <2> QED BY <1>3, <2>1, <2>2
<1> QED BY <1>3, <1>4, <1>8 DEF s, L, a

\* A sign bit fits into the octets that minimalTwosComplement takes.
LEMMA BitLenOctets ==
    \A n \in Nat : BitLen[n] \div 8 \in Nat /\ n < 128 * Power[BitLen[n] \div 8]
<1> DEFINE P == {n \in Nat : n < 128 * Power[BitLen[n] \div 8]}
<1>1. \A n \in Nat : BitLen[n] \div 8 \in Nat /\ Power[BitLen[n] \div 8] \in Nat \ {0}
  <2> TAKE n \in Nat
  <2>1. BitLen[n] \div 8 \in Nat
    BY BitLenSpec
  <2> QED BY <2>1, PowerSpec
<1>2. ASSUME NEW n \in Nat, 0..(n-1) \subseteq P PROVE n \in P
  <2>1. CASE n < 128
    BY <1>1, <2>1
  <2>2. CASE n >= 128
    <3> DEFINE m == n \div 256
    <3>1. BitLen[n] = 8 + BitLen[m]
      <4> DEFINE Halved(a, b) == a \in Nat /\ b \in Nat /\ BitLen[a] = 1 + BitLen[b]
      <4>1. ASSUME NEW a \in Nat, a >= 1 PROVE Halved(a, a \div 2)
        BY <4>1, BitLenSpec
      <4>2. Halved(n, n \div 2) /\ Halved(n \div 2, n \div 4) /\ Halved(n \div 4, n \div 8)
        <5>1. n \div 2 >= 1 /\ n \div 4 >= 1 /\ n \div 2 \in Nat /\ n \div 4 \in Nat
          BY <2>2
        <5>2. (n \div 2) \div 2 = n \div 4 /\ (n \div 4) \div 2 = n \div 8
          OBVIOUS
        <5> HIDE DEF Halved
        <5>3. Halved(n, n \div 2) /\ Halved(n \div 2, (n \div 2) \div 2) /\ Halved(n \div 4, (n \div 4) \div 2)
          BY <2>2, <4>1, <5>1
        <5> QED BY <5>2, <5>3
      <4>3. Halved(n \div 8, n \div 16) /\ Halved(n \div 16, n \div 32) /\ Halved(n \div 32, n \div 64)
        <5>1. /\ n \div 8 >= 1 /\ n \div 16 >= 1 /\ n \div 32 >= 1
              /\ n \div 8 \in Nat /\ n \div 16 \in Nat /\ n \div 32 \in Nat
          BY <2>2
        <5>2. (n \div 8) \div 2 = n \div 16 /\ (n \div 16) \div 2 = n \div 32 /\ (n \div 32) \div 2 = n \div 64
          OBVIOUS
        <5> HIDE DEF Halved
        <5>3. /\ Halved(n \div 8, (n \div 8) \div 2) /\ Halved(n \div 16, (n \div 16) \div 2)
              /\ Halved(n \div 32, (n \div 32) \div 2)
          BY <4>1, <5>1
        <5> QED BY <5>2, <5>3
      <4>4. Halved(n \div 64, n \div 128) /\ Halved(n \div 128, n \div 256)
        <5>1. n \div 64 >= 1 /\ n \div 128 >= 1 /\ n \div 64 \in Nat /\ n \div 128 \in Nat
          BY <2>2
        <5>2. (n \div 64) \div 2 = n \div 128 /\ (n \div 128) \div 2 = n \div 256
          OBVIOUS
        <5> HIDE DEF Halved
        <5>3. Halved(n \div 64, (n \div 64) \div 2) /\ Halved(n \div 128, (n \div 128) \div 2)
          BY <4>1, <5>1
        <5> QED BY <5>2, <5>3
      <4>5. BitLen[n \div 256] \in Nat
        BY BitLenSpec
      <4> QED BY <4>2, <4>3, <4>4, <4>5
    <3>2. m \in 0..(n-1) /\ m \in Nat /\ n < 256 * m + 256
      BY <2>2
    <3> DEFINE j == BitLen[m] \div 8
    <3>3. j \in Nat /\ BitLen[n] \div 8 = j + 1
      <4>1. BitLen[m] \in Nat
        BY <3>2, BitLenSpec
      <4> HIDE DEF m
      <4> QED BY <3>1, <4>1
    <3>4. m < 128 * Power[j]
      BY <1>2, <3>2
    <3>5. Power[j] \in Nat /\ Power[j + 1] = 256 * Power[j]
      BY <3>3, PowerSpec
    <3> HIDE DEF m, j
    <3>6. n < 128 * Power[j + 1]
      BY <3>2, <3>4, <3>5
    <3> QED BY <3>3, <3>6
  <2> QED BY <2>1, <2>2
<1>3. Nat \subseteq P
  <2> HIDE DEF P
  <2> QED BY <1>2, NatSetStrongInduction
<1> QED BY <1>1, <1>3

\* A negative number's octets start with the sign bit and stand for the number.
LEMMA NegativeSpec ==
    ASSUME NEW v \in Int, v < 0
    PROVE  /\ Negative(v) \in Seq(Octet) /\ Negative(v) # <<>>
           /\ Negative(v)[1] >= 128
           /\ SetBytes(Negative(v)) - Power[Len(Negative(v))] = v
<1> DEFINE n == -v
           j == BitLen[n] \div 8
           p == Power[j]
           t == Power[j + 1] + v
           s == Bytes[t]
<1>1. n \in Nat /\ n >= 1
  OBVIOUS
<1>2. j \in Nat /\ n < 128 * p
  <2> HIDE DEF n
  <2> QED BY <1>1, BitLenOctets
<1> HIDE DEF j
<1>3. p \in Nat \ {0} /\ Power[j + 1] = 256 * p
  BY <1>2, PowerSpec
<1> HIDE DEF p
<1>4. t \in Nat /\ t >= 128 * p /\ t < Power[j + 1] /\ t >= p
  BY <1>2, <1>3
<1> HIDE DEF t
<1>5. Len(s) = j + 1 /\ s[1] \in Octet /\ Leading(t, s[1], p)
  <2>1. Power[j] <= t
    BY <1>4 DEF p
  <2> QED BY <1>2, <1>4, <2>1, BytesLength DEF p
<1>6. s \in Seq(Octet) /\ SetBytes(s) = t /\ s # <<>>
  <2>1. s \in Seq(Octet) /\ SetBytes(s) = t
    BY <1>4, BytesSpec, SetBytesOfBytes
  <2> HIDE DEF s
  <2>2. s # <<>>
    <3>1. Len(s) # 0
      BY <1>2, <1>5
    <3> QED BY <3>1, EmptySeq
  <2> QED BY <2>1, <2>2
<1>7. Negative(v) = s
  <2>1. (j + 1) - Len(s) = 0
    <3> HIDE DEF s
    <3> QED BY <1>2, <1>5
  <2>2. [i \in 1..0 |-> 0] \o s = s
    <3>1. [i \in 1..0 |-> 0] = <<>>
      OBVIOUS
    <3> HIDE DEF s
    <3> QED BY <1>6, <3>1, ConcatEmptySeq
  <2>3. Negative(v) = [i \in 1..((j + 1) - Len(s)) |-> 0] \o s
    BY DEF Negative, s, t, j, n
  <2> HIDE DEF s
  <2> QED BY <2>1, <2>2, <2>3
<1>8. s[1] >= 128
  <2> DEFINE a == s[1]
  <2>1. a \in Nat /\ t < a * p + p
    BY <1>5, OctetIsNat DEF Leading
  <2> HIDE DEF a
  <2>2. a >= 128
    <3> SUFFICES ASSUME a < 128 PROVE FALSE
      BY <2>1
    <3>1. a + 1 <= 128 /\ a * p + p = (a + 1) * p
      BY <1>3, <2>1
    <3>2. (a + 1) * p <= 128 * p
      BY <1>3, <2>1, <3>1
    <3>3. a * p \in Nat
      BY <1>3, <2>1
    <3> QED BY <1>3, <1>4, <2>1, <3>1, <3>2, <3>3
  <2> QED BY <2>2 DEF a
<1>9. t - Power[j + 1] = v
  BY <1>3 DEF t
<1> HIDE DEF s
<1> QED BY <1>5, <1>6, <1>7, <1>8, <1>9

\* INTEGER contents: every number comes back, as itself.
LEMMA TwosComplementSpec ==
    ASSUME NEW v \in Int
    PROVE  TwosComplement(v) \in Seq(Octet) /\ DecodeBigInt(TwosComplement(v)) = {v}
<1>1. CASE v = 0
  <2> DEFINE o == <<0>>
  <2>1. o \in Seq(Octet) /\ o # <<>> /\ o[1] = 0 /\ o \o <<>> = o
    <3>1. 0 \in Octet
      BY DEF Octet
    <3> QED BY <3>1
  <2>2. SetBytes(o) = 0
    <3>1. <<>> \in Seq(Octet)
      OBVIOUS
    <3> QED BY <2>1, <3>1, SetBytesPadded, SetBytesSpec
  <2>3. TwosComplement(v) = o
    BY <1>1 DEF TwosComplement
  <2> HIDE DEF o
  <2> QED BY <1>1, <2>1, <2>2, <2>3 DEF DecodeBigInt, HighBit
<1>2. CASE v > 0
  <2> DEFINE s == Bytes[v]
  <2>1. v \in Nat \ {0} /\ v \in Nat
    BY <1>2
  <2>2. s \in Seq(Octet) /\ s # <<>> /\ SetBytes(s) = v
    <3>1. s # <<>>
      BY <2>1, BytesLeading
    <3>2. s \in Seq(Octet) /\ SetBytes(s) = v
      BY <2>1, BytesSpec, SetBytesOfBytes
    <3> QED BY <3>1, <3>2
  <2>3. TwosComplement(v) = IF s[1] >= 128 THEN <<0>> \o s ELSE s
    BY <1>2 DEF TwosComplement, HighBit
  <2> HIDE DEF s
  <2>4. CASE s[1] >= 128
    <3> DEFINE z == <<0>> \o s
    <3>1. z \in Seq(Octet) /\ SetBytes(z) = v
      BY <2>2, SetBytesPadded
    <3>2. z # <<>> /\ z[1] = 0
      <4>1. 0 \in Octet
        BY DEF Octet
      <4> QED BY <2>2, <4>1, ConsSpec
    <3> HIDE DEF z
    <3>3. DecodeBigInt(z) = {v}
      BY <3>1, <3>2 DEF DecodeBigInt, HighBit
    <3> QED BY <2>3, <2>4, <3>1, <3>3 DEF z
  <2>5. CASE ~ (s[1] >= 128)
    <3>1. DecodeBigInt(s) = {v}
      BY <2>2, <2>5 DEF DecodeBigInt, HighBit
    <3> QED BY <2>2, <2>3, <2>5, <3>1
  <2> QED BY <2>4, <2>5
<1>3. CASE v < 0
  <2>1. TwosComplement(v) = Negative(v)
    BY <1>3 DEF TwosComplement
  <2> DEFINE s == Negative(v)
  <2>2. /\ s \in Seq(Octet) /\ s # <<>> /\ s[1] >= 128
        /\ SetBytes(s) - Power[Len(s)] = v
    BY <1>3, NegativeSpec
  <2> HIDE DEF s
  <2>3. DecodeBigInt(s) = {v}
    BY <2>2 DEF DecodeBigInt, HighBit
  <2> QED BY <2>1, <2>2, <2>3 DEF s
<1> QED BY <1>1, <1>2, <1>3

-----------------------------------------------------------------------------
(* Parts of sequences.                                                      *)

\* A part of the front of a string is not affected by what follows.
LEMMA SubSeqOfFront ==
    ASSUME NEW S, NEW s \in Seq(S), NEW t \in Seq(S),
           NEW a \in Nat, a >= 1, NEW b \in Int, b <= Len(s)
    PROVE  SubSeq(s \o t, a, b) = SubSeq(s, a, b)
<1> DEFINE c == s \o t
<1>1. Len(s) \in Nat /\ Len(t) \in Nat
  BY LenProperties
<1>2. /\ c \in Seq(S) /\ Len(c) = Len(s) + Len(t)
      /\ \A i \in 1..(Len(s) + Len(t)) : c[i] = IF i <= Len(s) THEN s[i] ELSE t[i - Len(s)]
  BY ConcatProperties
<1> HIDE DEF c
<1>3. \A i \in a..b : c[i] = s[i] /\ s[i] \in S
  <2> TAKE i \in a..b
  <2>1. i \in 1..Len(s) /\ i \in 1..(Len(s) + Len(t)) /\ i <= Len(s)
    BY <1>1
  <2> QED BY <1>2, <2>1, ElementOfSeq
<1>4. \A i \in a..b : c[i] \in S
  BY <1>3
<1> DEFINE u == SubSeq(c, a, b)
           v == SubSeq(s, a, b)
<1>5. /\ u \in Seq(S) /\ Len(u) = IF a <= b THEN b - a + 1 ELSE 0
      /\ \A i \in 1..(b - a + 1) : u[i] = c[a + i - 1]
  BY <1>4, SubSeqProperties
<1>6. /\ v \in Seq(S) /\ Len(v) = IF a <= b THEN b - a + 1 ELSE 0
      /\ \A i \in 1..(b - a + 1) : v[i] = s[a + i - 1]
  BY <1>3, SubSeqProperties
<1> HIDE DEF u, v
<1>7. \A i \in 1..Len(u) : u[i] = v[i]
  <2> TAKE i \in 1..Len(u)
  <2>1. i \in 1..(b - a + 1) /\ a + i - 1 \in a..b
    BY <1>5
  <2> QED BY <1>3, <1>5, <1>6, <2>1
<1>8. u = v
  BY <1>5, <1>6, <1>7, SeqEqual
<1> QED BY <1>8 DEF u, v, c

\* What is behind a position is what was behind it, and then the string appended.
LEMMA SubSeqOfBack ==
    ASSUME NEW S, NEW s \in Seq(S), NEW t \in Seq(S), NEW a \in 1..(Len(s) + 1)
    PROVE  SubSeq(s \o t, a, Len(s \o t)) = SubSeq(s, a, Len(s)) \o t
<1> DEFINE c == s \o t
           n == Len(s)
           k == n - a + 1
<1>1. n \in Nat /\ Len(t) \in Nat
  BY LenProperties
<1>2. /\ c \in Seq(S) /\ Len(c) = n + Len(t)
      /\ \A i \in 1..(n + Len(t)) : c[i] = IF i <= n THEN s[i] ELSE t[i - n]
  BY ConcatProperties
<1>3. \A i \in 1..n : s[i] \in S
  BY ElementOfSeq
<1>4. \A i \in 1..Len(c) : c[i] \in S
  <2> HIDE DEF c
  <2> QED BY <1>2, ElementOfSeq
<1> HIDE DEF c, n
<1> DEFINE u == SubSeq(c, a, Len(c))
           v == SubSeq(s, a, n)
           w == v \o t
<1>5. k \in Nat /\ a \in 1..(n + 1) /\ a \in Nat
  BY <1>1 DEF n
<1>6. u \in Seq(S) /\ Len(u) = k + Len(t) /\ \A i \in 1..(k + Len(t)) : u[i] = c[a + i - 1]
  <2>1. \A i \in a..Len(c) : c[i] \in S
    BY <1>1, <1>2, <1>4, <1>5
  <2>2. /\ u \in Seq(S) /\ Len(u) = IF a <= Len(c) THEN Len(c) - a + 1 ELSE 0
        /\ \A i \in 1..(Len(c) - a + 1) : u[i] = c[a + i - 1]
    <3>1. Len(c) \in Int /\ a \in Int
      BY <1>1, <1>2, <1>5
    <3> HIDE DEF u
    <3> QED BY <2>1, <3>1, SubSeqProperties DEF u
  <2> HIDE DEF u
  <2> QED BY <1>1, <1>2, <1>5, <2>2
<1>7. v \in Seq(S) /\ Len(v) = k /\ \A i \in 1..k : v[i] = s[a + i - 1]
  <2>1. \A i \in a..n : s[i] \in S
    BY <1>1, <1>3, <1>5
  <2>2. /\ v \in Seq(S) /\ Len(v) = IF a <= n THEN n - a + 1 ELSE 0
        /\ \A i \in 1..(n - a + 1) : v[i] = s[a + i - 1]
    <3>1. n \in Int /\ a \in Int
      BY <1>1, <1>5
    <3> HIDE DEF v
    <3> QED BY <2>1, <3>1, SubSeqProperties DEF v
  <2> HIDE DEF v
  <2> QED BY <1>1, <1>5, <2>2
<1> HIDE DEF u, v
<1>8. /\ w \in Seq(S) /\ Len(w) = k + Len(t)
      /\ \A i \in 1..(k + Len(t)) : w[i] = IF i <= k THEN v[i] ELSE t[i - k]
  <2>1. /\ w \in Seq(S) /\ Len(w) = Len(v) + Len(t)
        /\ \A i \in 1..(Len(v) + Len(t)) : w[i] = IF i <= Len(v) THEN v[i] ELSE t[i - Len(v)]
    BY <1>7, ConcatProperties
  <2> HIDE DEF w, k
  <2> QED BY <1>7, <2>1
<1> HIDE DEF w
<1>9. \A i \in 1..Len(u) : u[i] = w[i]
  <2> TAKE i \in 1..Len(u)
  <2>1. i \in 1..(k + Len(t)) /\ a + i - 1 \in 1..(n + Len(t))
    BY <1>1, <1>5, <1>6
  <2>2. u[i] = c[a + i - 1]
    BY <1>6, <2>1
  <2>3. CASE i <= k
    <3>1. i \in 1..k /\ a + i - 1 <= n
      BY <1>1, <1>5, <2>1, <2>3
    <3> QED BY <1>2, <1>7, <1>8, <2>1, <2>2, <2>3, <3>1
  <2>4. CASE ~ (i <= k)
    <3>1. ~ (a + i - 1 <= n) /\ (a + i - 1) - n = i - k
      BY <1>1, <1>5, <2>1, <2>4
    <3> QED BY <1>2, <1>8, <2>1, <2>2, <2>4, <3>1
  <2> QED BY <2>3, <2>4
<1>10. u = w
  <2> HIDE DEF k
  <2> QED BY <1>6, <1>8, <1>9, SeqEqual
<1> QED BY <1>10 DEF u, v, w, c, n

\* The last n octets.
Lasts(d, n) == SubSeq(d, Len(d) - n + 1, Len(d))

\* The last n octets of a string.
LEMMA LastsSpec ==
    ASSUME NEW S, NEW d \in Seq(S), NEW n \in 0..Len(d)
    PROVE  /\ Lasts(d, n) \in Seq(S) /\ Len(Lasts(d, n)) = n
           /\ \A i \in 1..n : Lasts(d, n)[i] = d[Len(d) - n + i]
<1> DEFINE a == Len(d) - n + 1
           b == Len(d)
           u == SubSeq(d, a, b)
<1>1. b \in Nat /\ n \in Nat /\ n <= b /\ a \in Int /\ b \in Int
  BY LenProperties
<1>2. \A i \in a..b : d[i] \in S
  <2> TAKE i \in a..b
  <2>1. i \in 1..Len(d)
    BY <1>1
  <2> QED BY <2>1, ElementOfSeq
<1> HIDE DEF a, b
<1>3. /\ u \in Seq(S) /\ Len(u) = IF a <= b THEN b - a + 1 ELSE 0
      /\ \A i \in 1..(b - a + 1) : u[i] = d[a + i - 1]
  BY <1>1, <1>2, SubSeqProperties
<1>4. Lasts(d, n) = u
  BY DEF Lasts, a, b
<1> HIDE DEF u
<1>5. b - a + 1 = n /\ Len(u) = n
  BY <1>1, <1>3 DEF a, b
<1>6. ASSUME NEW i \in 1..n PROVE u[i] = d[Len(d) - n + i]
  <2>1. i \in 1..(b - a + 1) /\ a + i - 1 = Len(d) - n + i
    BY <1>1, <1>5 DEF a, b
  <2> QED BY <1>3, <2>1
<1> QED BY <1>3, <1>4, <1>5, <1>6

\* The last octets of the last octets are the last octets.
LEMMA LastsOfLasts ==
    ASSUME NEW S, NEW d \in Seq(S), NEW m \in 0..Len(d), NEW n \in 0..m
    PROVE  Lasts(Lasts(d, m), n) = Lasts(d, n)
<1> DEFINE e == Lasts(d, m)
           u == Lasts(e, n)
           v == Lasts(d, n)
<1>1. Len(d) \in Nat /\ n \in 0..Len(d) /\ m \in Nat /\ n \in Nat
  BY LenProperties
<1>2. e \in Seq(S) /\ Len(e) = m /\ \A i \in 1..m : e[i] = d[Len(d) - m + i]
  BY LastsSpec
<1>3. v \in Seq(S) /\ Len(v) = n /\ \A i \in 1..n : v[i] = d[Len(d) - n + i]
  BY <1>1, LastsSpec
<1> HIDE DEF e, v
<1>4. u \in Seq(S) /\ Len(u) = n /\ \A i \in 1..n : u[i] = e[m - n + i]
  <2>1. n \in 0..Len(e)
    BY <1>2
  <2> QED BY <1>2, <2>1, LastsSpec
<1> HIDE DEF u
<1>5. \A i \in 1..n : u[i] = v[i]
  <2> TAKE i \in 1..n
  <2>1. m - n + i \in 1..m /\ Len(d) - m + (m - n + i) = Len(d) - n + i
    BY <1>1
  <2> QED BY <1>2, <1>3, <1>4, <2>1
<1>6. u = v
  BY <1>3, <1>4, <1>5, SeqEqual
<1> QED BY <1>6 DEF u, v, e

-----------------------------------------------------------------------------
(* Reading one element.                                                     *)

\* An int counts the octets.
Short(d) == Len(d) <= MaxLong

\* Up to MaxLong an int is the number that it was computed from.
LEMMA WrappedSpec ==
    /\ MaxLong \in Nat /\ 127 <= MaxLong
    /\ \A n \in Int : Wrapped(n) \in Int /\ Wrapped(n) <= MaxLong
    /\ \A n \in 0..MaxLong : Wrapped(n) = n
<1> DEFINE p == Power[LongOctets]
           q == Power[LongOctets - 1]
           h == MaxLong + 1
<1>1. q \in Nat \ {0} /\ p = 256 * q
  <2>1. LongOctets - 1 \in Nat /\ (LongOctets - 1) + 1 = LongOctets
    BY WidthAssumption
  <2> QED BY <2>1, PowerSpec
<1>2. MaxLong = p \div 2 - 1
  BY DEF MaxLong
<1> HIDE DEF p, q
<1>3. p \div 2 = 128 * q /\ 128 * q >= 128 /\ 128 * q \in Nat
  BY <1>1
<1>4. h \in Nat /\ h >= 128 /\ p = 2 * h /\ p \in Nat
  BY <1>1, <1>2, <1>3
<1>5. MaxLong \in Nat /\ 127 <= MaxLong
  BY <1>2, <1>3
<1>6. \A n : Wrapped(n) = ((n + MaxLong + 1) % p) - h
  BY DEF Wrapped, p
<1>7. ASSUME NEW n \in Int PROVE Wrapped(n) \in Int /\ Wrapped(n) <= MaxLong
  <2> DEFINE x == n + MaxLong + 1
             r == x % p
  <2>1. x \in Int
    BY <1>5
  <2> HIDE DEF x
  <2>2. r \in Int /\ r < p
    BY <1>4, <2>1
  <2>3. Wrapped(n) = r - h
    BY <1>6 DEF x
  <2> HIDE DEF r
  <2>4. r - h \in Int /\ r - h < h
    BY <1>4, <2>2
  <2> QED BY <1>4, <1>5, <2>3, <2>4
<1>8. ASSUME NEW n \in 0..MaxLong PROVE Wrapped(n) = n
  <2> DEFINE x == n + MaxLong + 1
  <2>1. x = n + h /\ x \in 0..(p - 1)
    BY <1>4, <1>5
  <2>2. Wrapped(n) = (x % p) - h
    BY <1>6
  <2> HIDE DEF x
  <2>3. x % p = x
    BY <1>4, <2>1
  <2> HIDE DEF h
  <2> QED BY <1>4, <2>1, <2>2, <2>3
<1> QED BY <1>5, <1>7, <1>8

WireElements == [class : Nat, tag : Nat, content : {c \in Seq(Nat) : Short(c)}, rest : Seq(Nat)]

\* Where the content starts and how long it is, as far as an int can tell.
HeaderLen(d) == IF d[2] < 128 THEN 2 ELSE 2 + d[2] - 128
ContentLen(d) == IF d[2] < 128 THEN d[2] ELSE Wrapped(SetBytes(SubSeq(d, 3, HeaderLen(d))))

\* An element is there, and all of it.
Complete(d) ==
    /\ Len(d) >= 2 /\ d[1] % 32 # 31
    /\ d[2] < 128 \/ HeaderLen(d) # 2
    /\ Len(d) >= HeaderLen(d)
    /\ Len(d) - HeaderLen(d) >= ContentLen(d)
    /\ ContentLen(d) >= 0

FirstElement(d) ==
    [class   |-> d[1] \div 64,
     tag     |-> d[1] % 32,
     content |-> SubSeq(d, HeaderLen(d) + 1, HeaderLen(d) + ContentLen(d)),
     rest    |-> SubSeq(d, HeaderLen(d) + ContentLen(d) + 1, Len(d))]

\* readTLV returns the first element if it is complete, else an error.
LEMMA ReadTLVCases ==
    ASSUME NEW d \in Seq(Nat)
    PROVE  /\ Complete(d) => ReadTLV(d) = {FirstElement(d)}
           /\ ~ Complete(d) => ReadTLV(d) = {}
<1> DEFINE short == d[2] < 128
           header == HeaderLen(d)
           length == ContentLen(d)
           Refused == \/ Len(d) < 2
                      \/ d[1] % 32 = 31
                      \/ ~ short /\ header = 2
                      \/ Len(d) < header
                      \/ Len(d) - header < length
                      \/ length < 0
<1>1. ReadTLV(d) = IF Refused THEN {} ELSE {FirstElement(d)}
  BY DEF ReadTLV, HighBit, HeaderLen, ContentLen, FirstElement
<1>2. Len(d) \in Nat
  BY LenProperties
<1>3. ASSUME Len(d) >= 2
      PROVE  header \in Nat /\ (Len(d) >= header => length \in Int)
  <2>1. d[2] \in Nat
    BY <1>2, <1>3, ElementOfSeq
  <2>2. header \in Nat /\ header >= 2
    BY <2>1 DEF HeaderLen
  <2>3. ASSUME Len(d) >= header PROVE length \in Int
    <3>1. \A i \in 3..header : d[i] \in Nat
      BY <1>2, <2>2, <2>3, ElementOfSeq
    <3>2. SubSeq(d, 3, header) \in Seq(Nat)
      <4> HIDE DEF header
      <4> QED BY <2>2, <3>1, SubSeqProperties
    <3> DEFINE n == SetBytes(SubSeq(d, 3, header))
    <3>3. n \in Nat
      BY <3>2, SetBytesSpec
    <3>4. length = IF d[2] < 128 THEN d[2] ELSE Wrapped(n)
      BY DEF ContentLen
    <3> HIDE DEF header, length, n
    <3>5. n \in Int
      BY <3>3
    <3>6. Wrapped(n) \in Int
      BY <3>5, WrappedSpec
    <3> QED BY <2>1, <3>4, <3>6
  <2> QED BY <2>2, <2>3
<1>4. Refused <=> ~ Complete(d)
  <2> HIDE DEF header, length
  <2>1. CASE Len(d) < 2
    BY <1>2, <2>1 DEF Complete
  <2>2. CASE Len(d) >= 2 /\ Len(d) < header
    BY <1>2, <1>3, <2>2 DEF Complete, header
  <2>3. CASE Len(d) >= 2 /\ Len(d) >= header
    BY <1>2, <1>3, <2>3 DEF Complete, header, length
  <2> QED BY <1>2, <1>3, <2>1, <2>2, <2>3
<1> HIDE DEF Refused
<1> QED BY <1>1, <1>4

\* What is known of the parts of an element.
LEMMA CompleteSpec ==
    ASSUME NEW d \in Seq(Nat), Complete(d)
    PROVE  /\ Len(d) \in Nat /\ Len(d) >= 2 /\ d[1] \in Nat /\ d[2] \in Nat
           /\ HeaderLen(d) \in Nat /\ HeaderLen(d) >= 2
           /\ ContentLen(d) \in Nat
           /\ HeaderLen(d) + ContentLen(d) <= Len(d)
           /\ FirstElement(d) \in WireElements
           /\ Len(FirstElement(d).rest) = Len(d) - HeaderLen(d) - ContentLen(d)
           /\ FirstElement(d).rest = Lasts(d, Len(d) - HeaderLen(d) - ContentLen(d))
<1> DEFINE h == HeaderLen(d)
           c == ContentLen(d)
<1>1. Len(d) \in Nat /\ Len(d) >= 2 /\ Len(d) >= h /\ Len(d) - h >= c /\ c >= 0
  BY LenProperties DEF Complete
<1>2. d[1] \in Nat /\ d[2] \in Nat
  <2>1. 1 \in 1..Len(d) /\ 2 \in 1..Len(d)
    BY <1>1
  <2> QED BY <2>1, ElementOfSeq
<1>3. h \in Nat /\ h >= 2
  BY <1>2 DEF HeaderLen
<1>4. c \in Nat /\ c <= MaxLong
  <2>1. \A i \in 3..h : d[i] \in Nat
    <3> HIDE DEF h
    <3> QED BY <1>1, <1>3, ElementOfSeq
  <2>2. SubSeq(d, 3, h) \in Seq(Nat)
    <3> HIDE DEF h
    <3> QED BY <1>3, <2>1, SubSeqProperties
  <2> DEFINE n == SetBytes(SubSeq(d, 3, h))
  <2>3. n \in Nat
    BY <2>2, SetBytesSpec
  <2>4. c = IF d[2] < 128 THEN d[2] ELSE Wrapped(n)
    BY DEF ContentLen
  <2> HIDE DEF h, c, n
  <2>5. n \in Int
    BY <2>3
  <2>6. Wrapped(n) \in Int /\ Wrapped(n) <= MaxLong /\ MaxLong \in Nat /\ 127 <= MaxLong
    BY <2>5, WrappedSpec
  <2> QED BY <1>1, <1>2, <2>4, <2>6
<1> HIDE DEF h, c
<1>5. h + c <= Len(d)
  BY <1>1, <1>3, <1>4
<1> DEFINE n == Len(d) - h - c
<1>6. n \in 0..Len(d) /\ h + c + 1 = Len(d) - n + 1
  BY <1>1, <1>3, <1>4, <1>5
<1>7. SubSeq(d, h + c + 1, Len(d)) = Lasts(d, n)
  BY <1>6 DEF Lasts
<1>8. Lasts(d, n) \in Seq(Nat) /\ Len(Lasts(d, n)) = n
  <2> HIDE DEF n
  <2> QED BY <1>6, LastsSpec
<1>9. SubSeq(d, h + 1, h + c) \in Seq(Nat) /\ Len(SubSeq(d, h + 1, h + c)) = c
  <2>1. \A i \in (h + 1)..(h + c) : d[i] \in Nat
    BY <1>1, <1>3, <1>4, <1>5, ElementOfSeq
  <2> DEFINE a == h + 1
             b == h + c
             u == SubSeq(d, a, b)
  <2>2. a \in Int /\ b \in Int /\ b - a + 1 = c /\ (c = 0 => b < a) /\ (c > 0 => a <= b) /\ \A i \in a..b : d[i] \in Nat
    BY <1>3, <1>4, <2>1
  <2> HIDE DEF a, b
  <2>3. u \in Seq(Nat) /\ Len(u) = IF a <= b THEN b - a + 1 ELSE 0
    BY <2>2, SubSeqProperties
  <2> HIDE DEF u
  <2>4. u \in Seq(Nat) /\ Len(u) = c
    BY <1>4, <2>2, <2>3
  <2> QED BY <2>4 DEF u, a, b
<1>10. d[1] \div 64 \in Nat /\ d[1] % 32 \in Nat
  BY <1>2
<1>11. FirstElement(d) = [class |-> d[1] \div 64, tag |-> d[1] % 32,
                          content |-> SubSeq(d, h + 1, h + c),
                          rest |-> Lasts(d, n)]
  BY <1>7 DEF FirstElement, h, c
<1> DEFINE cl == d[1] \div 64
           tg == d[1] % 32
           co == SubSeq(d, h + 1, h + c)
           re == Lasts(d, n)
<1> HIDE DEF n
<1>12. FirstElement(d) \in WireElements /\ FirstElement(d).rest = re
  <2> HIDE DEF cl, tg, co, re
  <2>1. FirstElement(d) = [class |-> cl, tag |-> tg, content |-> co, rest |-> re]
    BY <1>11 DEF cl, tg, co, re
  <2>2. cl \in Nat /\ tg \in Nat /\ co \in Seq(Nat) /\ Short(co) /\ re \in Seq(Nat)
    BY <1>4, <1>8, <1>9, <1>10 DEF cl, tg, co, re, Short
  <2> QED BY <2>1, <2>2 DEF WireElements
<1> QED BY <1>1, <1>2, <1>3, <1>4, <1>5, <1>8, <1>12 DEF h, c, n

\* Octets after an element are left for the next one.
LEMMA ReadTLVExtended ==
    ASSUME NEW d \in Seq(Nat), NEW e \in Seq(Nat), Complete(d)
    PROVE  /\ d \o e \in Seq(Nat)
           /\ ReadTLV(d \o e) = {[class |-> FirstElement(d).class, tag |-> FirstElement(d).tag,
                                  content |-> FirstElement(d).content,
                                  rest |-> FirstElement(d).rest \o e]}
<1> DEFINE w == d \o e
           h == HeaderLen(d)
           c == ContentLen(d)
<1>1. /\ Len(d) \in Nat /\ Len(d) >= 2 /\ d[1] \in Nat /\ d[2] \in Nat
      /\ h \in Nat /\ h >= 2 /\ c \in Nat /\ h + c <= Len(d)
  BY CompleteSpec
<1>2. Len(e) \in Nat
  BY LenProperties
<1>3. /\ w \in Seq(Nat) /\ Len(w) = Len(d) + Len(e)
      /\ w[1] = d[1] /\ w[2] = d[2]
  <2>1. /\ w \in Seq(Nat) /\ Len(w) = Len(d) + Len(e)
        /\ \A i \in 1..(Len(d) + Len(e)) : w[i] = IF i <= Len(d) THEN d[i] ELSE e[i - Len(d)]
    BY ConcatProperties
  <2>2. 1 \in 1..(Len(d) + Len(e)) /\ 2 \in 1..(Len(d) + Len(e)) /\ 1 <= Len(d) /\ 2 <= Len(d)
    BY <1>1, <1>2
  <2> HIDE DEF w
  <2> QED BY <2>1, <2>2
<1>4. HeaderLen(w) = h
  <2> HIDE DEF w
  <2> QED BY <1>3 DEF HeaderLen
<1>5. ContentLen(w) = c
  <2>1. SubSeq(w, 3, h) = SubSeq(d, 3, h)
    <3> HIDE DEF h
    <3>1. h \in Int /\ h <= Len(d) /\ 3 \in Nat /\ 3 >= 1
      BY <1>1
    <3> QED BY <3>1, SubSeqOfFront
  <2> HIDE DEF w
  <2> QED BY <1>3, <1>4, <2>1 DEF ContentLen
<1> HIDE DEF h, c
<1>6. Complete(w)
  <2> HIDE DEF w
  <2>1. d[1] % 32 # 31 /\ (d[2] < 128 \/ h # 2)
    BY DEF Complete, h
  <2>2. w[1] % 32 # 31 /\ (w[2] < 128 \/ HeaderLen(w) # 2)
    BY <1>3, <1>4, <2>1
  <2>3. Len(w) >= 2 /\ Len(w) >= h /\ Len(w) - h >= c
    <3> DEFINE lw == Len(w)
               ld == Len(d)
               le == Len(e)
    <3>1. ld \in Nat /\ ld >= 2 /\ h \in Nat /\ c \in Nat /\ h + c <= ld /\ le \in Nat
      BY <1>1, <1>2
    <3>2. lw = ld + le
      BY <1>3
    <3> HIDE DEF lw, ld, le
    <3>3. lw >= 2 /\ lw >= h /\ lw - h >= c
      BY <3>1, <3>2
    <3> QED BY <3>3 DEF lw
  <2>4. c >= 0
    BY <1>1
  <2> QED BY <1>4, <1>5, <2>2, <2>3, <2>4 DEF Complete
<1>7. SubSeq(w, h + 1, h + c) = SubSeq(d, h + 1, h + c)
  <2>1. h + 1 \in Nat /\ h + 1 >= 1 /\ h + c \in Int /\ h + c <= Len(d)
    BY <1>1
  <2> QED BY <2>1, SubSeqOfFront
<1>8. SubSeq(w, h + c + 1, Len(w)) = SubSeq(d, h + c + 1, Len(d)) \o e
  <2>1. h + c + 1 \in 1..(Len(d) + 1)
    BY <1>1
  <2> QED BY <2>1, SubSeqOfBack
<1>9. FirstElement(w) = [class |-> d[1] \div 64, tag |-> d[1] % 32,
                         content |-> SubSeq(d, h + 1, h + c),
                         rest |-> SubSeq(d, h + c + 1, Len(d)) \o e]
  <2> HIDE DEF w
  <2> QED BY <1>3, <1>4, <1>5, <1>7, <1>8 DEF FirstElement, w
<1>10. /\ FirstElement(d).class = d[1] \div 64 /\ FirstElement(d).tag = d[1] % 32
       /\ FirstElement(d).content = SubSeq(d, h + 1, h + c)
       /\ FirstElement(d).rest = SubSeq(d, h + c + 1, Len(d))
  BY DEF FirstElement, h, c
<1>11. ReadTLV(w) = {FirstElement(w)}
  BY <1>3, <1>6, ReadTLVCases
<1> QED BY <1>3, <1>9, <1>10, <1>11

\* What is behind the front of a concatenation is its second string.
LEMMA SubSeqBehind ==
    ASSUME NEW S, NEW s \in Seq(S), NEW t \in Seq(S)
    PROVE  SubSeq(s \o t, Len(s) + 1, Len(s) + Len(t)) = t
<1>1. Len(s) \in Nat /\ Len(t) \in Nat /\ Len(s \o t) = Len(s) + Len(t)
  BY LenProperties, ConcatProperties
<1>2. Len(s) + 1 \in 1..(Len(s) + 1)
  BY <1>1
<1>3. SubSeq(s \o t, Len(s) + 1, Len(s \o t)) = SubSeq(s, Len(s) + 1, Len(s)) \o t
  BY <1>2, SubSeqOfBack
<1>4. SubSeq(s, Len(s) + 1, Len(s)) = <<>>
  <2> DEFINE n == Len(s)
             m == n + 1
  <2>1. n \in Int /\ m \in Int /\ n < m
    BY <1>1
  <2> HIDE DEF n, m
  <2>2. SubSeq(s, m, n) = <<>>
    BY <2>1, SubSeqEmpty
  <2> QED BY <2>2 DEF n, m
<1> QED BY <1>1, <1>3, <1>4, ConcatEmptySeq

\* The length is written in one octet, or in as many as the first one says.
LEMMA LengthOctetsSpec ==
    ASSUME NEW n \in Nat
    PROVE  /\ LengthOctets(n) \in Seq(Nat)
           /\ n < 128 => LengthOctets(n) = <<n>>
           /\ n >= 128 => /\ LengthOctets(n) = <<128 + Len(Bytes[n])>> \o Bytes[n]
                          /\ Bytes[n] \in Seq(Nat) /\ SetBytes(Bytes[n]) = n
                          /\ Len(Bytes[n]) \in Nat \ {0}
<1>1. CASE n < 128
  BY <1>1 DEF LengthOctets, HighBit
<1>2. CASE n >= 128
  <2> DEFINE s == Bytes[n]
  <2>1. n \in Nat \ {0}
    BY <1>2
  <2>2. s \in Seq(Octet) /\ SetBytes(s) = n
    BY BytesSpec, SetBytesOfBytes
  <2>3. s # <<>>
    BY <2>1, BytesLeading
  <2>4. LengthOctets(n) = <<128 + Len(s)>> \o s
    BY <1>2 DEF LengthOctets, HighBit
  <2> HIDE DEF s
  <2>5. s \in Seq(Nat) /\ Len(s) \in Nat \ {0}
    BY <2>2, <2>3, OctetsAreNumbers, EmptySeq
  <2>6. <<128 + Len(s)>> \o s \in Seq(Nat)
    <3> DEFINE x == 128 + Len(s)
    <3>1. x \in Nat
      BY <2>5
    <3> HIDE DEF x
    <3> QED BY <2>5, <3>1, ConsSpec
  <2> QED BY <1>2, <2>2, <2>4, <2>5, <2>6 DEF s
<1> QED BY <1>1, <1>2

\* The string behind two single octets.
LEMMA BehindTwo ==
    ASSUME NEW S, NEW h \in S, NEW x \in S, NEW b \in Seq(S)
    PROVE  SubSeq(<<h>> \o (<<x>> \o b), 3, 2 + Len(b)) = b
<1> DEFINE o == <<h>>
           y == <<x>>
           q == o \o y
<1>1. o \in Seq(S) /\ y \in Seq(S) /\ Len(o) = 1 /\ Len(y) = 1
  OBVIOUS
<1> HIDE DEF o, y
<1>2. q \o b = o \o (y \o b)
  BY <1>1, ConcatAssociative
<1>3. q \in Seq(S) /\ Len(q) = Len(o) + Len(y)
  BY <1>1, ConcatProperties
<1> HIDE DEF q
<1>4. SubSeq(q \o b, Len(q) + 1, Len(q) + Len(b)) = b
  BY <1>3, SubSeqBehind
<1>5. Len(q) = 2
  BY <1>1, <1>3
<1> QED BY <1>2, <1>4, <1>5 DEF o, y

\* What TLV writes is longer than the content.
LEMMA TLVLength ==
    ASSUME NEW class \in 0..3, NEW form \in {0, 32}, NEW tag \in 0..30,
           NEW content \in Seq(Nat)
    PROVE  /\ TLV(class, form, tag, content) \in Seq(Nat)
           /\ Short(TLV(class, form, tag, content)) => Short(content)
<1> DEFINE h == 64 * class + form + tag
           n == Len(content)
           l == LengthOctets(n)
           p == <<h>> \o l
           d == p \o content
<1>1. h \in Nat /\ n \in Nat /\ l \in Seq(Nat)
  <2>1. h \in Nat
    OBVIOUS
  <2>2. n \in Nat
    BY LenProperties
  <2> HIDE DEF n
  <2> QED BY <2>1, <2>2, LengthOctetsSpec
<1>2. TLV(class, form, tag, content) = d
  BY DEF TLV
<1> HIDE DEF h, l
<1>3. p \in Seq(Nat) /\ Len(p) \in Nat
  BY <1>1, ConsSpec, LenProperties
<1> HIDE DEF p
<1>4. d \in Seq(Nat) /\ Len(d) = Len(p) + n
  BY <1>3, ConcatProperties
<1> HIDE DEF d, n
<1>5. Len(d) <= MaxLong => n <= MaxLong
  BY <1>1, <1>3, <1>4, WrappedSpec
<1> QED BY <1>2, <1>4, <1>5 DEF Short, n

\* What TLV writes of a content that an int can count is one whole element.
LEMMA TLVSpec ==
    ASSUME NEW class \in 0..3, NEW form \in {0, 32}, NEW tag \in 0..30,
           NEW content \in Seq(Nat), Short(content)
    PROVE  /\ TLV(class, form, tag, content) \in Seq(Nat)
           /\ Complete(TLV(class, form, tag, content))
           /\ FirstElement(TLV(class, form, tag, content))
                = [class |-> class, tag |-> tag, content |-> content, rest |-> <<>>]
<1> DEFINE h == 64 * class + form + tag
           n == Len(content)
           l == LengthOctets(n)
           p == <<h>> \o l
           d == p \o content
<1>1. h \in Nat /\ h \div 64 = class /\ h % 32 = tag /\ tag # 31 /\ n \in Nat
  BY LenProperties
<1>2. TLV(class, form, tag, content) = d
  BY DEF TLV
<1> HIDE DEF h, n
<1>3. l \in Seq(Nat)
  BY <1>1, LengthOctetsSpec
<1> HIDE DEF l
<1>4. /\ p \in Seq(Nat) /\ Len(p) = 1 + Len(l) /\ p[1] = h
      /\ \A i \in 1..Len(l) : p[i + 1] = l[i]
  BY <1>1, <1>3, ConsSpec
<1> HIDE DEF p
\* The length octets, as readTLV takes them apart.
<1>5. /\ p[2] \in Nat /\ Len(p) \in Nat /\ Len(p) >= 2
      /\ HeaderLen(p) = Len(p)
      /\ ContentLen(p) = n
      /\ p[2] < 128 \/ Len(p) > 2
  <2>1. CASE n < 128
    <3>1. l = <<n>>
      BY <1>1, <2>1, LengthOctetsSpec DEF l
    <3>2. Len(l) = 1 /\ l[1] = n
      BY <3>1
    <3>3. p[2] = n /\ Len(p) = 2
      <4>1. 1 \in 1..Len(l)
        BY <3>2
      <4> QED BY <1>4, <3>2, <4>1
    <3> QED BY <1>1, <2>1, <3>3 DEF HeaderLen, ContentLen
  <2>2. CASE n >= 128
    <3> DEFINE b == Bytes[n]
               k == Len(b)
               x == 128 + k
    <3>1. l = <<x>> \o b /\ b \in Seq(Nat) /\ SetBytes(b) = n /\ k \in Nat \ {0}
      BY <1>1, <2>2, LengthOctetsSpec DEF l
    <3>2. x \in Nat /\ k = Len(b)
      BY <3>1
    <3> HIDE DEF b, k, x
    <3>3. Len(l) = 1 + k /\ l[1] = x
      BY <3>1, <3>2, ConsSpec
    <3>4. p[2] = x /\ Len(p) = 2 + k
      <4>1. 1 \in 1..Len(l) /\ 1 + 1 = 2
        BY <3>1, <3>3
      <4>2. p[1 + 1] = l[1]
        BY <1>4, <4>1
      <4> QED BY <1>4, <3>1, <3>3, <4>1, <4>2
    <3>5. ~ (p[2] < 128) /\ HeaderLen(p) = 2 + k
      BY <3>1, <3>4 DEF HeaderLen, x
    <3>6. SubSeq(p, 3, 2 + k) = b
      <4>1. p = <<h>> \o (<<x>> \o b)
        BY <3>1 DEF p
      <4> QED BY <1>1, <3>1, <3>2, <4>1, BehindTwo
    <3>7. ContentLen(p) = n
      <4>1. ContentLen(p) = Wrapped(SetBytes(b))
        BY <3>5, <3>6 DEF ContentLen
      <4>2. n \in 0..MaxLong
        BY <1>1, WrappedSpec DEF Short, n
      <4> QED BY <3>1, <4>1, <4>2, WrappedSpec
    <3> QED BY <3>1, <3>2, <3>4, <3>5, <3>7
  <2> QED BY <1>1, <2>1, <2>2
<1>6. /\ d \in Seq(Nat) /\ Len(d) = Len(p) + n /\ d[1] = p[1] /\ d[2] = p[2]
  <2>1. /\ d \in Seq(Nat) /\ Len(d) = Len(p) + Len(content)
        /\ \A i \in 1..(Len(p) + Len(content)) : d[i] = IF i <= Len(p) THEN p[i] ELSE content[i - Len(p)]
    <3>1. p \in Seq(Nat)
      BY <1>4
    <3> QED BY <3>1, ConcatProperties
  <2>2. 1 \in 1..(Len(p) + n) /\ 2 \in 1..(Len(p) + n) /\ 1 <= Len(p) /\ 2 <= Len(p)
    BY <1>1, <1>5
  <2> HIDE DEF d
  <2> QED BY <2>1, <2>2 DEF n
<1>7. HeaderLen(d) = Len(p)
  <2> HIDE DEF d
  <2> QED BY <1>5, <1>6 DEF HeaderLen
<1>8. ContentLen(d) = n
  <2>1. SubSeq(d, 3, Len(p)) = SubSeq(p, 3, Len(p))
    <3>1. Len(p) \in Int /\ Len(p) <= Len(p) /\ 3 \in Nat /\ 3 >= 1
      BY <1>5
    <3> QED BY <1>4, <3>1, SubSeqOfFront
  <2> HIDE DEF d
  <2> QED BY <1>5, <1>6, <1>7, <2>1 DEF ContentLen
<1>9. SubSeq(d, Len(p) + 1, Len(p) + n) = content
  BY <1>4, SubSeqBehind DEF n
<1>10. SubSeq(d, Len(p) + n + 1, Len(d)) = <<>>
  <2> DEFINE a == Len(p) + n + 1
             b == Len(d)
  <2>1. a \in Int /\ b \in Int /\ b < a
    <3> HIDE DEF d
    <3> QED BY <1>1, <1>5, <1>6
  <2> HIDE DEF a, b, d
  <2>2. SubSeq(d, a, b) = <<>>
    BY <2>1, SubSeqEmpty
  <2> QED BY <2>2 DEF a, b
<1> HIDE DEF d
<1>11. Complete(d)
  <2>1. Len(d) >= 2 /\ Len(d) >= Len(p) /\ Len(d) - Len(p) >= n
    BY <1>1, <1>5, <1>6
  <2>2. d[1] % 32 # 31
    BY <1>1, <1>4, <1>6
  <2>3. d[2] < 128 \/ Len(p) # 2
    BY <1>5, <1>6
  <2>4. n >= 0
    BY <1>1
  <2> QED BY <1>7, <1>8, <2>1, <2>2, <2>3, <2>4 DEF Complete
<1>12. FirstElement(d) = [class |-> class, tag |-> tag, content |-> content, rest |-> <<>>]
  <2>1. d[1] \div 64 = class /\ d[1] % 32 = tag
    BY <1>1, <1>4, <1>6
  <2> QED BY <1>7, <1>8, <1>9, <1>10, <2>1 DEF FirstElement
<1> QED BY <1>2, <1>6, <1>11, <1>12

-----------------------------------------------------------------------------
(* Reading all elements.                                                    *)

\* The elements of an octet string whose first element's rest gives X.
Sequels(d, X) == IF Complete(d) THEN {<<FirstElement(d)>> \o ts : ts \in X} ELSE {}

\* How many octets are left behind the first element.
LeftOver(d) == IF Complete(d) THEN Len(FirstElement(d).rest) ELSE 0

Reading(f, d) ==
    /\ f[0] = {<<>>}
    /\ \A n \in 1..Len(d) : f[n] = Sequels(Lasts(d, n), f[LeftOver(Lasts(d, n))])

\* readTLV leaves fewer octets than it was given: the loop of readAll ends.
LEMMA LeftOverSpec ==
    ASSUME NEW d \in Seq(Nat), NEW n \in 1..Len(d)
    PROVE  /\ Lasts(d, n) \in Seq(Nat)
           /\ LeftOver(Lasts(d, n)) \in 0..(n - 1)
           /\ Complete(Lasts(d, n)) => FirstElement(Lasts(d, n)) \in WireElements
<1> DEFINE e == Lasts(d, n)
<1>1. n \in 0..Len(d) /\ n \in Nat /\ n >= 1
  BY LenProperties
<1>2. e \in Seq(Nat) /\ Len(e) = n
  BY <1>1, LastsSpec
<1> HIDE DEF e
<1>3. CASE Complete(e)
  <2>1. /\ HeaderLen(e) \in Nat /\ HeaderLen(e) >= 2 /\ ContentLen(e) \in Nat
        /\ HeaderLen(e) + ContentLen(e) <= Len(e)
        /\ Len(FirstElement(e).rest) = Len(e) - HeaderLen(e) - ContentLen(e)
        /\ FirstElement(e) \in WireElements
    BY <1>2, <1>3, CompleteSpec
  <2> DEFINE k == LeftOver(e)
             h == HeaderLen(e)
             c == ContentLen(e)
  <2>2. k = n - h - c /\ h \in Nat /\ h >= 2 /\ c \in Nat /\ h + c <= n
    BY <1>2, <1>3, <2>1 DEF LeftOver
  <2> HIDE DEF k, h, c
  <2>3. k \in 0..(n - 1)
    BY <1>1, <2>2
  <2> QED BY <1>2, <2>1, <2>3 DEF e, k
<1>4. CASE ~ Complete(e)
  <2>1. LeftOver(e) \in 0..(n - 1)
    BY <1>1, <1>4 DEF LeftOver
  <2> QED BY <1>2, <1>4, <2>1 DEF e
<1> QED BY <1>3, <1>4

\* One round of readAll: the first element in front of the elements behind it.
LEMMA ReadTLVSequels ==
    ASSUME NEW d \in Seq(Nat), NEW f
    PROVE  UNION {{<<t>> \o ts : ts \in f[Len(t.rest)]} : t \in ReadTLV(d)}
             = Sequels(d, f[LeftOver(d)])
<1>1. CASE Complete(d)
  <2>1. ReadTLV(d) = {FirstElement(d)}
    BY <1>1, ReadTLVCases
  <2>2. LeftOver(d) = Len(FirstElement(d).rest)
    BY <1>1 DEF LeftOver
  <2> DEFINE x == FirstElement(d)
  <2> HIDE DEF x
  <2>3. UNION {{<<t>> \o ts : ts \in f[Len(t.rest)]} : t \in {x}}
          = {<<x>> \o ts : ts \in f[Len(x.rest)]}
    OBVIOUS
  <2> QED BY <1>1, <2>1, <2>2, <2>3 DEF Sequels, x
<1>2. CASE ~ Complete(d)
  <2>1. ReadTLV(d) = {}
    BY <1>2, ReadTLVCases
  <2> QED BY <1>2, <2>1 DEF Sequels
<1> QED BY <1>1, <1>2

\* readAll is defined by recursion on how many octets are left.
LEMMA ReadingExists ==
    ASSUME NEW d \in Seq(Nat)
    PROVE  \E f : Reading(f, d) /\ ReadAll(d) = f[Len(d)] /\ ReadAll(d) \subseteq Seq(WireElements)
<1> DEFINE L == Len(d)
           S == SUBSET Seq(WireElements)
           base == {<<>>}
           below == [n \in Nat \ {0} |-> IF n <= L THEN LeftOver(Lasts(d, n)) ELSE 0]
           step == [n \in Nat \ {0} |-> [X \in S |-> IF n <= L THEN Sequels(Lasts(d, n), X) ELSE {}]]
           G(f) == [n \in 0..L |->
                      IF n = 0 THEN {<<>>}
                      ELSE UNION {{<<t>> \o ts : ts \in f[Len(t.rest)]} :
                                   t \in ReadTLV(SubSeq(d, Len(d) - n + 1, Len(d)))}]
<1>1. L \in Nat
  BY LenProperties
<1>2. \A n \in 1..L : /\ Lasts(d, n) \in Seq(Nat) /\ LeftOver(Lasts(d, n)) \in 0..(n - 1)
                      /\ Complete(Lasts(d, n)) => FirstElement(Lasts(d, n)) \in WireElements
  BY LeftOverSpec
<1> HIDE DEF L
<1>3. \A n \in 1..L : \A X \in S : Sequels(Lasts(d, n), X) \in S
  <2> SUFFICES ASSUME NEW n \in 1..L, NEW X \in S, NEW s \in Sequels(Lasts(d, n), X)
               PROVE  s \in Seq(WireElements)
    OBVIOUS
  <2> DEFINE e == Lasts(d, n)
             x == FirstElement(e)
  <2>1. Complete(e) /\ x \in WireElements
    BY <1>2 DEF Sequels
  <2>2. PICK ts \in X : s = <<x>> \o ts
    BY <2>1 DEF Sequels
  <2>3. ts \in Seq(WireElements)
    OBVIOUS
  <2> HIDE DEF x, S
  <2> QED BY <2>1, <2>2, <2>3, ConsSpec
<1>4. Recursion(S, base, below, step)
  <2>1. base \in S
    BY EmptySeq
  <2>2. \A n \in Nat \ {0} : below[n] \in Nat /\ below[n] < n
    <3> TAKE n \in Nat \ {0}
    <3>1. CASE n <= L
      <4>1. n \in 1..L
        BY <1>1, <3>1
      <4>2. LeftOver(Lasts(d, n)) \in 0..(n - 1)
        BY <1>2, <4>1
      <4> QED BY <3>1, <4>2
    <3>2. CASE ~ (n <= L)
      BY <3>2
    <3> QED BY <3>1, <3>2
  <2>3. \A n \in Nat \ {0} : step[n] \in [S -> S]
    <3> TAKE n \in Nat \ {0}
    <3>1. CASE n <= L
      <4>1. n \in 1..L
        BY <1>1, <3>1
      <4> HIDE DEF S
      <4> QED BY <1>3, <3>1, <4>1
    <3>2. CASE ~ (n <= L)
      <4>1. {} \in S
        OBVIOUS
      <4> HIDE DEF S
      <4> QED BY <3>2, <4>1
    <3> QED BY <3>1, <3>2
  <2>4. below \in [Nat \ {0} -> Nat] /\ step \in [Nat \ {0} -> [S -> S]]
    <3> HIDE DEF S
    <3> QED BY <2>2, <2>3
  <2> HIDE DEF S, base, below, step
  <2> QED BY <2>1, <2>2, <2>4 DEF Recursion
<1>5. PICK g : Computes(g, S, base, below, step)
  <2> HIDE DEF S, base, below, step
  <2> QED BY <1>4, NatRecursion
<1> HIDE DEF S
<1> DEFINE f == [n \in 0..L |-> g[n]]
<1>6. \A n \in 1..L : f[n] = Sequels(Lasts(d, n), f[LeftOver(Lasts(d, n))])
  <2> TAKE n \in 1..L
  <2> DEFINE m == LeftOver(Lasts(d, n))
  <2>1. n \in Nat \ {0} /\ n <= L /\ n \in 0..L /\ m \in 0..(n - 1) /\ m \in 0..L /\ m \in Nat
    BY <1>1, <1>2
  <2>2. g[n] = step[n][g[below[n]]] /\ g[m] \in S
    <3> HIDE DEF base, below, step, m
    <3> QED BY <1>5, <2>1 DEF Computes
  <2>3. below[n] = m
    BY <2>1
  <2>4. step[n][g[m]] = Sequels(Lasts(d, n), g[m])
    <3> HIDE DEF m
    <3> QED BY <2>1, <2>2
  <2>5. f[n] = g[n] /\ f[m] = g[m]
    <3> HIDE DEF m
    <3> QED BY <2>1
  <2> HIDE DEF f, below, step
  <2> QED BY <2>2, <2>3, <2>4, <2>5
<1>7. f[0] = {<<>>}
  BY <1>1, <1>5 DEF Computes
<1>8. \A n \in 0..L : f[n] \in S
  <2> HIDE DEF base, below, step
  <2> QED BY <1>1, <1>5 DEF Computes
<1> HIDE DEF f
<1>9. \A h : (\A n \in 1..L : G(h)[n] = Sequels(Lasts(d, n), h[LeftOver(Lasts(d, n))]))
  <2> TAKE h
  <2> TAKE n \in 1..L
  <2>1. n # 0 /\ n \in 0..L
    BY <1>1
  <2>2. G(h)[n] = UNION {{<<t>> \o ts : ts \in h[Len(t.rest)]} : t \in ReadTLV(Lasts(d, n))}
    BY <2>1 DEF Lasts
  <2> HIDE DEF G
  <2> QED BY <1>2, <2>2, ReadTLVSequels
<1>10. f = G(f)
  <2>1. \A n \in 0..L : f[n] = G(f)[n]
    <3> TAKE n \in 0..L
    <3>1. CASE n = 0
      BY <1>7, <3>1
    <3>2. CASE n # 0
      <4>1. n \in 1..L
        BY <1>1, <3>2
      <4> HIDE DEF G
      <4> QED BY <1>6, <1>9, <4>1
    <3> QED BY <3>1, <3>2
  <2>2. f = [n \in 0..L |-> f[n]]
    BY DEF f
  <2>3. G(f) = [n \in 0..L |-> G(f)[n]]
    OBVIOUS
  <2> HIDE DEF G
  <2> QED BY <2>1, <2>2, <2>3
<1> DEFINE h == CHOOSE h : h = G(h)
<1>11. h = G(h)
  <2> HIDE DEF G
  <2> QED BY <1>10
<1>12. ReadAll(d) = h[L]
  BY DEF ReadAll, L
<1> HIDE DEF h
<1>13. Reading(h, d)
  <2>1. h[0] = {<<>>}
    BY <1>1, <1>11
  <2>2. \A n \in 1..L : h[n] = Sequels(Lasts(d, n), h[LeftOver(Lasts(d, n))])
    <3> HIDE DEF G
    <3> QED BY <1>9, <1>11
  <2> HIDE DEF G
  <2> QED BY <2>1, <2>2 DEF Reading, L
<1> HIDE DEF G
<1> DEFINE P == {n \in Nat : n <= L => h[n] \in S}
<1>14. ASSUME NEW n \in Nat, 0..(n-1) \subseteq P PROVE n \in P
  <2> SUFFICES ASSUME n <= L PROVE h[n] \in S
    OBVIOUS
  <2>1. CASE n = 0
    <3>1. h[n] = {<<>>}
      BY <1>13, <2>1 DEF Reading
    <3> QED BY <3>1, EmptySeq DEF S
  <2>2. CASE n # 0
    <3> DEFINE m == LeftOver(Lasts(d, n))
    <3>1. n \in 1..L /\ m \in 0..(n - 1) /\ m \in Nat /\ m <= L
      BY <1>1, <1>2, <2>2
    <3>2. h[m] \in S
      BY <1>14, <3>1
    <3>3. h[n] = Sequels(Lasts(d, n), h[m])
      BY <1>13, <3>1 DEF Reading, L
    <3> QED BY <1>3, <3>1, <3>2, <3>3
  <2> QED BY <2>1, <2>2
<1>15. h[L] \in S
  <2>1. Nat \subseteq P
    <3> HIDE DEF P
    <3> QED BY <1>14, NatSetStrongInduction
  <2> QED BY <1>1, <2>1
<1> QED BY <1>12, <1>13, <1>15 DEF L, S

\* The elements of an end of the octets are read alone as with what is before.
LEMMA ReadingAgree ==
    ASSUME NEW d \in Seq(Nat), NEW m \in 0..Len(d), NEW e, e = Lasts(d, m),
           NEW f, NEW g, Reading(f, d), Reading(g, e)
    PROVE  f[m] = g[m]
<1> DEFINE P == {n \in Nat : n <= m => f[n] = g[n]}
<1>1. Len(d) \in Nat /\ m \in Nat /\ m <= Len(d)
  BY LenProperties
<1>2. e \in Seq(Nat) /\ Len(e) = m
  BY LastsSpec
<1>3. ASSUME NEW n \in Nat, 0..(n-1) \subseteq P PROVE n \in P
  <2> SUFFICES ASSUME n <= m PROVE f[n] = g[n]
    OBVIOUS
  <2>1. CASE n = 0
    BY <2>1 DEF Reading
  <2>2. CASE n # 0
    <3>1. n \in 1..Len(d) /\ n \in 1..Len(e) /\ n \in 0..m
      BY <1>1, <1>2, <2>2
    <3>2. Lasts(e, n) = Lasts(d, n)
      BY <3>1, LastsOfLasts
    <3> DEFINE x == Lasts(d, n)
               k == LeftOver(x)
    <3>3. k \in 0..(n - 1) /\ k \in Nat
      BY <3>1, LeftOverSpec
    <3>4. f[k] = g[k]
      BY <1>1, <1>3, <3>1, <3>3
    <3> HIDE DEF k
    <3>5. f[n] = Sequels(x, f[k])
      BY <3>1 DEF Reading, k
    <3>6. g[n] = Sequels(x, g[k])
      BY <3>1, <3>2 DEF Reading, k
    <3> QED BY <3>4, <3>5, <3>6
  <2> QED BY <2>1, <2>2
<1>4. Nat \subseteq P
  <2> HIDE DEF P
  <2> QED BY <1>3, NatSetStrongInduction
<1> QED BY <1>1, <1>4

\* ReadAll takes the first element and goes on with the rest.
LEMMA ReadAllSpec ==
    /\ ReadAll(<<>>) = {<<>>}
    /\ \A d \in Seq(Nat) : ReadAll(d) \subseteq Seq(WireElements)
    /\ \A d \in Seq(Nat) : d # <<>> /\ ~ Complete(d) => ReadAll(d) = {}
    /\ \A d \in Seq(Nat) : Complete(d) =>
          ReadAll(d) = {<<FirstElement(d)>> \o ts : ts \in ReadAll(FirstElement(d).rest)}
<1>1. ReadAll(<<>>) = {<<>>}
  <2>1. <<>> \in Seq(Nat) /\ Len(<<>>) = 0
    BY EmptySeq
  <2>2. PICK f : Reading(f, <<>>) /\ ReadAll(<<>>) = f[Len(<<>>)]
    BY <2>1, ReadingExists
  <2> QED BY <2>1, <2>2 DEF Reading
<1>2. ASSUME NEW d \in Seq(Nat) PROVE ReadAll(d) \subseteq Seq(WireElements)
  BY ReadingExists
<1>3. ASSUME NEW d \in Seq(Nat), d # <<>>, NEW f, Reading(f, d)
      PROVE  f[Len(d)] = Sequels(d, f[LeftOver(d)])
  <2>1. Len(d) \in Nat \ {0}
    BY <1>3, EmptySeq
  <2>2. Lasts(d, Len(d)) = d
    <3> DEFINE n == Len(d)
    <3>1. n - n + 1 = 1
      BY <2>1
    <3>2. SubSeq(d, 1, Len(d)) = d
      BY SubSeqFull
    <3> QED BY <3>1, <3>2 DEF Lasts
  <2>3. Len(d) \in 1..Len(d)
    BY <2>1
  <2>4. f[Len(d)] = Sequels(Lasts(d, Len(d)), f[LeftOver(Lasts(d, Len(d)))])
    BY <1>3, <2>3 DEF Reading
  <2> QED BY <2>2, <2>4
<1>4. ASSUME NEW d \in Seq(Nat), d # <<>>, ~ Complete(d) PROVE ReadAll(d) = {}
  <2>1. PICK f : Reading(f, d) /\ ReadAll(d) = f[Len(d)]
    BY ReadingExists
  <2>2. f[Len(d)] = Sequels(d, f[LeftOver(d)])
    BY <1>3, <1>4, <2>1
  <2> QED BY <1>4, <2>1, <2>2 DEF Sequels
<1>5. ASSUME NEW d \in Seq(Nat), Complete(d)
      PROVE  ReadAll(d) = {<<FirstElement(d)>> \o ts : ts \in ReadAll(FirstElement(d).rest)}
  <2> DEFINE e == FirstElement(d).rest
             m == Len(e)
  <2>1. Len(d) \in Nat /\ Len(d) >= 2
    BY <1>5, CompleteSpec
  <2>2. d # <<>>
    BY <2>1, EmptySeq
  <2>3. m \in 0..Len(d) /\ e = Lasts(d, m) /\ e \in Seq(Nat)
    <3>1. /\ HeaderLen(d) \in Nat /\ ContentLen(d) \in Nat
          /\ HeaderLen(d) + ContentLen(d) <= Len(d)
          /\ m = Len(d) - HeaderLen(d) - ContentLen(d)
          /\ e = Lasts(d, Len(d) - HeaderLen(d) - ContentLen(d))
      BY <1>5, CompleteSpec
    <3>2. e \in Seq(Nat)
      BY <1>5, CompleteSpec DEF WireElements
    <3> HIDE DEF e
    <3> QED BY <2>1, <3>1, <3>2
  <2>4. PICK f : Reading(f, d) /\ ReadAll(d) = f[Len(d)]
    BY ReadingExists
  <2>5. PICK g : Reading(g, e) /\ ReadAll(e) = g[Len(e)]
    BY <2>3, ReadingExists
  <2>6. LeftOver(d) = m
    BY <1>5 DEF LeftOver
  <2>7. f[Len(d)] = Sequels(d, f[m])
    BY <1>3, <2>2, <2>4, <2>6
  <2> HIDE DEF e, m
  <2>8. f[m] = g[m]
    BY <2>3, <2>4, <2>5, ReadingAgree
  <2>9. ReadAll(e) = f[m]
    BY <2>5, <2>8 DEF m
  <2> QED BY <1>5, <2>4, <2>7, <2>9 DEF Sequels, e
<1> QED BY <1>1, <1>2, <1>4, <1>5

-----------------------------------------------------------------------------
(* What octets read as.                                                     *)

\* An element without what is behind it.
WireItems == [class : Nat, tag : Nat, content : Seq(Nat)]
Item(t) == [class |-> t.class, tag |-> t.tag, content |-> t.content]

Shows(ts, cs) == Len(ts) = Len(cs) /\ \A i \in 1..Len(cs) : Item(ts[i]) = cs[i]

\* d is the octets of exactly the elements cs, if an int can count them.
Reads(d, cs) ==
    /\ d \in Seq(Nat) /\ cs \in Seq(WireItems)
    /\ Short(d) => \E ts \in Seq(WireElements) : ReadAll(d) = {ts} /\ Shows(ts, cs)

\* What readTLV returns, without the rest, is a wire item.
LEMMA ItemSpec == \A x \in WireElements : Item(x) \in WireItems
<1> TAKE x \in WireElements
<1>1. x.class \in Nat /\ x.tag \in Nat /\ x.content \in Seq(Nat)
  BY DEF WireElements
<1> QED BY <1>1 DEF Item, WireItems

\* One more element in front, seen and shown.
LEMMA ShowsCons ==
    ASSUME NEW x \in WireElements, NEW ts \in Seq(WireElements),
           NEW cs \in Seq(WireItems), Shows(ts, cs)
    PROVE  Shows(<<x>> \o ts, <<Item(x)>> \o cs)
<1> DEFINE us == <<x>> \o ts
           y == Item(x)
           bs == <<y>> \o cs
<1>1. y \in WireItems
  BY ItemSpec
<1>2. Len(us) = 1 + Len(ts) /\ us[1] = x /\ \A i \in 1..Len(ts) : us[i + 1] = ts[i]
  BY ConsSpec
<1>3. Len(bs) = 1 + Len(cs) /\ bs[1] = y /\ \A i \in 1..Len(cs) : bs[i + 1] = cs[i]
  <2> HIDE DEF y
  <2> QED BY <1>1, ConsSpec
<1>4. Len(ts) = Len(cs) /\ Len(cs) \in Nat /\ \A i \in 1..Len(cs) : Item(ts[i]) = cs[i]
  BY LenProperties DEF Shows
<1> HIDE DEF us, bs
<1>5. ASSUME NEW i \in 1..Len(bs) PROVE Item(us[i]) = bs[i]
  <2>1. CASE i = 1
    BY <1>2, <1>3, <2>1
  <2>2. CASE i # 1
    <3> DEFINE j == i - 1
    <3>1. j \in 1..Len(cs) /\ i = j + 1
      BY <1>3, <1>4, <2>2
    <3> HIDE DEF j
    <3>2. us[j + 1] = ts[j] /\ bs[j + 1] = cs[j] /\ Item(ts[j]) = cs[j]
      BY <1>2, <1>3, <1>4, <3>1
    <3> QED BY <3>1, <3>2
  <2> QED BY <2>1, <2>2
<1> QED BY <1>2, <1>3, <1>4, <1>5 DEF Shows, us, bs

\* The elements behind the first one, seen and shown.
LEMMA ShowsUncons ==
    ASSUME NEW x \in WireElements, NEW ts \in Seq(WireElements),
           NEW cs \in Seq(WireItems), Shows(<<x>> \o ts, cs)
    PROVE  \E bs \in Seq(WireItems) : cs = <<Item(x)>> \o bs /\ Shows(ts, bs)
<1> DEFINE us == <<x>> \o ts
           y == Item(x)
           bs == Tail(cs)
<1>1. Len(us) = 1 + Len(ts) /\ us[1] = x /\ \A i \in 1..Len(ts) : us[i + 1] = ts[i]
  BY ConsSpec
<1>2. Len(us) = Len(cs) /\ Len(cs) \in Nat /\ Len(ts) \in Nat /\ \A i \in 1..Len(cs) : Item(us[i]) = cs[i]
  BY LenProperties DEF Shows
<1> HIDE DEF us
<1>3. Len(cs) = 1 + Len(ts) /\ cs[1] = y /\ cs # <<>>
  <2>1. Len(cs) = 1 + Len(ts) /\ 1 \in 1..Len(cs)
    BY <1>1, <1>2
  <2> QED BY <1>1, <1>2, <2>1, EmptySeq
<1>4. bs \in Seq(WireItems) /\ Len(bs) = Len(cs) - 1 /\ \A i \in 1..Len(bs) : bs[i] = cs[i + 1]
  BY <1>3, HeadTailProperties
<1>5. cs = <<y>> \o bs
  <2> DEFINE es == <<y>> \o bs
  <2>1. y \in WireItems
    BY ItemSpec
  <2> HIDE DEF bs, y
  <2>2. /\ es \in Seq(WireItems) /\ Len(es) = 1 + Len(bs) /\ es[1] = y
        /\ \A i \in 1..Len(bs) : es[i + 1] = bs[i]
    BY <1>4, <2>1, ConsSpec
  <2> HIDE DEF es
  <2>3. ASSUME NEW i \in 1..Len(cs) PROVE es[i] = cs[i]
    <3>1. CASE i = 1
      BY <1>3, <2>2, <3>1
    <3>2. CASE i # 1
      <4> DEFINE j == i - 1
      <4>1. j \in 1..Len(bs) /\ i = j + 1
        BY <1>2, <1>4, <3>2
      <4> HIDE DEF j
      <4>2. es[j + 1] = bs[j] /\ bs[j] = cs[j + 1]
        BY <1>4, <2>2, <4>1
      <4> QED BY <4>1, <4>2
    <3> QED BY <3>1, <3>2
  <2>4. Len(es) = Len(cs)
    BY <1>2, <1>4, <2>2
  <2>5. es = cs
    BY <2>2, <2>3, <2>4, SeqEqual
  <2> QED BY <2>5 DEF es
<1>6. Shows(ts, bs)
  <2> HIDE DEF bs
  <2>1. Len(ts) = Len(bs)
    BY <1>2, <1>3, <1>4
  <2>2. ASSUME NEW i \in 1..Len(bs) PROVE Item(ts[i]) = bs[i]
    <3>1. i + 1 \in 1..Len(cs) /\ i \in 1..Len(ts)
      BY <1>2, <1>3, <1>4
    <3>2. us[i + 1] = ts[i] /\ bs[i] = cs[i + 1] /\ Item(us[i + 1]) = cs[i + 1]
      BY <1>1, <1>2, <1>4, <3>1
    <3> QED BY <3>2
  <2> QED BY <2>1, <2>2 DEF Shows
<1> HIDE DEF bs
<1> QED BY <1>4, <1>5, <1>6

\* What is behind a complete element is shorter.
LEMMA RestSpec ==
    ASSUME NEW d \in Seq(Nat), Complete(d)
    PROVE  /\ FirstElement(d).rest \in Seq(Nat)
           /\ Len(FirstElement(d).rest) \in 0..(Len(d) - 1)
           /\ Short(d) => Short(FirstElement(d).rest)
<1> DEFINE x == FirstElement(d)
           r == x.rest
           h == HeaderLen(d)
           c == ContentLen(d)
           n == Len(d)
           k == Len(r)
<1>1. x \in WireElements
  BY CompleteSpec
<1>2. r \in Seq(Nat)
  <2> HIDE DEF x
  <2> QED BY <1>1 DEF WireElements
<1>3. h \in Nat /\ h >= 2 /\ c \in Nat /\ h + c <= n /\ k = n - h - c
  BY CompleteSpec
<1>4. n \in Nat
  BY LenProperties
<1>5. MaxLong \in Nat
  BY WrappedSpec
<1> HIDE DEF h, c, k, n, r
<1>6. k \in 0..(n - 1)
  BY <1>3, <1>4
<1>7. n <= MaxLong => k <= MaxLong
  BY <1>4, <1>5, <1>6
<1> QED BY <1>2, <1>6, <1>7 DEF Short, n, k, r

\* No octets are no elements.
LEMMA ReadsNothing ==
    /\ Reads(<<>>, <<>>)
    /\ \A cs : Reads(<<>>, cs) => cs = <<>>
<1>1. <<>> \in Seq(Nat) /\ <<>> \in Seq(WireItems) /\ <<>> \in Seq(WireElements) /\ Len(<<>>) = 0
  BY EmptySeq
<1>2. ReadAll(<<>>) = {<<>>}
  BY ReadAllSpec
<1>3. Reads(<<>>, <<>>)
  <2>1. Shows(<<>>, <<>>)
    BY <1>1 DEF Shows
  <2> QED BY <1>1, <1>2, <2>1 DEF Reads
<1>4. ASSUME NEW cs, Reads(<<>>, cs) PROVE cs = <<>>
  <2>0. Short(<<>>)
    BY <1>1, WrappedSpec DEF Short
  <2>1. cs \in Seq(WireItems) /\ Shows(<<>>, cs)
    BY <1>2, <1>4, <2>0 DEF Reads
  <2>2. Len(cs) = 0
    BY <1>1, <2>1 DEF Shows
  <2> QED BY <2>1, <2>2, EmptySeq
<1> QED BY <1>3, <1>4

\* An element in front of others is read in front of them.
LEMMA ReadsFirst ==
    ASSUME NEW d \in Seq(Nat), Complete(d), NEW cs, Reads(FirstElement(d).rest, cs)
    PROVE  Reads(d, <<Item(FirstElement(d))>> \o cs)
<1> DEFINE x == FirstElement(d)
           y == Item(x)
<1>0. x \in WireElements
  BY CompleteSpec
<1>1. ReadAll(d) = {<<x>> \o ts : ts \in ReadAll(x.rest)}
  BY ReadAllSpec
<1>2. Short(d) => Short(x.rest)
  BY RestSpec
<1> HIDE DEF x
<1>3. cs \in Seq(WireItems) /\ y \in WireItems
  BY <1>0, ItemSpec DEF Reads, x
<1>4. <<y>> \o cs \in Seq(WireItems)
  <2> HIDE DEF y
  <2> QED BY <1>3, ConsSpec
<1>5. ASSUME Short(d)
      PROVE  \E us \in Seq(WireElements) : ReadAll(d) = {us} /\ Shows(us, <<y>> \o cs)
  <2>4. PICK ts \in Seq(WireElements) : ReadAll(x.rest) = {ts} /\ Shows(ts, cs)
    BY <1>2, <1>5 DEF Reads, x
  <2>5. ReadAll(d) = {<<x>> \o ts} /\ <<x>> \o ts \in Seq(WireElements)
    BY <1>0, <1>1, <2>4, ConsSpec
  <2>6. Shows(<<x>> \o ts, <<y>> \o cs)
    BY <1>0, <1>3, <2>4, ShowsCons
  <2> HIDE DEF y
  <2> QED BY <2>5, <2>6
<1> HIDE DEF y
<1> QED BY <1>4, <1>5 DEF Reads, x, y

\* What is not empty starts with a complete element, and the rest is read behind it.
LEMMA ReadsRest ==
    ASSUME NEW d, d # <<>>, Short(d), NEW cs, Reads(d, cs)
    PROVE  /\ d \in Seq(Nat) /\ Complete(d) /\ FirstElement(d) \in WireElements
           /\ \E bs \in Seq(WireItems) :
                  cs = <<Item(FirstElement(d))>> \o bs /\ Reads(FirstElement(d).rest, bs)
<1>1. d \in Seq(Nat) /\ cs \in Seq(WireItems)
  BY DEF Reads
<1>2. PICK us \in Seq(WireElements) : ReadAll(d) = {us} /\ Shows(us, cs)
  BY DEF Reads
<1>3. Complete(d)
  <2>1. ~ Complete(d) => ReadAll(d) = {}
    BY <1>1, ReadAllSpec
  <2> QED BY <1>2, <2>1
<1> DEFINE x == FirstElement(d)
           R == ReadAll(x.rest)
<1>4. x \in WireElements /\ x.rest \in Seq(Nat)
  BY <1>1, <1>3, CompleteSpec DEF WireElements
<1>5. {us} = {<<x>> \o ts : ts \in R} /\ R \subseteq Seq(WireElements)
  <2>1. ReadAll(d) = {<<x>> \o ts : ts \in R}
    BY <1>1, <1>3, ReadAllSpec
  <2> HIDE DEF x
  <2> QED BY <1>2, <1>4, <2>1, ReadAllSpec
<1> HIDE DEF x
<1>6. PICK ts \in R : us = <<x>> \o ts
  BY <1>5
<1> HIDE DEF R
<1>7. ts \in Seq(WireElements)
  BY <1>5
<1>8. ASSUME NEW vs \in R PROVE vs = ts
  <2>1. vs \in Seq(WireElements) /\ <<x>> \o vs = <<x>> \o ts
    BY <1>5, <1>6
  <2> DEFINE a == <<x>> \o vs
  <2>2. Len(a) = 1 + Len(vs) /\ \A i \in 1..Len(vs) : a[i + 1] = vs[i]
    BY <1>4, <2>1, ConsSpec
  <2>3. Len(a) = 1 + Len(ts) /\ \A i \in 1..Len(ts) : a[i + 1] = ts[i]
    BY <1>4, <1>7, <2>1, ConsSpec
  <2> HIDE DEF a
  <2>4. Len(vs) \in Nat /\ Len(ts) \in Nat
    BY <1>7, <2>1, LenProperties
  <2>5. Len(vs) = Len(ts)
    BY <2>2, <2>3, <2>4
  <2>6. \A i \in 1..Len(vs) : vs[i] = ts[i]
    BY <2>2, <2>3, <2>5
  <2> QED BY <1>7, <2>1, <2>5, <2>6, SeqEqual
<1>9. R = {ts}
  BY <1>8
<1>10. PICK bs \in Seq(WireItems) : cs = <<Item(x)>> \o bs /\ Shows(ts, bs)
  BY <1>1, <1>2, <1>4, <1>6, <1>7, ShowsUncons
<1>11. Reads(x.rest, bs)
  BY <1>4, <1>7, <1>9, <1>10 DEF Reads, R
<1> QED BY <1>1, <1>3, <1>4, <1>10, <1>11 DEF x

\* Octets of elements, one after the other, are those of all the elements.
LEMMA ReadsConcat ==
    ASSUME NEW d, NEW cs, Reads(d, cs), NEW e, NEW bs, Reads(e, bs)
    PROVE  Reads(d \o e, cs \o bs)
<1>1. e \in Seq(Nat) /\ bs \in Seq(WireItems)
  BY DEF Reads
<1> DEFINE P == {n \in Nat : \A a \in Seq(Nat), as \in Seq(WireItems) :
                      Len(a) = n /\ Reads(a, as) => Reads(a \o e, as \o bs)}
<1>2. ASSUME NEW n \in Nat, 0..(n-1) \subseteq P PROVE n \in P
  <2> SUFFICES ASSUME NEW a \in Seq(Nat), NEW as \in Seq(WireItems), Len(a) = n, Reads(a, as)
               PROVE  Reads(a \o e, as \o bs)
    OBVIOUS
  <2>0. a \o e \in Seq(Nat) /\ as \o bs \in Seq(WireItems) /\ Len(a \o e) = Len(a) + Len(e)
    BY <1>1, ConcatProperties
  <2>1. CASE a = <<>>
    <3>1. as = <<>>
      BY <2>1, ReadsNothing
    <3>2. a \o e = e /\ as \o bs = bs
      BY <1>1, <2>1, <3>1, ConcatEmptySeq
    <3> QED BY <3>2
  <2>2. CASE ~ Short(a)
    <3> DEFINE w == a \o e
               k == Len(e)
    <3>1. k \in Nat /\ n \in Nat /\ MaxLong \in Nat
      BY <1>1, LenProperties, WrappedSpec
    <3>2. Len(w) = n + k
      BY <2>0
    <3>3. ~ (n <= MaxLong)
      BY <2>2 DEF Short
    <3> HIDE DEF k, w
    <3>4. ~ Short(w)
      BY <3>1, <3>2, <3>3 DEF Short
    <3> QED BY <2>0, <3>4 DEF Reads, w
  <2>3. CASE a # <<>> /\ Short(a)
    <3> DEFINE x == FirstElement(a)
               r == x.rest
               y == Item(x)
    <3>1. Complete(a) /\ x \in WireElements
      BY <2>3, ReadsRest
    <3>2. PICK rs \in Seq(WireItems) : as = <<y>> \o rs /\ Reads(r, rs)
      BY <2>3, ReadsRest
    <3>3. r \in Seq(Nat) /\ Len(r) \in 0..(n-1)
      BY <3>1, RestSpec
    <3>4. Reads(r \o e, rs \o bs)
      <4> HIDE DEF r
      <4>1. Len(r) \in P
        BY <1>2, <3>3
      <4> QED BY <3>2, <3>3, <4>1
    <3> DEFINE w == a \o e
    <3>5. w \in Seq(Nat) /\ Complete(w) /\ Item(FirstElement(w)) = y /\ FirstElement(w).rest = r \o e
      <4> DEFINE z == [class |-> x.class, tag |-> x.tag, content |-> x.content, rest |-> x.rest \o e]
      <4>1. w \in Seq(Nat) /\ ReadTLV(w) = {z}
        BY <1>1, <3>1, ReadTLVExtended
      <4> HIDE DEF w
      <4>2. Complete(w) /\ {FirstElement(w)} = {z}
        <5>1. {z} # {}
          OBVIOUS
        <5> HIDE DEF z
        <5> QED BY <4>1, <5>1, ReadTLVCases
      <4>3. FirstElement(w) = z
        <5> HIDE DEF z
        <5> QED BY <4>2
      <4>4. Item(z) = y /\ z.rest = r \o e
        <5> HIDE DEF x
        <5> QED BY DEF Item
      <4> QED BY <4>1, <4>2, <4>3, <4>4
    <3> HIDE DEF w
    <3>6. Reads(w, <<y>> \o (rs \o bs))
      <4> HIDE DEF y, r
      <4> QED BY <3>4, <3>5, ReadsFirst
    <3>7. <<y>> \o (rs \o bs) = (<<y>> \o rs) \o bs
      <4>1. y \in WireItems
        BY <3>1, ItemSpec
      <4> HIDE DEF y
      <4>2. <<y>> \in Seq(WireItems)
        BY <4>1
      <4> QED BY <1>1, <3>2, <4>2, ConcatAssociative
    <3> QED BY <3>2, <3>6, <3>7 DEF w
  <2> QED BY <2>1, <2>3, <2>2
<1>3. Nat \subseteq P
  <2> HIDE DEF P
  <2> QED BY <1>2, NatSetStrongInduction
<1>4. Len(d) \in P /\ d \in Seq(Nat) /\ cs \in Seq(WireItems)
  <2>1. d \in Seq(Nat) /\ cs \in Seq(WireItems)
    BY DEF Reads
  <2>2. Len(d) \in Nat
    BY <2>1, LenProperties
  <2> HIDE DEF P
  <2> QED BY <1>3, <2>1, <2>2
<1> QED BY <1>4

-----------------------------------------------------------------------------
(* Elements.                                                                *)

Element(class, tag, content) == [class |-> class, tag |-> tag, content |-> content]

\* The element with nothing behind it.
Whole(class, tag, content) ==
    [class |-> class, tag |-> tag, content |-> content, rest |-> <<>>]

\* d is one element, if an int can count its octets.
Single(d, x) == d \in Seq(Nat) /\ (Short(d) => ReadTLV(d) = {x} /\ ReadOnly(d) = {x})

\* TLV writes an element that reads as itself.
LEMMA ReadsTLV ==
    ASSUME NEW class \in 0..3, NEW form \in {0, 32}, NEW tag \in 0..30,
           NEW content \in Seq(Nat)
    PROVE  /\ Reads(TLV(class, form, tag, content), <<Element(class, tag, content)>>)
           /\ Element(class, tag, content) \in WireItems
           /\ Single(TLV(class, form, tag, content), Whole(class, tag, content))
<1> DEFINE d == TLV(class, form, tag, content)
           x == Whole(class, tag, content)
           y == Element(class, tag, content)
<1>1. d \in Seq(Nat) /\ (Short(d) => Complete(d) /\ FirstElement(d) = x)
  <2>1. d \in Seq(Nat) /\ (Short(d) => Short(content))
    BY TLVLength
  <2>2. ASSUME Short(d) PROVE Complete(d) /\ FirstElement(d) = x
    <3>1. Short(content)
      BY <2>1, <2>2
    <3> QED BY <3>1, TLVSpec DEF Whole
  <2> HIDE DEF d, x
  <2> QED BY <2>1, <2>2
<1> HIDE DEF d
<1>2. Item(x) = y /\ x.rest = <<>>
  BY DEF Item, Element, Whole
<1>3. y \in WireItems /\ <<y>> \in Seq(WireItems)
  <2>1. class \in Nat /\ tag \in Nat
    OBVIOUS
  <2>2. y \in WireItems
    BY <2>1 DEF WireItems, Element
  <2> HIDE DEF y
  <2> QED BY <2>2
<1> HIDE DEF x, y
<1>4. Reads(d, <<y>>)
  <2>1. CASE Short(d)
    <3>1. Reads(d, <<y>> \o <<>>)
      BY <1>1, <1>2, <2>1, ReadsNothing, ReadsFirst
    <3>2. <<y>> \o <<>> = <<y>>
      BY <1>3, ConcatEmptySeq
    <3> QED BY <3>1, <3>2
  <2>2. CASE ~ Short(d)
    BY <1>1, <1>3, <2>2 DEF Reads
  <2> QED BY <2>1, <2>2
<1>6. Single(d, x)
  <2>1. Short(d) => ReadTLV(d) = {x}
    BY <1>1, ReadTLVCases
  <2> QED BY <1>1, <1>2, <2>1 DEF ReadOnly, Single
<1> QED BY <1>1, <1>3, <1>4, <1>6 DEF d, x, y

\* minimalTwosComplement and decodeBigInt agree on every int64 and every uint64.
LEMMA IntegerContent ==
    /\ \A v \in Signed(LongOctets) : DecodeInt64(TwosComplement(v)) = {v}
    /\ \A v \in Unsigned(LongOctets) : DecodeUint64(TwosComplement(v)) = {v}
    /\ \A v \in Signed(LongOctets) \cup Unsigned(LongOctets) : TwosComplement(v) \in Seq(Nat)
    /\ Signed(LongOctets) \subseteq Int /\ Unsigned(LongOctets) \subseteq Int
<1>1. Signed(LongOctets) \subseteq Int /\ Unsigned(LongOctets) \subseteq Int
  BY DEF Signed, Unsigned
<1>2. ASSUME NEW v \in Int
      PROVE  TwosComplement(v) \in Seq(Nat) /\ DecodeBigInt(TwosComplement(v)) = {v}
  BY TwosComplementSpec, OctetsAreNumbers
<1> QED BY <1>1, <1>2 DEF DecodeInt64, DecodeUint64

\* The kinds of elements that messages are made of.
LEMMA ReadsElements ==
    ASSUME NEW tag \in 0..30
    PROVE  /\ \A c \in Seq(Nat) :
                 /\ Reads(Primitive(tag, c), <<Element(2, tag, c)>>)
                 /\ Reads(Explicit(tag, c), <<Element(2, tag, c)>>)
                 /\ Reads(SequenceOf(c), <<Element(0, 16, c)>>)
           /\ \A v \in Signed(LongOctets) :
                 Reads(Integer(tag, v), <<Element(2, tag, TwosComplement(v))>>)
<1>1. ASSUME NEW c \in Seq(Nat)
      PROVE  /\ Reads(Primitive(tag, c), <<Element(2, tag, c)>>)
             /\ Reads(Explicit(tag, c), <<Element(2, tag, c)>>)
             /\ Reads(SequenceOf(c), <<Element(0, 16, c)>>)
  <2>1. 2 \in 0..3 /\ 0 \in 0..3 /\ 0 \in {0, 32} /\ 32 \in {0, 32} /\ 16 \in 0..30
    OBVIOUS
  <2>2. Reads(TLV(2, 0, tag, c), <<Element(2, tag, c)>>)
    BY <2>1, ReadsTLV
  <2>3. Reads(TLV(2, 32, tag, c), <<Element(2, tag, c)>>)
    BY <2>1, ReadsTLV
  <2>4. Reads(TLV(0, 32, 16, c), <<Element(0, 16, c)>>)
    BY <2>1, ReadsTLV
  <2> QED BY <2>2, <2>3, <2>4
          DEF Primitive, Explicit, SequenceOf, Context, Constructed, Universal, TagSequence
<1>2. ASSUME NEW v \in Signed(LongOctets)
      PROVE  Reads(Integer(tag, v), <<Element(2, tag, TwosComplement(v))>>)
  BY <1>1, IntegerContent DEF Integer
<1> QED BY <1>1, <1>2

\* The member of a sequence of one.
LEMMA SingleElement == \A S, x : <<x>> \in Seq(S) => x \in S
<1> TAKE S, x
<1> HAVE <<x>> \in Seq(S)
<1> DEFINE s == <<x>>
<1>1. Len(s) = 1 /\ s[1] = x
  OBVIOUS
<1> HIDE DEF s
<1>2. 1 \in 1..Len(s) /\ s \in Seq(S)
  BY <1>1 DEF s
<1> QED BY <1>1, <1>2, ElementOfSeq

\* Two sequences of one are a pair.
LEMMA ConcatSingles ==
    ASSUME NEW S, NEW x \in S, NEW y \in S
    PROVE  <<x>> \o <<y>> = <<x, y>>
<1> DEFINE s == <<x>>
           t == <<y>>
           u == s \o t
           v == <<x, y>>
<1>1. s \in Seq(S) /\ t \in Seq(S) /\ Len(s) = 1 /\ Len(t) = 1 /\ s[1] = x /\ t[1] = y
  OBVIOUS
<1>2. v \in Seq(S) /\ Len(v) = 2 /\ v[1] = x /\ v[2] = y
  OBVIOUS
<1> HIDE DEF s, t, v
<1>3. /\ u \in Seq(S) /\ Len(u) = Len(s) + Len(t)
      /\ \A i \in 1..(Len(s) + Len(t)) : u[i] = IF i <= Len(s) THEN s[i] ELSE t[i - Len(s)]
  BY <1>1, ConcatProperties
<1> HIDE DEF u
<1>4. Len(u) = 2 /\ u[1] = x /\ u[2] = y
  BY <1>1, <1>3
<1>5. \A i \in 1..Len(u) : u[i] = v[i]
  BY <1>2, <1>4
<1>6. u = v
  BY <1>2, <1>3, <1>4, <1>5, SeqEqual
<1> QED BY <1>6 DEF u, v, s, t

\* The first part of length one.
LEMMA SubSeqOne ==
    ASSUME NEW S, NEW s \in Seq(S), 1 \in 1..Len(s)
    PROVE  SubSeq(s, 1, 1) = <<s[1]>>
<1> DEFINE u == SubSeq(s, 1, 1)
           v == <<s[1]>>
<1>1. s[1] \in S
  BY ElementOfSeq
<1>2. v \in Seq(S) /\ Len(v) = 1 /\ v[1] = s[1]
  BY <1>1
<1>3. u \in Seq(S) /\ Len(u) = 1 /\ u[1] = s[1]
  <2>1. \A i \in 1..1 : s[i] \in S
    BY <1>1
  <2>2. /\ u \in Seq(S) /\ Len(u) = IF 1 <= 1 THEN 1 - 1 + 1 ELSE 0
        /\ \A i \in 1..(1 - 1 + 1) : u[i] = s[1 + i - 1]
    BY <2>1, SubSeqProperties
  <2> HIDE DEF u
  <2> QED BY <2>2
<1> HIDE DEF u, v
<1>4. u = v
  BY <1>2, <1>3, SeqEqual
<1> QED BY <1>4 DEF u, v

\* The elements of two strings of octets.
LEMMA ReadsPair ==
    ASSUME NEW d, NEW e, NEW x, NEW y, Reads(d, <<x>>), Reads(e, <<y>>)
    PROVE  Reads(d \o e, <<x, y>>)
<1>1. Reads(d \o e, <<x>> \o <<y>>)
  BY ReadsConcat
<1>2. <<x>> \o <<y>> = <<x, y>>
  <2>1. <<x>> \in Seq(WireItems) /\ <<y>> \in Seq(WireItems)
    BY DEF Reads
  <2>2. x \in WireItems /\ y \in WireItems
    BY <2>1, SingleElement
  <2> QED BY <2>2, ConcatSingles
<1> QED BY <1>1, <1>2

\* t is the element y, whatever is behind it, and an int can count its octets.
Alike(t, y) ==
    /\ t.class = y.class /\ t.tag = y.tag /\ t.content = y.content
    /\ Short(t.content)

\* What a decoder gets to see are the n elements ts.
Sees(d, ts, n) ==
    ReadAll(d) = {ts} /\ ts \in Seq(WireElements) /\ Len(ts) = n /\ DOMAIN ts = 1..n

\* What a decoder sees of octets that read as cs.
LEMMA ReadsShown ==
    ASSUME NEW d, NEW cs, Reads(d, cs)
    PROVE  /\ d \in Seq(Nat)
           /\ Short(d) => \E ts : Sees(d, ts, Len(cs)) /\ \A i \in 1..Len(cs) : Alike(ts[i], cs[i])
<1>1. d \in Seq(Nat)
  BY DEF Reads
<1> SUFFICES ASSUME Short(d)
             PROVE  \E ts : Sees(d, ts, Len(cs)) /\ \A i \in 1..Len(cs) : Alike(ts[i], cs[i])
  BY <1>1
<1>2. PICK ts \in Seq(WireElements) : ReadAll(d) = {ts} /\ Shows(ts, cs)
  BY DEF Reads
<1>3. Sees(d, ts, Len(cs))
  BY <1>2, LenProperties DEF Shows, Sees
<1>4. ASSUME NEW i \in 1..Len(cs) PROVE Alike(ts[i], cs[i])
  <2>1. Item(ts[i]) = cs[i] /\ i \in 1..Len(ts)
    BY <1>2 DEF Shows
  <2> DEFINE t == ts[i]
  <2>2. t \in WireElements
    BY <2>1, ElementOfSeq
  <2> HIDE DEF t
  <2>3. Item(t).class = t.class /\ Item(t).tag = t.tag /\ Item(t).content = t.content
    BY DEF Item
  <2>4. Short(t.content)
    BY <2>2 DEF WireElements
  <2> QED BY <2>1, <2>3, <2>4 DEF t, Alike
<1> QED BY <1>3, <1>4

\* Encodings of single elements, one after the other.
LEMMA ReadsFlat ==
    ASSUME NEW n \in Nat, NEW ss \in [1..n -> Seq(Nat)], NEW cs \in Seq(WireItems), Len(cs) = n,
           \A i \in 1..n : Reads(ss[i], <<cs[i]>>)
    PROVE  Reads(FlattenSeq(ss), cs)
<1>0. ss \in Seq(Seq(Nat)) /\ Len(ss) = n
  <2>1. ss \in Seq(Seq(Nat))
    BY SeqDef
  <2> QED BY <2>1, LenProperties
<1>1. CASE n = 0
  <2>1. ss = <<>> /\ cs = <<>>
    BY <1>0, <1>1, EmptySeq
  <2>2. FlattenSeq(ss) = <<>>
    BY <1>0, <1>1, <2>1 DEF FlattenSeq
  <2> QED BY <2>1, <2>2, ReadsNothing
<1>2. CASE n # 0
  <2> DEFINE G(f) == [i \in 1..Len(ss) |-> IF i = 1 THEN ss[i] ELSE f[i - 1] \o ss[i]]
             h == CHOOSE f : f = G(f)
             S == Seq(Nat)
             base == <<>>
             below == [i \in Nat \ {0} |-> i - 1]
             step == [i \in Nat \ {0} |-> [X \in S |-> IF i <= n THEN X \o ss[i] ELSE X]]
  <2>1. Recursion(S, base, below, step)
    <3>1. base \in S
      BY EmptySeq
    <3>2. below \in [Nat \ {0} -> Nat] /\ \A i \in Nat \ {0} : below[i] < i
      OBVIOUS
    <3>3. \A i \in Nat \ {0} : \A X \in S : (IF i <= n THEN X \o ss[i] ELSE X) \in S
      <4> TAKE i \in Nat \ {0}
      <4> TAKE X \in S
      <4>1. CASE i <= n
        <5>1. ss[i] \in Seq(Nat)
          BY <4>1
        <5> QED BY <4>1, <5>1, ConcatProperties
      <4>2. CASE ~ (i <= n)
        BY <4>2
      <4> QED BY <4>1, <4>2
    <3>4. step \in [Nat \ {0} -> [S -> S]]
      <4> HIDE DEF S
      <4> QED BY <3>3
    <3> HIDE DEF S, base, below, step
    <3> QED BY <3>1, <3>2, <3>4 DEF Recursion
  <2>2. PICK g : Computes(g, S, base, below, step)
    <3> HIDE DEF S, base, below, step
    <3> QED BY <2>1, NatRecursion
  <2> DEFINE f == [i \in 1..n |-> g[i]]
  <2>3. ASSUME NEW i \in 1..n PROVE g[i] = IF i = 1 THEN ss[i] ELSE f[i - 1] \o ss[i]
    <3>1. g[i] = step[i][g[below[i]]] /\ g[below[i]] \in S /\ g[0] = <<>>
      <4>1. i \in Nat \ {0} /\ below[i] \in Nat
        OBVIOUS
      <4> HIDE DEF below, step
      <4> QED BY <2>2, <4>1 DEF Computes
    <3>2. below[i] = i - 1
      OBVIOUS
    <3>3. g[i] = g[i - 1] \o ss[i]
      <4> DEFINE X == g[i - 1]
      <4>1. X \in S /\ g[i] = step[i][X]
        BY <3>1, <3>2
      <4>2. step[i][X] = X \o ss[i]
        <5>1. i \in Nat \ {0} /\ i <= n
          OBVIOUS
        <5> HIDE DEF X, S
        <5> QED BY <4>1, <5>1
      <4> QED BY <4>1, <4>2
    <3>4. CASE i = 1
      <4>1. ss[i] \in Seq(Nat) /\ g[i] = <<>> \o ss[i]
        <5>1. g[i - 1] = <<>>
          <6>1. i - 1 = 0
            BY <3>4
          <6> QED BY <3>1, <6>1
        <5> QED BY <3>3, <5>1
      <4> QED BY <3>4, <4>1, ConcatEmptySeq
    <3>5. CASE i # 1
      <4>1. i - 1 \in 1..n
        BY <3>5
      <4>2. f[i - 1] = g[i - 1]
        <5> DEFINE j == i - 1
        <5> HIDE DEF j
        <5>1. f[j] = g[j]
          BY <4>1 DEF j
        <5> QED BY <5>1 DEF j
      <4> HIDE DEF f
      <4> QED BY <3>3, <3>5, <4>2
    <3> QED BY <3>4, <3>5
  <2>4. f = G(f)
    <3>1. \A i \in 1..n : f[i] = G(f)[i]
      <4> TAKE i \in 1..n
      <4> HIDE DEF f
      <4>1. f[i] = g[i]
        BY DEF f
      <4> QED BY <1>0, <2>3, <4>1
    <3>2. f = [i \in 1..n |-> f[i]]
      BY DEF f
    <3>3. G(f) = [i \in 1..n |-> G(f)[i]]
      BY <1>0
    <3> HIDE DEF f, G
    <3> QED BY <3>1, <3>2, <3>3
  <2> HIDE DEF f
  <2>5. h = G(h)
    <3> HIDE DEF G
    <3> QED BY <2>4
  <2>6. FlattenSeq(ss) = h[n]
    BY <1>0, <1>2 DEF FlattenSeq
  <2> HIDE DEF h
  <2>7. \A i \in 1..n : h[i] = IF i = 1 THEN ss[i] ELSE h[i - 1] \o ss[i]
    BY <1>0, <2>5
  <2> HIDE DEF G
  <2> DEFINE P == {i \in Nat : i \in 1..n => Reads(h[i], SubSeq(cs, 1, i))}
  <2>8. 0 \in P
    OBVIOUS
  <2>9. ASSUME NEW i \in Nat, i \in P PROVE i + 1 \in P
    <3> DEFINE k == i + 1
    <3> SUFFICES ASSUME k \in 1..n PROVE Reads(h[k], SubSeq(cs, 1, k))
      OBVIOUS
    <3>1. CASE i = 0
      <4>1. h[1] = ss[1] /\ k = 1 /\ 1 \in 1..n
        BY <2>7, <3>1
      <4>2. SubSeq(cs, 1, 1) = <<cs[1]>>
        BY <4>1, SubSeqOne
      <4> QED BY <4>1, <4>2
    <3>2. CASE i # 0
      <4>1. i \in 1..n /\ k - 1 = i /\ k # 1 /\ k \in 1..Len(cs) /\ 1 \in 1..Len(cs) /\ k \in 1..Len(cs)
        BY <1>2, <3>2
      <4>2. h[k] = h[i] \o ss[k]
        BY <2>7, <4>1
      <4>3. Reads(h[i], SubSeq(cs, 1, i))
        BY <2>9, <4>1
      <4>4. SubSeq(cs, 1, k) = SubSeq(cs, 1, i) \o <<cs[k]>>
        <5> HIDE DEF k
        <5> QED BY <4>1, SubSeqRecursiveSecond
      <4>5. Reads(ss[k], <<cs[k]>>)
        BY <4>1
      <4> HIDE DEF k
      <4> QED BY <4>2, <4>3, <4>4, <4>5, ReadsConcat
    <3> QED BY <3>1, <3>2
  <2>10. n \in P
    <3> HIDE DEF P
    <3> QED BY <2>8, <2>9, NatSetInduction
  <2>11. SubSeq(cs, 1, n) = cs
    BY SubSeqFull
  <2>12. Reads(h[n], SubSeq(cs, 1, n))
    <3>1. n \in 1..n
      BY <1>2
    <3> QED BY <2>10, <3>1
  <2> QED BY <2>6, <2>11, <2>12
<1> QED BY <1>1, <1>2

\* The sequences with one member of each of the sets D[1], ..., D[n].
Chosen(D, n) == {f \in [1..n -> UNION {D[i] : i \in 1..n}] : \A i \in 1..n : f[i] \in D[i]}

\* If every element decodes to one value, the list decodes to the one list of them.
LEMMA EachOnly ==
    ASSUME NEW n \in Nat, NEW S, NEW vs \in Seq(S), Len(vs) = n,
           NEW D, \A i \in 1..n : D[i] = {vs[i]}
    PROVE  Chosen(D, n) = {vs}
<1> DEFINE R == UNION {D[i] : i \in 1..n}
           F == {f \in [1..n -> R] : \A i \in 1..n : f[i] \in D[i]}
<1>1. vs \in [1..n -> S]
  BY LenProperties
<1>2. vs \in F
  <2>1. \A i \in 1..n : vs[i] \in R
    OBVIOUS
  <2> HIDE DEF R
  <2> QED BY <1>1, <2>1
<1>3. \A f \in F : f = vs
  <2> TAKE f \in F
  <2>1. f \in [1..n -> R] /\ \A i \in 1..n : f[i] = vs[i]
    OBVIOUS
  <2> HIDE DEF R, F
  <2> QED BY <1>1, <2>1
<1> HIDE DEF F
<1>4. F = {vs}
  BY <1>2, <1>3
<1> QED BY <1>4 DEF F, Chosen

-----------------------------------------------------------------------------
(* Optional fields.                                                         *)

\* cs is the elements of O, whose tags are different.
Lists(cs, O) ==
    /\ \A i \in 1..Len(cs) : cs[i] \in O
    /\ \A y \in O : \E i \in 1..Len(cs) : cs[i] = y
    /\ \A i, j \in 1..Len(cs) : cs[i].tag = cs[j].tag => i = j

\* d is the octets of the elements pre and those of O behind them.
Carries(d, pre, O) ==
    /\ pre \in Seq(WireItems)
    /\ \E cs \in Seq(WireItems) : Reads(d, pre \o cs) /\ Lists(cs, O)

\* e is the octets of the one element of X, or of nothing.
Holds(e, X) ==
    \/ X = {} /\ e = <<>>
    \/ \E x \in WireItems : X = {x} /\ Reads(e, <<x>>)

\* Elements without optional ones behind them.
LEMMA CarriesNone ==
    ASSUME NEW d, NEW pre, Reads(d, pre)
    PROVE  Carries(d, pre, {})
<1>1. pre \in Seq(WireItems) /\ <<>> \in Seq(WireItems)
  BY DEF Reads
<1>2. pre \o <<>> = pre
  BY <1>1, ConcatEmptySeq
<1>3. Lists(<<>>, {})
  <2>1. Len(<<>>) = 0
    OBVIOUS
  <2>2. \A i \in 1..0 : FALSE
    OBVIOUS
  <2> QED BY <2>1, <2>2 DEF Lists
<1> QED BY <1>1, <1>2, <1>3 DEF Carries

\* One more optional element, with a tag of its own.
LEMMA ListsMore ==
    ASSUME NEW cs \in Seq(WireItems), NEW O, Lists(cs, O), NEW x \in WireItems,
           \A y \in O : y.tag # x.tag
    PROVE  cs \o <<x>> \in Seq(WireItems) /\ Lists(cs \o <<x>>, O \cup {x})
<1> DEFINE s == <<x>>
           u == cs \o s
           n == Len(cs)
<1>1. s \in Seq(WireItems) /\ Len(s) = 1 /\ s[1] = x
  OBVIOUS
<1> HIDE DEF s
<1>2. /\ u \in Seq(WireItems) /\ Len(u) = n + Len(s)
      /\ \A i \in 1..(n + Len(s)) : u[i] = IF i <= n THEN cs[i] ELSE s[i - n]
  BY <1>1, ConcatProperties
<1>3. n \in Nat
  BY LenProperties
<1> HIDE DEF u, n
<1>4. Len(u) = n + 1 /\ u[n + 1] = x /\ \A i \in 1..n : u[i] = cs[i]
  <2>1. Len(u) = n + 1
    BY <1>1, <1>2
  <2>2. u[n + 1] = x
    <3>1. n + 1 \in 1..(n + Len(s)) /\ ~ (n + 1 <= n) /\ (n + 1) - n = 1
      BY <1>1, <1>3
    <3> QED BY <1>1, <1>2, <3>1
  <2>3. ASSUME NEW i \in 1..n PROVE u[i] = cs[i]
    <3>1. i \in 1..(n + Len(s)) /\ i <= n
      BY <1>1, <1>3
    <3> QED BY <1>2, <3>1
  <2> QED BY <2>1, <2>2, <2>3
<1>5. /\ \A i \in 1..n : cs[i] \in O
      /\ \A y \in O : \E i \in 1..n : cs[i] = y
      /\ \A i, j \in 1..n : cs[i].tag = cs[j].tag => i = j
  BY DEF Lists, n
<1>6. \A i \in 1..(n + 1) : i \in 1..n \/ i = n + 1
  BY <1>3
<1>7. n + 1 \in 1..(n + 1) /\ \A i \in 1..n : i \in 1..(n + 1)
  BY <1>3
<1> DEFINE m == n + 1
<1> HIDE DEF m
<1>8. \A i \in 1..m : u[i] \in O \cup {x}
  BY <1>4, <1>5, <1>6 DEF m
<1>9. \A y \in O \cup {x} : \E i \in 1..m : u[i] = y
  BY <1>4, <1>5, <1>7 DEF m
<1>10. ASSUME NEW i \in 1..m, NEW j \in 1..m, u[i].tag = u[j].tag PROVE i = j
  <2>1. CASE i \in 1..n /\ j \in 1..n
    BY <1>4, <1>5, <1>10, <2>1
  <2>2. CASE i \in 1..n /\ j = m
    <3>1. u[i] \in O /\ u[j] = x
      BY <1>4, <1>5, <2>2 DEF m
    <3> QED BY <1>10, <3>1
  <2>3. CASE i = m /\ j \in 1..n
    <3>1. u[j] \in O /\ u[i] = x
      BY <1>4, <1>5, <2>3 DEF m
    <3> QED BY <1>10, <3>1
  <2>4. CASE i = m /\ j = m
    BY <2>4
  <2> QED BY <1>6, <2>1, <2>2, <2>3, <2>4 DEF m
<1>11. Lists(u, O \cup {x})
  BY <1>4, <1>8, <1>9, <1>10 DEF Lists, m
<1> QED BY <1>2, <1>11 DEF u, s

\* One more optional field, encoded or left out.
LEMMA CarriesMore ==
    ASSUME NEW d, NEW pre, NEW O, Carries(d, pre, O), NEW e, NEW X, Holds(e, X),
           \A x \in X, y \in O : y.tag # x.tag
    PROVE  Carries(d \o e, pre, O \cup X)
<1>1. PICK cs \in Seq(WireItems) : Reads(d, pre \o cs) /\ Lists(cs, O)
  BY DEF Carries
<1>2. pre \in Seq(WireItems) /\ d \in Seq(Nat)
  BY <1>1 DEF Carries, Reads
<1>3. CASE X = {} /\ e = <<>>
  <2>1. d \o e = d /\ O \cup X = O
    BY <1>2, <1>3, ConcatEmptySeq
  <2> QED BY <2>1
<1>4. CASE \E x \in WireItems : X = {x} /\ Reads(e, <<x>>)
  <2>1. PICK x \in WireItems : X = {x} /\ Reads(e, <<x>>)
    BY <1>4
  <2>2. cs \o <<x>> \in Seq(WireItems) /\ Lists(cs \o <<x>>, O \cup {x})
    BY <1>1, <2>1, ListsMore
  <2>3. Reads(d \o e, (pre \o cs) \o <<x>>)
    BY <1>1, <2>1, ReadsConcat
  <2>4. (pre \o cs) \o <<x>> = pre \o (cs \o <<x>>)
    <3>1. <<x>> \in Seq(WireItems)
      OBVIOUS
    <3> QED BY <1>2, <3>1, ConcatAssociative
  <2> QED BY <1>2, <2>1, <2>2, <2>3, <2>4 DEF Carries
<1> QED BY <1>3, <1>4 DEF Holds

\* The same of the elements that a decoder sees.
Behind(ts, from, O) ==
    /\ \A i \in from..Len(ts) : \E y \in O : Alike(ts[i], y)
    /\ \A y \in O : \E i \in from..Len(ts) : Alike(ts[i], y)
    /\ \A i, j \in from..Len(ts) : ts[i].tag = ts[j].tag => i = j

\* What a decoder sees of positional and optional elements.
LEMMA CarriesShown ==
    ASSUME NEW d, NEW pre, NEW O, Carries(d, pre, O)
    PROVE  /\ d \in Seq(Nat)
           /\ Short(d) => \E ts :
                 /\ Sees(d, ts, Len(ts)) /\ Len(ts) >= Len(pre) /\ Len(pre) \in Nat /\ Len(ts) \in Nat
                 /\ \A i \in 1..Len(pre) : Alike(ts[i], pre[i])
                 /\ Behind(ts, Len(pre) + 1, O)
<1>1. PICK cs \in Seq(WireItems) : Reads(d, pre \o cs) /\ Lists(cs, O)
  BY DEF Carries
<1>2. d \in Seq(Nat)
  BY <1>1 DEF Reads
<1> SUFFICES ASSUME Short(d)
             PROVE  \E ts :
                       /\ Sees(d, ts, Len(ts)) /\ Len(ts) >= Len(pre) /\ Len(pre) \in Nat /\ Len(ts) \in Nat
                       /\ \A i \in 1..Len(pre) : Alike(ts[i], pre[i])
                       /\ Behind(ts, Len(pre) + 1, O)
  BY <1>2
<1> DEFINE bs == pre \o cs
           n == Len(pre)
           m == Len(cs)
<1>3. pre \in Seq(WireItems)
  BY DEF Carries
<1>4. /\ Len(bs) = n + m /\ n \in Nat /\ m \in Nat
      /\ \A i \in 1..(n + m) : bs[i] = IF i <= n THEN pre[i] ELSE cs[i - n]
  BY <1>3, ConcatProperties, LenProperties
<1> HIDE DEF bs
<1>5. PICK ts : Sees(d, ts, Len(bs)) /\ \A i \in 1..Len(bs) : Alike(ts[i], bs[i])
  <2>1. Reads(d, bs)
    BY <1>1 DEF bs
  <2> QED BY <2>1, ReadsShown
<1> HIDE DEF n, m
<1>6. \A i \in 1..n : Alike(ts[i], pre[i])
  <2> TAKE i \in 1..n
  <2>1. i \in 1..(n + m) /\ i <= n
    BY <1>4
  <2> QED BY <1>4, <1>5, <2>1
<1>7. ASSUME NEW i \in (n + 1)..(n + m)
      PROVE  i - n \in 1..m /\ Alike(ts[i], cs[i - n])
  <2>1. i \in 1..(n + m) /\ ~ (i <= n) /\ i - n \in 1..m
    BY <1>4
  <2>2. bs[i] = cs[i - n] /\ Alike(ts[i], bs[i])
    BY <1>4, <1>5, <2>1
  <2> QED BY <2>1, <2>2
<1>8. ASSUME NEW k \in 1..m PROVE k + n \in (n + 1)..(n + m) /\ (k + n) - n = k
  BY <1>4
<1>9. /\ \A i \in 1..m : cs[i] \in O
      /\ \A y \in O : \E i \in 1..m : cs[i] = y
      /\ \A i, j \in 1..m : cs[i].tag = cs[j].tag => i = j
  BY <1>1 DEF Lists, m
<1>10. \A i \in (n + 1)..(n + m) : \E y \in O : Alike(ts[i], y)
  BY <1>7, <1>9
<1>11. \A y \in O : \E i \in (n + 1)..(n + m) : Alike(ts[i], y)
  <2> TAKE y \in O
  <2>1. PICK k \in 1..m : cs[k] = y
    BY <1>9
  <2> DEFINE i == k + n
  <2>2. i \in (n + 1)..(n + m) /\ i - n = k
    BY <1>8
  <2> HIDE DEF i
  <2>3. Alike(ts[i], cs[i - n])
    BY <1>7, <2>2
  <2> QED BY <2>1, <2>2, <2>3
<1>12. ASSUME NEW i \in (n + 1)..(n + m), NEW j \in (n + 1)..(n + m), ts[i].tag = ts[j].tag
       PROVE  i = j
  <2>1. i - n \in 1..m /\ j - n \in 1..m /\ Alike(ts[i], cs[i - n]) /\ Alike(ts[j], cs[j - n])
    BY <1>7
  <2> DEFINE a == i - n
             b == j - n
  <2>2. (a = b) => (i = j)
    BY <1>4
  <2> HIDE DEF a, b
  <2>3. a \in 1..m /\ b \in 1..m /\ cs[a].tag = cs[b].tag
    BY <1>12, <2>1 DEF Alike, a, b
  <2> QED BY <1>9, <2>2, <2>3
<1>13. Behind(ts, n + 1, O)
  <2>1. Len(ts) = n + m
    BY <1>4, <1>5 DEF Sees
  <2> QED BY <1>10, <1>11, <1>12, <2>1 DEF Behind
<1>14. Len(ts) >= n /\ Len(ts) \in Nat /\ n \in Nat /\ Sees(d, ts, Len(ts))
  BY <1>4, <1>5 DEF Sees
<1> QED BY <1>6, <1>13, <1>14 DEF n

\* The positions of the optional elements with a tag.
Tagged(ts, from, tag) == {i \in from..Len(ts) : ts[i].tag = tag}

\* Where the last of them is.
LEMMA OptionalAt ==
    ASSUME NEW ts, NEW from \in Nat, Len(ts) \in Nat, NEW O, Behind(ts, from, O), NEW tag
    PROVE  /\ (\A y \in O : y.tag # tag) => Tagged(ts, from, tag) = {}
           /\ \A y \in O : y.tag = tag =>
                 Tagged(ts, from, tag) # {} /\ Alike(ts[Max(Tagged(ts, from, tag))], y)
<1> DEFINE at == Tagged(ts, from, tag)
<1>1. ASSUME \A y \in O : y.tag # tag PROVE at = {}
  BY <1>1 DEF Behind, Alike, Tagged
<1>2. ASSUME NEW y \in O, y.tag = tag
      PROVE  at # {} /\ Alike(ts[Max(at)], y)
  <2>1. PICK k \in from..Len(ts) : Alike(ts[k], y)
    BY DEF Behind
  <2>2. at = {k}
    BY <1>2, <2>1 DEF Behind, Alike, Tagged
  <2>3. Max(at) = k
    <3>1. k \in Int
      OBVIOUS
    <3>2. k >= k
      BY <3>1
    <3> QED BY <2>2, <3>2 DEF Max
  <2> QED BY <2>1, <2>2, <2>3
<1> QED BY <1>1, <1>2

-----------------------------------------------------------------------------
(* The choices.                                                             *)

Octets == Seq(Nat)
Longs  == Signed(LongOctets)

PointerTypes ==
    [kind : {"absolute"}, absolute : Octets]
    \cup [kind : {"offset"}, offset : Longs]
    \cup [kind : {"none"}]

Numbers(k) == [kind : {k}, number : NumberRange(k)]

ValueTypes ==
    [kind : {"octetString"}, octets : Octets]
    \cup [kind : {"real"}, real : [1..RealOctets -> Nat]]
    \cup [kind : {"noValue"}]
    \cup UNION {Numbers(k) : k \in {"integer32", "unsigned32", "counter32", "counter64", "timeTicks"}}

MethodTypes ==
    [kind : {"min", "max", "mean", "stdDev"}]
    \cup [kind : {"percentile"}, percentile : Longs]

ModeTypes ==
    [kind : {"once"}]
    \cup [kind : {"interval"}, interval : Longs]
    \cup [kind : {"onChange"}]

\* d is one element of the context class, if an int can count its octets.
Only(d, tag, c) ==
    /\ d \in Seq(Nat)
    /\ Short(d) => {u \in ReadOnly(d) : u.class = Context} = {Whole(Context, tag, c)}

\* What Primitive, Explicit and Integer write is the one element of its octets.
LEMMA OnlyElements ==
    ASSUME NEW tag \in 0..30
    PROVE  /\ \A c \in Seq(Nat) : Only(Primitive(tag, c), tag, c) /\ Only(Explicit(tag, c), tag, c)
           /\ \A v \in Longs \cup Unsigned(LongOctets) : Only(Integer(tag, v), tag, TwosComplement(v))
<1>1. ASSUME NEW c \in Seq(Nat), NEW form \in {0, 32} PROVE Only(TLV(2, form, tag, c), tag, c)
  <2>1. 2 \in 0..3
    OBVIOUS
  <2>2. Single(TLV(2, form, tag, c), Whole(2, tag, c))
    BY <2>1, ReadsTLV
  <2>3. Whole(2, tag, c).class = 2
    BY DEF Whole
  <2>4. {u \in {Whole(2, tag, c)} : u.class = 2} = {Whole(2, tag, c)}
    BY <2>3
  <2> QED BY <2>2, <2>4 DEF Only, Context, Single
<1>2. ASSUME NEW c \in Seq(Nat)
      PROVE  Only(Primitive(tag, c), tag, c) /\ Only(Explicit(tag, c), tag, c)
  <2>1. 0 \in {0, 32} /\ 32 \in {0, 32}
    OBVIOUS
  <2> QED BY <1>1, <2>1 DEF Primitive, Explicit, Context, Constructed
<1>3. ASSUME NEW v \in Longs \cup Unsigned(LongOctets)
      PROVE  Only(Integer(tag, v), tag, TwosComplement(v))
  <2>1. TwosComplement(v) \in Seq(Nat)
    BY IntegerContent DEF Longs
  <2> QED BY <1>2, <2>1 DEF Integer
<1> QED BY <1>2, <1>3

\* DecodeNodePointer of one element.
LEMMA PointerOf ==
    ASSUME NEW d, Short(d), NEW tag, NEW c, Only(d, tag, c)
    PROVE  DecodeNodePointer(d) =
             CASE tag = 0 -> {[kind |-> "absolute", absolute |-> c]}
               [] tag = 1 -> {[kind |-> "offset", offset |-> v] : v \in DecodeInt64(c)}
               [] tag = 2 -> {[kind |-> "none"]}
               [] OTHER   -> {}
<1> DEFINE x == Whole(Context, tag, c)
           D(g, b) == CASE g = 0 -> {[kind |-> "absolute", absolute |-> b]}
                        [] g = 1 -> {[kind |-> "offset", offset |-> v] : v \in DecodeInt64(b)}
                        [] g = 2 -> {[kind |-> "none"]}
                        [] OTHER -> {}
<1>1. DecodeNodePointer(d) = UNION {D(t.tag, t.content) : t \in {x}}
  BY DEF DecodeNodePointer, Alternative, Only
<1>2. x.tag = tag /\ x.content = c
  BY DEF Whole
<1> HIDE DEF x, D
<1>3. DecodeNodePointer(d) = D(tag, c)
  BY <1>1, <1>2
<1> QED BY <1>3 DEF D

\* encodeNodePointer and decodeNodePointer: every pointer comes back.
LEMMA NodePointerRoundTrip ==
    ASSUME NEW p \in PointerTypes
    PROVE  /\ EncodeNodePointer(p) \in Seq(Nat)
           /\ Short(EncodeNodePointer(p)) => DecodeNodePointer(EncodeNodePointer(p)) = {p}
<1> DEFINE d == EncodeNodePointer(p)
<1>0. 0 \in 0..30 /\ 1 \in 0..30 /\ 2 \in 0..30
  OBVIOUS
<1>1. CASE p \in [kind : {"absolute"}, absolute : Octets]
  <2>1. p.kind = "absolute" /\ p.absolute \in Seq(Nat) /\ p = [kind |-> "absolute", absolute |-> p.absolute]
    BY <1>1 DEF Octets
  <2>2. d = Primitive(0, p.absolute)
    BY <2>1 DEF EncodeNodePointer
  <2>3. Only(d, 0, p.absolute)
    BY <1>0, <2>1, <2>2, OnlyElements
  <2> HIDE DEF d
  <2>4. Short(d) => DecodeNodePointer(d) = {[kind |-> "absolute", absolute |-> p.absolute]}
    BY <2>3, PointerOf
  <2> QED BY <2>1, <2>3, <2>4 DEF Only, d
<1>2. CASE p \in [kind : {"offset"}, offset : Longs]
  <2>1. p.kind = "offset" /\ p.offset \in Longs /\ p = [kind |-> "offset", offset |-> p.offset]
    BY <1>2
  <2>2. d = Integer(1, p.offset)
    BY <2>1 DEF EncodeNodePointer
  <2>3. Only(d, 1, TwosComplement(p.offset))
    BY <1>0, <2>1, <2>2, OnlyElements
  <2> HIDE DEF d
  <2>4. Short(d) => DecodeNodePointer(d) = {[kind |-> "offset", offset |-> v] : v \in DecodeInt64(TwosComplement(p.offset))}
    BY <2>3, PointerOf
  <2>5. DecodeInt64(TwosComplement(p.offset)) = {p.offset}
    BY <2>1, IntegerContent DEF Longs
  <2> QED BY <2>1, <2>3, <2>4, <2>5 DEF Only, d
<1>3. CASE p \in [kind : {"none"}]
  <2>1. p.kind = "none" /\ p = [kind |-> "none"]
    BY <1>3
  <2>2. d = Primitive(2, <<>>)
    BY <2>1 DEF EncodeNodePointer
  <2>3. Only(d, 2, <<>>)
    BY <1>0, <2>2, OnlyElements, EmptySeq
  <2> HIDE DEF d
  <2>4. Short(d) => DecodeNodePointer(d) = {[kind |-> "none"]}
    BY <2>3, PointerOf
  <2> QED BY <2>1, <2>3, <2>4 DEF Only, d
<1> QED BY <1>1, <1>2, <1>3 DEF PointerTypes

\* The numbers of the narrow kinds are numbers of the wide ones.
LEMMA NarrowNumbers ==
    Signed(WordOctets) \subseteq Longs /\ Unsigned(WordOctets) \subseteq Unsigned(LongOctets)
<1> DEFINE w == Power[WordOctets]
           l == Power[LongOctets]
<1>1. WordOctets \in Nat /\ LongOctets \in Nat /\ WordOctets <= LongOctets
  BY WidthAssumption
<1>2. w \in Nat /\ l \in Nat /\ w <= l
  BY <1>1, PowerSpec, PowerMonotone
<1> HIDE DEF w, l
<1>3. w \div 2 \in Nat /\ l \div 2 \in Nat /\ w \div 2 <= l \div 2
  BY <1>2
<1>4. Signed(WordOctets) = -(w \div 2)..(w \div 2 - 1) /\ Longs = -(l \div 2)..(l \div 2 - 1)
  BY DEF Signed, Longs, w, l
<1>5. Unsigned(WordOctets) = 0..(w - 1) /\ Unsigned(LongOctets) = 0..(l - 1)
  BY DEF Unsigned, w, l
<1> QED BY <1>2, <1>3, <1>4, <1>5

\* The numeric kinds, by tag.
LEMMA NumberKinds ==
    /\ DOMAIN NumberKind = 1..5
    /\ NumberKind[1] = "integer32" /\ NumberKind[2] = "unsigned32" /\ NumberKind[3] = "counter32"
    /\ NumberKind[4] = "counter64" /\ NumberKind[5] = "timeTicks"
  BY DEF NumberKind

\* The tag of a numeric kind is the one it is decoded with.
LEMMA NumberTag ==
    ASSUME NEW t \in 1..5
    PROVE  (CHOOSE u \in DOMAIN NumberKind : NumberKind[u] = NumberKind[t]) = t
<1>1. ASSUME NEW u \in 1..5, NumberKind[u] = NumberKind[t] PROVE u = t
  <2>1. u \in {1, 2, 3, 4, 5} /\ t \in {1, 2, 3, 4, 5}
    OBVIOUS
  <2> QED BY <1>1, <2>1, NumberKinds
<1>2. DOMAIN NumberKind = 1..5
  BY NumberKinds
<1> DEFINE c == CHOOSE u \in DOMAIN NumberKind : NumberKind[u] = NumberKind[t]
<1>3. c \in 1..5 /\ NumberKind[c] = NumberKind[t]
  BY <1>2
<1> QED BY <1>1, <1>3

\* DecodeNodeValue of one element.
LEMMA ValueOf ==
    ASSUME NEW d, Short(d), NEW tag, NEW c, Only(d, tag, c)
    PROVE  DecodeNodeValue(d) =
             CASE tag \in 0..4 -> DecodeNumber(NumberKind[tag + 1], c)
               [] tag = 5 -> {[kind |-> "octetString", octets |-> c]}
               [] tag = 6 -> IF Len(c) = RealOctets
                             THEN {[kind |-> "real", real |-> c]} ELSE {}
               [] tag = 7 -> {[kind |-> "noValue"]}
               [] OTHER   -> {}
<1> DEFINE x == Whole(Context, tag, c)
           D(g, b) == CASE g \in 0..4 -> DecodeNumber(NumberKind[g + 1], b)
                        [] g = 5 -> {[kind |-> "octetString", octets |-> b]}
                        [] g = 6 -> IF Len(b) = RealOctets
                                    THEN {[kind |-> "real", real |-> b]} ELSE {}
                        [] g = 7 -> {[kind |-> "noValue"]}
                        [] OTHER -> {}
<1>1. DecodeNodeValue(d) = UNION {D(t.tag, t.content) : t \in {x}}
  BY DEF DecodeNodeValue, Alternative, Only
<1>2. x.tag = tag /\ x.content = c
  BY DEF Whole
<1> HIDE DEF x, D
<1>3. DecodeNodeValue(d) = D(tag, c)
  BY <1>1, <1>2
<1> QED BY <1>3 DEF D

\* A number of a kind's range passes the range check that it is decoded with.
LEMMA NumberRoundTrip ==
    ASSUME NEW t \in 1..5, NEW v \in Numbers(NumberKind[t])
    PROVE  /\ EncodeNodeValue(v) \in Seq(Nat)
           /\ Short(EncodeNodeValue(v)) => DecodeNodeValue(EncodeNodeValue(v)) = {v}
<1> DEFINE k == NumberKind[t]
           g == t - 1
           n == v.number
           d == EncodeNodeValue(v)
<1>1. v.kind = k /\ n \in NumberRange(k) /\ v = [kind |-> k, number |-> n]
  BY DEF Numbers
<1>2. k # "octetString" /\ k # "real" /\ k # "noValue"
  <2>1. t \in {1, 2, 3, 4, 5}
    OBVIOUS
  <2> QED BY <2>1, NumberKinds
<1>3. g \in 0..4 /\ g \in 0..30 /\ g + 1 = t
  OBVIOUS
<1>4. d = Integer(g, n)
  <2>1. (CHOOSE u \in DOMAIN NumberKind : NumberKind[u] = v.kind) = t
    BY <1>1, NumberTag
  <2> HIDE DEF k
  <2>2. EncodeNodeValue(v) = LET u == CHOOSE u \in DOMAIN NumberKind : NumberKind[u] = v.kind
                             IN  Integer(u - 1, v.number)
    BY <1>1, <1>2 DEF EncodeNodeValue
  <2> QED BY <2>1, <2>2
<1>5. /\ n \in Longs \cup Unsigned(LongOctets)
      /\ IF k = "integer32" THEN n \in Longs ELSE n \in Unsigned(LongOctets)
  <2> HIDE DEF k, n
  <2> QED BY <1>1, NarrowNumbers DEF NumberRange
<1> HIDE DEF n, g
<1>6. Only(d, g, TwosComplement(n))
  BY <1>3, <1>4, <1>5, OnlyElements
<1> HIDE DEF d, k
<1>7. Short(d) => DecodeNodeValue(d) = DecodeNumber(k, TwosComplement(n))
  <2>1. NumberKind[g + 1] = k
    BY <1>3 DEF k
  <2> QED BY <1>3, <1>6, <2>1, ValueOf
<1>8. DecodeNumber(k, TwosComplement(n)) = {v}
  <2>1. (IF k = "integer32" THEN DecodeInt64(TwosComplement(n))
         ELSE DecodeUint64(TwosComplement(n))) = {n}
    BY <1>5, IntegerContent DEF Longs
  <2>2. {n} \cap NumberRange(k) = {n}
    BY <1>1
  <2>3. DecodeNumber(k, TwosComplement(n)) = {[kind |-> k, number |-> m] : m \in {n}}
    BY <2>1, <2>2 DEF DecodeNumber
  <2> QED BY <1>1, <2>3
<1> QED BY <1>6, <1>7, <1>8 DEF Only, d

\* encodeNodeValue and decodeNodeValue: every value comes back.
LEMMA NodeValueRoundTrip ==
    ASSUME NEW v \in ValueTypes
    PROVE  /\ EncodeNodeValue(v) \in Seq(Nat)
           /\ Short(EncodeNodeValue(v)) => DecodeNodeValue(EncodeNodeValue(v)) = {v}
<1> DEFINE d == EncodeNodeValue(v)
<1>0. 5 \in 0..30 /\ 6 \in 0..30 /\ 7 \in 0..30 /\ 5 \notin 0..4 /\ 6 \notin 0..4 /\ 7 \notin 0..4
  OBVIOUS
<1>1. CASE v \in [kind : {"octetString"}, octets : Octets]
  <2>1. /\ v.kind = "octetString" /\ v.octets \in Seq(Nat)
        /\ v = [kind |-> "octetString", octets |-> v.octets]
    BY <1>1 DEF Octets
  <2>2. d = Primitive(5, v.octets)
    BY <2>1 DEF EncodeNodeValue
  <2>3. Only(d, 5, v.octets)
    BY <1>0, <2>1, <2>2, OnlyElements
  <2> HIDE DEF d
  <2>4. Short(d) => DecodeNodeValue(d) = {[kind |-> "octetString", octets |-> v.octets]}
    BY <1>0, <2>3, ValueOf
  <2> QED BY <2>1, <2>3, <2>4 DEF Only, d
<1>2. CASE v \in [kind : {"real"}, real : [1..RealOctets -> Nat]]
  <2>1. /\ v.kind = "real" /\ v.real \in [1..RealOctets -> Nat]
        /\ v = [kind |-> "real", real |-> v.real]
    BY <1>2
  <2>2. v.real \in Seq(Nat) /\ Len(v.real) = RealOctets
    <3> DEFINE r == v.real
    <3>1. RealOctets \in Nat /\ r \in [1..RealOctets -> Nat]
      BY <2>1, RealAssumption
    <3> HIDE DEF r
    <3>2. r \in Seq(Nat)
      BY <3>1, SeqDef
    <3>3. Len(r) = RealOctets
      BY <3>1, <3>2, LenProperties
    <3> QED BY <3>2, <3>3 DEF r
  <2>3. d = Primitive(6, v.real)
    BY <2>1 DEF EncodeNodeValue
  <2>4. Only(d, 6, v.real)
    BY <1>0, <2>2, <2>3, OnlyElements
  <2> HIDE DEF d
  <2>5. Short(d) => DecodeNodeValue(d) = {[kind |-> "real", real |-> v.real]}
    BY <1>0, <2>2, <2>4, ValueOf
  <2> QED BY <2>1, <2>4, <2>5 DEF Only, d
<1>3. CASE v \in [kind : {"noValue"}]
  <2>1. v.kind = "noValue" /\ v = [kind |-> "noValue"]
    BY <1>3
  <2>2. d = Primitive(7, <<>>)
    BY <2>1 DEF EncodeNodeValue
  <2>3. Only(d, 7, <<>>)
    BY <1>0, <2>2, OnlyElements, EmptySeq
  <2> HIDE DEF d
  <2>4. Short(d) => DecodeNodeValue(d) = {[kind |-> "noValue"]}
    BY <1>0, <2>3, ValueOf
  <2> QED BY <2>1, <2>3, <2>4 DEF Only, d
<1>4. CASE v \in UNION {Numbers(k) : k \in {"integer32", "unsigned32", "counter32", "counter64", "timeTicks"}}
  <2>1. PICK t \in 1..5 : v \in Numbers(NumberKind[t])
    <3>1. 1 \in 1..5 /\ 2 \in 1..5 /\ 3 \in 1..5 /\ 4 \in 1..5 /\ 5 \in 1..5
      OBVIOUS
    <3>2. PICK k \in {"integer32", "unsigned32", "counter32", "counter64", "timeTicks"} : v \in Numbers(k)
      BY <1>4
    <3> QED BY <3>1, <3>2, NumberKinds
  <2> QED BY <2>1, NumberRoundTrip
<1> QED BY <1>1, <1>2, <1>3, <1>4 DEF ValueTypes

\* The methods without a parameter, by tag.
LEMMA PlainMethods ==
    /\ DOMAIN PlainMethod = 1..4
    /\ PlainMethod[1] = "min" /\ PlainMethod[2] = "max" /\ PlainMethod[3] = "mean"
    /\ PlainMethod[4] = "stdDev"
  BY DEF PlainMethod

\* The tag of such a method is the one it is decoded with.
LEMMA MethodTag ==
    ASSUME NEW t \in 1..4
    PROVE  (CHOOSE u \in DOMAIN PlainMethod : PlainMethod[u] = PlainMethod[t]) = t
<1>1. ASSUME NEW u \in 1..4, PlainMethod[u] = PlainMethod[t] PROVE u = t
  <2>1. u \in {1, 2, 3, 4} /\ t \in {1, 2, 3, 4}
    OBVIOUS
  <2> QED BY <1>1, <2>1, PlainMethods
<1>2. DOMAIN PlainMethod = 1..4
  BY PlainMethods
<1> DEFINE c == CHOOSE u \in DOMAIN PlainMethod : PlainMethod[u] = PlainMethod[t]
<1>3. c \in 1..4 /\ PlainMethod[c] = PlainMethod[t]
  BY <1>2
<1> QED BY <1>1, <1>3

\* DecodeAggregationMethod of one element.
LEMMA MethodOf ==
    ASSUME NEW d, Short(d), NEW tag, NEW c, Only(d, tag, c)
    PROVE  DecodeAggregationMethod(d) =
             CASE tag \in 0..3 -> {[kind |-> PlainMethod[tag + 1]]}
               [] tag = 4      -> DecodePercentile(c)
               [] OTHER        -> {}
<1> DEFINE x == Whole(Context, tag, c)
           D(g, b) == CASE g \in 0..3 -> {[kind |-> PlainMethod[g + 1]]}
                        [] g = 4      -> DecodePercentile(b)
                        [] OTHER      -> {}
<1>1. DecodeAggregationMethod(d) = UNION {D(t.tag, t.content) : t \in {x}}
  BY DEF DecodeAggregationMethod, Alternative, Only
<1>2. x.tag = tag /\ x.content = c
  BY DEF Whole
<1> HIDE DEF x, D
<1>3. DecodeAggregationMethod(d) = D(tag, c)
  BY <1>1, <1>2
<1> QED BY <1>3 DEF D

\* The other side takes the method.
Fits(m) == m.kind = "percentile" => m.percentile \in 0..100

\* A method comes back, unless it is a percentile that is none.
LEMMA MethodRoundTrip ==
    ASSUME NEW m \in MethodTypes
    PROVE  /\ EncodeAggregationMethod(m) \in Seq(Nat)
           /\ Short(EncodeAggregationMethod(m)) =>
                 DecodeAggregationMethod(EncodeAggregationMethod(m)) = IF Fits(m) THEN {m} ELSE {}
<1> DEFINE d == EncodeAggregationMethod(m)
<1>1. CASE m \in [kind : {"min", "max", "mean", "stdDev"}]
  <2>1. /\ m.kind \in {"min", "max", "mean", "stdDev"} /\ m = [kind |-> m.kind]
        /\ m.kind # "percentile"
    BY <1>1
  <2>2. PICK t \in 1..4 : PlainMethod[t] = m.kind
    <3>1. 1 \in 1..4 /\ 2 \in 1..4 /\ 3 \in 1..4 /\ 4 \in 1..4
      OBVIOUS
    <3> QED BY <2>1, <3>1, PlainMethods
  <2> DEFINE g == t - 1
  <2>3. g \in 0..3 /\ g \in 0..30 /\ g + 1 = t
    OBVIOUS
  <2>4. d = Primitive(g, <<>>)
    <3>1. (CHOOSE u \in DOMAIN PlainMethod : PlainMethod[u] = m.kind) = t
      BY <2>2, MethodTag
    <3> QED BY <2>1, <3>1 DEF EncodeAggregationMethod
  <2> HIDE DEF g
  <2>5. Only(d, g, <<>>)
    BY <2>3, <2>4, OnlyElements, EmptySeq
  <2> HIDE DEF d
  <2>6. Short(d) => DecodeAggregationMethod(d) = {[kind |-> m.kind]}
    BY <2>2, <2>3, <2>5, MethodOf
  <2>7. Fits(m)
    BY <2>1 DEF Fits
  <2> QED BY <2>1, <2>5, <2>6, <2>7 DEF Only, d
<1>2. CASE m \in [kind : {"percentile"}, percentile : Longs]
  <2> DEFINE p == m.percentile
  <2>1. m.kind = "percentile" /\ p \in Longs /\ m = [kind |-> "percentile", percentile |-> p]
    BY <1>2
  <2>2. d = Integer(4, p)
    BY <2>1 DEF EncodeAggregationMethod
  <2> HIDE DEF p
  <2>3. Only(d, 4, TwosComplement(p)) /\ 4 \notin 0..3
    <3>1. 4 \in 0..30
      OBVIOUS
    <3> QED BY <2>1, <2>2, <3>1, OnlyElements
  <2> HIDE DEF d
  <2>4. Short(d) => DecodeAggregationMethod(d) = DecodePercentile(TwosComplement(p))
    BY <2>3, MethodOf
  <2>5. DecodeInt64(TwosComplement(p)) = {p}
    BY <2>1, IntegerContent DEF Longs
  <2>6. Fits(m) <=> p \in 0..100
    BY <2>1 DEF Fits, p
  <2>7. CASE p \in 0..100
    <3>1. {p} \cap 0..100 = {p}
      BY <2>7
    <3>2. DecodePercentile(TwosComplement(p)) = {[kind |-> "percentile", percentile |-> q] : q \in {p}}
      BY <2>5, <3>1 DEF DecodePercentile
    <3> QED BY <2>1, <2>3, <2>4, <2>6, <2>7, <3>2 DEF Only, d
  <2>8. CASE p \notin 0..100
    <3>1. {p} \cap 0..100 = {}
      BY <2>8
    <3>2. DecodePercentile(TwosComplement(p)) = {[kind |-> "percentile", percentile |-> q] : q \in {}}
      BY <2>5, <3>1 DEF DecodePercentile
    <3> QED BY <2>3, <2>4, <2>6, <2>8, <3>2 DEF Only, d
  <2> QED BY <2>7, <2>8
<1> QED BY <1>1, <1>2 DEF MethodTypes

\* DecodeCollectionMode of one element.
LEMMA ModeOf ==
    ASSUME NEW d, Short(d), NEW tag, NEW c, Only(d, tag, c)
    PROVE  DecodeCollectionMode(d) =
             CASE tag = 0 -> {[kind |-> "once"]}
               [] tag = 1 -> {[kind |-> "interval", interval |-> v] : v \in DecodeInt64(c)}
               [] tag = 2 -> {[kind |-> "onChange"]}
               [] OTHER   -> {}
<1> DEFINE x == Whole(Context, tag, c)
           D(g, b) == CASE g = 0 -> {[kind |-> "once"]}
                        [] g = 1 -> {[kind |-> "interval", interval |-> v] : v \in DecodeInt64(b)}
                        [] g = 2 -> {[kind |-> "onChange"]}
                        [] OTHER -> {}
<1>1. DecodeCollectionMode(d) = UNION {D(t.tag, t.content) : t \in {x}}
  BY DEF DecodeCollectionMode, Alternative, Only
<1>2. x.tag = tag /\ x.content = c
  BY DEF Whole
<1> HIDE DEF x, D
<1>3. DecodeCollectionMode(d) = D(tag, c)
  BY <1>1, <1>2
<1> QED BY <1>3 DEF D

\* encodeCollectionMode and decodeCollectionMode: every mode comes back.
LEMMA ModeRoundTrip ==
    ASSUME NEW m \in ModeTypes
    PROVE  /\ EncodeCollectionMode(m) \in Seq(Nat)
           /\ Short(EncodeCollectionMode(m)) => DecodeCollectionMode(EncodeCollectionMode(m)) = {m}
<1> DEFINE d == EncodeCollectionMode(m)
<1>0. 0 \in 0..30 /\ 1 \in 0..30 /\ 2 \in 0..30
  OBVIOUS
<1>1. CASE m \in [kind : {"once"}]
  <2>1. m.kind = "once" /\ m = [kind |-> "once"]
    BY <1>1
  <2>2. d = Primitive(0, <<>>)
    BY <2>1 DEF EncodeCollectionMode
  <2>3. Only(d, 0, <<>>)
    BY <1>0, <2>2, OnlyElements, EmptySeq
  <2> HIDE DEF d
  <2>4. Short(d) => DecodeCollectionMode(d) = {[kind |-> "once"]}
    BY <2>3, ModeOf
  <2> QED BY <2>1, <2>3, <2>4 DEF Only, d
<1>2. CASE m \in [kind : {"interval"}, interval : Longs]
  <2>1. m.kind = "interval" /\ m.interval \in Longs /\ m = [kind |-> "interval", interval |-> m.interval]
    BY <1>2
  <2>2. d = Integer(1, m.interval)
    BY <2>1 DEF EncodeCollectionMode
  <2>3. Only(d, 1, TwosComplement(m.interval))
    BY <1>0, <2>1, <2>2, OnlyElements
  <2> HIDE DEF d
  <2>4. Short(d) => DecodeCollectionMode(d)
          = {[kind |-> "interval", interval |-> v] : v \in DecodeInt64(TwosComplement(m.interval))}
    BY <2>3, ModeOf
  <2>5. DecodeInt64(TwosComplement(m.interval)) = {m.interval}
    BY <2>1, IntegerContent DEF Longs
  <2> QED BY <2>1, <2>3, <2>4, <2>5 DEF Only, d
<1>3. CASE m \in [kind : {"onChange"}]
  <2>1. m.kind = "onChange" /\ m = [kind |-> "onChange"]
    BY <1>3
  <2>2. d = Primitive(2, <<>>)
    BY <2>1 DEF EncodeCollectionMode
  <2>3. Only(d, 2, <<>>)
    BY <1>0, <2>2, OnlyElements, EmptySeq
  <2> HIDE DEF d
  <2>4. Short(d) => DecodeCollectionMode(d) = {[kind |-> "onChange"]}
    BY <2>3, ModeOf
  <2> QED BY <2>1, <2>3, <2>4 DEF Only, d
<1> QED BY <1>1, <1>2, <1>3 DEF ModeTypes

-----------------------------------------------------------------------------
(* Sequences of elements.                                                   *)

\* A pair and a sequence of one.
LEMMA ConcatThird ==
    ASSUME NEW S, NEW a \in S, NEW b \in S, NEW c \in S
    PROVE  <<a, b>> \o <<c>> = <<a, b, c>>
<1> DEFINE s == <<a, b>>
           t == <<c>>
           u == s \o t
           v == <<a, b, c>>
<1>1. s \in Seq(S) /\ t \in Seq(S) /\ Len(s) = 2 /\ Len(t) = 1 /\ s[1] = a /\ s[2] = b /\ t[1] = c
  OBVIOUS
<1>2. v \in Seq(S) /\ Len(v) = 3 /\ v[1] = a /\ v[2] = b /\ v[3] = c
  OBVIOUS
<1> HIDE DEF s, t, v
<1>3. /\ u \in Seq(S) /\ Len(u) = Len(s) + Len(t)
      /\ \A i \in 1..(Len(s) + Len(t)) : u[i] = IF i <= Len(s) THEN s[i] ELSE t[i - Len(s)]
  BY <1>1, ConcatProperties
<1> HIDE DEF u
<1>4. Len(u) = 3 /\ u[1] = a /\ u[2] = b /\ u[3] = c
  BY <1>1, <1>3
<1>5. \A i \in 1..3 : u[i] = v[i]
  BY <1>2, <1>4
<1>6. u = v
  BY <1>2, <1>3, <1>4, <1>5, SeqEqual
<1> QED BY <1>6 DEF u, v, s, t

\* A triple and a sequence of one.
LEMMA ConcatFourth ==
    ASSUME NEW S, NEW a \in S, NEW b \in S, NEW c \in S, NEW d \in S
    PROVE  <<a, b, c>> \o <<d>> = <<a, b, c, d>>
<1> DEFINE s == <<a, b, c>>
           t == <<d>>
           u == s \o t
           v == <<a, b, c, d>>
<1>1. /\ s \in Seq(S) /\ t \in Seq(S) /\ Len(s) = 3 /\ Len(t) = 1
      /\ s[1] = a /\ s[2] = b /\ s[3] = c /\ t[1] = d
  OBVIOUS
<1>2. v \in Seq(S) /\ Len(v) = 4 /\ v[1] = a /\ v[2] = b /\ v[3] = c /\ v[4] = d
  OBVIOUS
<1> HIDE DEF s, t, v
<1>3. /\ u \in Seq(S) /\ Len(u) = Len(s) + Len(t)
      /\ \A i \in 1..(Len(s) + Len(t)) : u[i] = IF i <= Len(s) THEN s[i] ELSE t[i - Len(s)]
  BY <1>1, ConcatProperties
<1> HIDE DEF u
<1>4. Len(u) = 4 /\ u[1] = a /\ u[2] = b /\ u[3] = c /\ u[4] = d
  BY <1>1, <1>3
<1>5. \A i \in 1..4 : u[i] = v[i]
  BY <1>2, <1>4
<1>6. u = v
  BY <1>2, <1>3, <1>4, <1>5, SeqEqual
<1> QED BY <1>6 DEF u, v, s, t

\* One element behind two.
LEMMA ReadsThird ==
    ASSUME NEW d, NEW e, NEW a, NEW b, NEW c, Reads(d, <<a, b>>), Reads(e, <<c>>)
    PROVE  Reads(d \o e, <<a, b, c>>)
<1>1. Reads(d \o e, <<a, b>> \o <<c>>)
  BY ReadsConcat
<1>2. a \in WireItems /\ b \in WireItems /\ c \in WireItems
  <2>1. <<c>> \in Seq(WireItems) /\ <<a, b>> \in Seq(WireItems)
    BY DEF Reads
  <2> DEFINE s == <<a, b>>
  <2>2. Len(s) = 2 /\ s[1] = a /\ s[2] = b /\ s \in Seq(WireItems)
    BY <2>1
  <2> HIDE DEF s
  <2>3. 1 \in 1..Len(s) /\ 2 \in 1..Len(s)
    BY <2>2
  <2> QED BY <2>1, <2>2, <2>3, SingleElement, ElementOfSeq
<1>3. <<a, b>> \o <<c>> = <<a, b, c>>
  BY <1>2, ConcatThird
<1> QED BY <1>1, <1>3

\* One element behind three.
LEMMA ReadsFourth ==
    ASSUME NEW d, NEW e, NEW a, NEW b, NEW c, NEW f, Reads(d, <<a, b, c>>), Reads(e, <<f>>)
    PROVE  Reads(d \o e, <<a, b, c, f>>)
<1>1. Reads(d \o e, <<a, b, c>> \o <<f>>)
  BY ReadsConcat
<1>2. a \in WireItems /\ b \in WireItems /\ c \in WireItems /\ f \in WireItems
  <2>1. <<f>> \in Seq(WireItems) /\ <<a, b, c>> \in Seq(WireItems)
    BY DEF Reads
  <2> DEFINE s == <<a, b, c>>
  <2>2. Len(s) = 3 /\ s[1] = a /\ s[2] = b /\ s[3] = c /\ s \in Seq(WireItems)
    BY <2>1
  <2> HIDE DEF s
  <2>3. 1 \in 1..Len(s) /\ 2 \in 1..Len(s) /\ 3 \in 1..Len(s)
    BY <2>2
  <2> QED BY <2>1, <2>2, <2>3, SingleElement, ElementOfSeq
<1>3. <<a, b, c>> \o <<f>> = <<a, b, c, f>>
  BY <1>2, ConcatFourth
<1> QED BY <1>1, <1>3

\* What a decoder sees of four elements.
LEMMA SeesFour ==
    ASSUME NEW d, Short(d), NEW a, NEW b, NEW c, NEW e, Reads(d, <<a, b, c, e>>)
    PROVE  \E ts : /\ Sees(d, ts, 4) /\ Alike(ts[1], a) /\ Alike(ts[2], b)
                   /\ Alike(ts[3], c) /\ Alike(ts[4], e)
<1> DEFINE cs == <<a, b, c, e>>
<1>1. Len(cs) = 4 /\ cs[1] = a /\ cs[2] = b /\ cs[3] = c /\ cs[4] = e
  OBVIOUS
<1>2. Reads(d, cs)
  OBVIOUS
<1> HIDE DEF cs
<1>3. PICK ts : Sees(d, ts, Len(cs)) /\ \A i \in 1..Len(cs) : Alike(ts[i], cs[i])
  BY <1>2, ReadsShown
<1>4. \A i \in 1..4 : Alike(ts[i], cs[i])
  BY <1>1, <1>3
<1>5. 1 \in 1..4 /\ 2 \in 1..4 /\ 3 \in 1..4 /\ 4 \in 1..4
  OBVIOUS
<1> QED BY <1>1, <1>3, <1>4, <1>5

\* What a decoder sees of two elements.
LEMMA SeesTwo ==
    ASSUME NEW d, Short(d), NEW a, NEW b, Reads(d, <<a, b>>)
    PROVE  \E ts : Sees(d, ts, 2) /\ Alike(ts[1], a) /\ Alike(ts[2], b)
<1> DEFINE cs == <<a, b>>
<1>1. Len(cs) = 2 /\ cs[1] = a /\ cs[2] = b
  OBVIOUS
<1>2. Reads(d, cs)
  OBVIOUS
<1> HIDE DEF cs
<1>3. PICK ts : Sees(d, ts, Len(cs)) /\ \A i \in 1..Len(cs) : Alike(ts[i], cs[i])
  BY <1>2, ReadsShown
<1>4. \A i \in 1..2 : Alike(ts[i], cs[i])
  BY <1>1, <1>3
<1>5. 1 \in 1..2 /\ 2 \in 1..2
  OBVIOUS
<1> QED BY <1>1, <1>3, <1>4, <1>5

\* What a decoder sees of one element.
LEMMA SeesOne ==
    ASSUME NEW d, Short(d), NEW a, Reads(d, <<a>>)
    PROVE  \E ts : Sees(d, ts, 1) /\ Alike(ts[1], a)
<1> DEFINE cs == <<a>>
<1>1. Len(cs) = 1 /\ cs[1] = a
  OBVIOUS
<1>2. Reads(d, cs)
  OBVIOUS
<1> HIDE DEF cs
<1>3. PICK ts : Sees(d, ts, Len(cs)) /\ \A i \in 1..Len(cs) : Alike(ts[i], cs[i])
  BY <1>2, ReadsShown
<1>4. Alike(ts[1], cs[1])
  <2>1. 1 \in 1..Len(cs)
    BY <1>1
  <2> QED BY <1>3, <2>1
<1> QED BY <1>1, <1>3, <1>4

\* The elements of a list, each with its encoding.
LEMMA SeesList ==
    ASSUME NEW n \in Nat, NEW E, NEW cs, E = [i \in 1..n |-> E[i]], cs = [i \in 1..n |-> cs[i]],
           \A i \in 1..n : Reads(E[i], <<cs[i]>>)
    PROVE  /\ FlattenSeq(E) \in Seq(Nat)
           /\ Short(FlattenSeq(E)) =>
                 \E ts : Sees(FlattenSeq(E), ts, n) /\ \A i \in 1..n : Alike(ts[i], cs[i])
<1>1. \A i \in 1..n : E[i] \in Seq(Nat) /\ cs[i] \in WireItems
  <2> TAKE i \in 1..n
  <2>1. E[i] \in Seq(Nat) /\ <<cs[i]>> \in Seq(WireItems)
    BY DEF Reads
  <2> QED BY <2>1, SingleElement
<1>2. E \in [1..n -> Seq(Nat)] /\ cs \in [1..n -> WireItems]
  BY <1>1
<1>3. cs \in Seq(WireItems) /\ Len(cs) = n
  <2>1. cs \in Seq(WireItems)
    BY <1>2, SeqDef
  <2> QED BY <1>2, <2>1, LenProperties
<1> DEFINE d == FlattenSeq(E)
<1>4. Reads(d, cs)
  BY <1>2, <1>3, ReadsFlat
<1> HIDE DEF d
<1>5. d \in Seq(Nat)
  BY <1>4 DEF Reads
<1> SUFFICES ASSUME Short(d)
             PROVE  \E ts : Sees(d, ts, n) /\ \A i \in 1..n : Alike(ts[i], cs[i])
  BY <1>5 DEF d
<1>6. PICK ts : Sees(d, ts, Len(cs)) /\ \A i \in 1..Len(cs) : Alike(ts[i], cs[i])
  BY <1>4, ReadsShown
<1>7. Sees(d, ts, n) /\ \A i \in 1..n : Alike(ts[i], cs[i])
  BY <1>3, <1>6
<1> QED BY <1>7

-----------------------------------------------------------------------------
(* Nodes.                                                                   *)

NodeTypes == [key : Octets, value : ValueTypes,
              firstChild : PointerTypes, nextSibling : PointerTypes]

\* The contents of a node's SEQUENCE.
NodeContent(n) ==
    Primitive(0, n.key) \o Explicit(1, EncodeNodeValue(n.value))
      \o Explicit(2, EncodeNodePointer(n.firstChild))
      \o Explicit(3, EncodeNodePointer(n.nextSibling))

\* An element with this content is decoded to a node, whatever is behind it.
LEMMA NodeRoundTrip ==
    ASSUME NEW n \in NodeTypes
    PROVE  /\ Reads(EncodeNode(n), <<Element(0, 16, NodeContent(n))>>)
           /\ NodeContent(n) \in Seq(Nat)
           /\ \A t : Alike(t, Element(0, 16, NodeContent(n))) => DecodeNode(t) = {n}
<1> DEFINE v == EncodeNodeValue(n.value)
           f == EncodeNodePointer(n.firstChild)
           s == EncodeNodePointer(n.nextSibling)
           c == NodeContent(n)
<1>1. /\ n.key \in Seq(Nat) /\ n.value \in ValueTypes
      /\ n.firstChild \in PointerTypes /\ n.nextSibling \in PointerTypes
      /\ n = [key |-> n.key, value |-> n.value, firstChild |-> n.firstChild, nextSibling |-> n.nextSibling]
  BY DEF NodeTypes, Octets
<1>2. v \in Seq(Nat) /\ (Short(v) => DecodeNodeValue(v) = {n.value})
  BY <1>1, NodeValueRoundTrip
<1>3. f \in Seq(Nat) /\ (Short(f) => DecodeNodePointer(f) = {n.firstChild})
  BY <1>1, NodePointerRoundTrip
<1>4. s \in Seq(Nat) /\ (Short(s) => DecodeNodePointer(s) = {n.nextSibling})
  BY <1>1, NodePointerRoundTrip
<1>5. c = Primitive(0, n.key) \o Explicit(1, v) \o Explicit(2, f) \o Explicit(3, s)
  BY DEF NodeContent
<1>6. EncodeNode(n) = SequenceOf(c)
  BY DEF EncodeNode, NodeContent
<1> HIDE DEF v, f, s, c
<1>7. 0 \in 0..30 /\ 1 \in 0..30 /\ 2 \in 0..30 /\ 3 \in 0..30
  OBVIOUS
<1>8. /\ Reads(Primitive(0, n.key), <<Element(2, 0, n.key)>>)
      /\ Reads(Explicit(1, v), <<Element(2, 1, v)>>)
      /\ Reads(Explicit(2, f), <<Element(2, 2, f)>>)
      /\ Reads(Explicit(3, s), <<Element(2, 3, s)>>)
  BY <1>1, <1>2, <1>3, <1>4, <1>7, ReadsElements
<1>9. Reads(c, <<Element(2, 0, n.key), Element(2, 1, v), Element(2, 2, f), Element(2, 3, s)>>)
  <2>1. Reads(Primitive(0, n.key) \o Explicit(1, v), <<Element(2, 0, n.key), Element(2, 1, v)>>)
    BY <1>8, ReadsPair
  <2>2. Reads(Primitive(0, n.key) \o Explicit(1, v) \o Explicit(2, f),
              <<Element(2, 0, n.key), Element(2, 1, v), Element(2, 2, f)>>)
    BY <1>8, <2>1, ReadsThird
  <2> QED BY <1>5, <1>8, <2>2, ReadsFourth
<1>10. c \in Seq(Nat)
  BY <1>9 DEF Reads
<1>11. Reads(EncodeNode(n), <<Element(0, 16, c)>>)
  BY <1>6, <1>7, <1>10, ReadsElements
<1> SUFFICES ASSUME NEW t, Alike(t, Element(0, 16, c)) PROVE DecodeNode(t) = {n}
  BY <1>10, <1>11 DEF c
<1>12. t.class = 0 /\ t.tag = 16 /\ t.content = c /\ Short(c)
  BY DEF Alike, Element
<1>13. PICK ts : /\ Sees(c, ts, 4)
                 /\ Alike(ts[1], Element(2, 0, n.key)) /\ Alike(ts[2], Element(2, 1, v))
                 /\ Alike(ts[3], Element(2, 2, f)) /\ Alike(ts[4], Element(2, 3, s))
  BY <1>9, <1>12, SeesFour
<1>14. /\ ts[1].content = n.key /\ ts[2].content = v /\ ts[3].content = f /\ ts[4].content = s
       /\ Short(v) /\ Short(f) /\ Short(s)
  BY <1>13 DEF Alike, Element
<1>15. NodeFields(ts) = {n}
  <2>1. Len(ts) = 4
    BY <1>13 DEF Sees
  <2>2. NodeFields(ts) = {[key |-> n.key, value |-> x, firstChild |-> y, nextSibling |-> z] :
                            x \in {n.value}, y \in {n.firstChild}, z \in {n.nextSibling}}
    BY <1>2, <1>3, <1>4, <1>14, <2>1 DEF NodeFields
  <2> QED BY <1>1, <2>2
<1>16. Decoded(c, NodeFields) = {n}
  BY <1>13, <1>15 DEF Decoded, Sees
<1> QED BY <1>16, <1>12 DEF DecodeNode, IsElement, Universal, TagSequence

\* A list of nodes.
LEMMA NodesRoundTrip ==
    ASSUME NEW vs \in Seq(NodeTypes)
    PROVE  /\ All(vs, EncodeNode) \in Seq(Nat)
           /\ Short(All(vs, EncodeNode)) =>
                 Decoded(All(vs, EncodeNode), LAMBDA us : Each(us, DecodeNode)) = {vs}
<1> DEFINE n == Len(vs)
           E == [i \in 1..n |-> EncodeNode(vs[i])]
           cs == [i \in 1..n |-> Element(0, 16, NodeContent(vs[i]))]
           d == All(vs, EncodeNode)
<1>1. n \in Nat /\ DOMAIN vs = 1..n /\ Len(vs) = n
  BY LenProperties
<1> HIDE DEF n
<1>2. ASSUME NEW i \in 1..n
      PROVE  /\ Reads(E[i], <<cs[i]>>)
             /\ \A t : Alike(t, cs[i]) => DecodeNode(t) = {vs[i]}
  <2>1. vs[i] \in NodeTypes
    BY ElementOfSeq DEF n
  <2> QED BY <2>1, NodeRoundTrip
<1>3. d = FlattenSeq(E)
  BY <1>1 DEF All
<1>4. E = [i \in 1..n |-> E[i]] /\ cs = [i \in 1..n |-> cs[i]]
  OBVIOUS
<1> HIDE DEF E, cs, d
<1>5. d \in Seq(Nat)
  BY <1>1, <1>2, <1>3, <1>4, SeesList
<1> SUFFICES ASSUME Short(d)
             PROVE  Decoded(d, LAMBDA us : Each(us, DecodeNode)) = {vs}
  BY <1>5 DEF d
<1>6. PICK ts : Sees(d, ts, n) /\ \A i \in 1..n : Alike(ts[i], cs[i])
  BY <1>1, <1>2, <1>3, <1>4, SeesList
<1> DEFINE D == [i \in 1..n |-> DecodeNode(ts[i])]
<1>7. \A i \in 1..n : D[i] = {vs[i]}
  BY <1>2, <1>6
<1>8. Each(ts, DecodeNode) = Chosen(D, n)
  BY <1>6 DEF Each, Chosen, Sees
<1> HIDE DEF D
<1>9. Each(ts, DecodeNode) = {vs}
  BY <1>1, <1>7, <1>8, EachOnly
<1>10. Decoded(d, LAMBDA us : Each(us, DecodeNode)) = {vs}
  BY <1>6, <1>9 DEF Decoded, Sees
<1> QED BY <1>10

-----------------------------------------------------------------------------
(* Edits.                                                                   *)

\* An OPTIONAL field.
Maybes(S) == {{}} \cup {{x} : x \in S}

\* An OPTIONAL field is absent or has one value.
LEMMA MaybeCases ==
    ASSUME NEW S, NEW field \in Maybes(S)
    PROVE  \/ field = {}
           \/ \E v \in S : field = {v} /\ (CHOOSE u \in field : TRUE) = v /\ field # {}
  BY DEF Maybes

EditTypes == [target : Octets, newValue : Maybes(ValueTypes),
              newFirstChild : Maybes(PointerTypes), newNextSibling : Maybes(PointerTypes),
              newParent : Maybes(Octets)]

EditContent(e) ==
    Primitive(0, e.target)
      \o Option(e.newValue, LAMBDA v : Explicit(1, EncodeNodeValue(v)))
      \o Option(e.newFirstChild, LAMBDA p : Explicit(2, EncodeNodePointer(p)))
      \o Option(e.newNextSibling, LAMBDA p : Explicit(3, EncodeNodePointer(p)))
      \o Option(e.newParent, LAMBDA x : Primitive(4, x))

\* The elements of the optional fields.
ValueFields(tag, field)   == {Element(2, tag, EncodeNodeValue(v)) : v \in field}
PointerFields(tag, field) == {Element(2, tag, EncodeNodePointer(p)) : p \in field}
TextFields(tag, field)    == {Element(2, tag, x) : x \in field}

\* One element is the one member of a set of elements.
LEMMA ReadsSingle ==
    ASSUME NEW d, NEW x, Reads(d, <<x>>)
    PROVE  x \in WireItems /\ Holds(d, {x})
<1>1. <<x>> \in Seq(WireItems)
  BY DEF Reads
<1>2. x \in WireItems
  BY <1>1, SingleElement
<1> QED BY <1>2 DEF Holds

\* An OPTIONAL NodeValue is written as its one element or as nothing.
LEMMA ValueOption ==
    ASSUME NEW tag \in 0..30, NEW field \in Maybes(ValueTypes)
    PROVE  /\ Holds(Option(field, LAMBDA v : Explicit(tag, EncodeNodeValue(v))), ValueFields(tag, field))
           /\ \A y \in ValueFields(tag, field) : y.tag = tag
<1>1. CASE field = {}
  <2>1. Option(field, LAMBDA v : Explicit(tag, EncodeNodeValue(v))) = <<>>
    BY <1>1 DEF Option
  <2> QED BY <1>1, <2>1 DEF Holds, ValueFields
<1>2. CASE field # {}
  <2>1. PICK v \in ValueTypes : field = {v} /\ (CHOOSE u \in field : TRUE) = v
    BY <1>2, MaybeCases
  <2> DEFINE c == EncodeNodeValue(v)
  <2>2. Option(field, LAMBDA w : Explicit(tag, EncodeNodeValue(w))) = Explicit(tag, c)
    BY <1>2, <2>1 DEF Option
  <2>3. c \in Seq(Nat)
    BY NodeValueRoundTrip
  <2>4. ValueFields(tag, field) = {Element(2, tag, c)}
    BY <2>1 DEF ValueFields
  <2> HIDE DEF c
  <2>5. Holds(Explicit(tag, c), {Element(2, tag, c)})
    BY <2>3, ReadsElements, ReadsSingle
  <2> QED BY <2>2, <2>4, <2>5 DEF Element
<1> QED BY <1>1, <1>2

\* The same of a NodePointer.
LEMMA PointerOption ==
    ASSUME NEW tag \in 0..30, NEW field \in Maybes(PointerTypes)
    PROVE  /\ Holds(Option(field, LAMBDA p : Explicit(tag, EncodeNodePointer(p))), PointerFields(tag, field))
           /\ \A y \in PointerFields(tag, field) : y.tag = tag
<1>1. CASE field = {}
  <2>1. Option(field, LAMBDA p : Explicit(tag, EncodeNodePointer(p))) = <<>>
    BY <1>1 DEF Option
  <2> QED BY <1>1, <2>1 DEF Holds, PointerFields
<1>2. CASE field # {}
  <2>1. PICK p \in PointerTypes : field = {p} /\ (CHOOSE u \in field : TRUE) = p
    BY <1>2, MaybeCases
  <2> DEFINE c == EncodeNodePointer(p)
  <2>2. Option(field, LAMBDA q : Explicit(tag, EncodeNodePointer(q))) = Explicit(tag, c)
    BY <1>2, <2>1 DEF Option
  <2>3. c \in Seq(Nat)
    BY NodePointerRoundTrip
  <2>4. PointerFields(tag, field) = {Element(2, tag, c)}
    BY <2>1 DEF PointerFields
  <2> HIDE DEF c
  <2>5. Holds(Explicit(tag, c), {Element(2, tag, c)})
    BY <2>3, ReadsElements, ReadsSingle
  <2> QED BY <2>2, <2>4, <2>5 DEF Element
<1> QED BY <1>1, <1>2

\* The same of a string.
LEMMA TextOption ==
    ASSUME NEW tag \in 0..30, NEW field \in Maybes(Octets)
    PROVE  /\ Holds(Option(field, LAMBDA x : Primitive(tag, x)), TextFields(tag, field))
           /\ \A y \in TextFields(tag, field) : y.tag = tag
<1>1. CASE field = {}
  <2>1. Option(field, LAMBDA x : Primitive(tag, x)) = <<>>
    BY <1>1 DEF Option
  <2> QED BY <1>1, <2>1 DEF Holds, TextFields
<1>2. CASE field # {}
  <2>1. PICK c \in Octets : field = {c} /\ (CHOOSE u \in field : TRUE) = c
    BY <1>2, MaybeCases
  <2>2. Option(field, LAMBDA x : Primitive(tag, x)) = Primitive(tag, c)
    BY <1>2, <2>1 DEF Option
  <2>3. c \in Seq(Nat)
    BY DEF Octets
  <2>4. TextFields(tag, field) = {Element(2, tag, c)}
    BY <2>1 DEF TextFields
  <2>5. Holds(Primitive(tag, c), {Element(2, tag, c)})
    BY <2>3, ReadsElements, ReadsSingle
  <2> QED BY <2>2, <2>4, <2>5 DEF Element
<1> QED BY <1>1, <1>2

\* What a field of an edit is decoded to.
LEMMA EditField ==
    ASSUME NEW t
    PROVE  /\ \A v \in ValueTypes : Alike(t, Element(2, 1, EncodeNodeValue(v))) => SetEditField(t) = {v}
           /\ \A p \in PointerTypes : Alike(t, Element(2, 2, EncodeNodePointer(p))) => SetEditField(t) = {p}
           /\ \A p \in PointerTypes : Alike(t, Element(2, 3, EncodeNodePointer(p))) => SetEditField(t) = {p}
           /\ \A x \in Octets : Alike(t, Element(2, 4, x)) => SetEditField(t) = {x}
<1>1. ASSUME NEW g, NEW c, Alike(t, Element(2, g, c)) PROVE t.tag = g /\ t.content = c /\ Short(c)
  BY <1>1 DEF Alike, Element
<1>2. /\ t.tag = 1 => SetEditField(t) = DecodeNodeValue(t.content)
      /\ t.tag \in {2, 3} => SetEditField(t) = DecodeNodePointer(t.content)
      /\ t.tag = 4 => SetEditField(t) = {t.content}
  BY DEF SetEditField
<1>3. ASSUME NEW v \in ValueTypes, Alike(t, Element(2, 1, EncodeNodeValue(v)))
      PROVE  SetEditField(t) = {v}
  <2>1. t.tag = 1 /\ t.content = EncodeNodeValue(v) /\ Short(EncodeNodeValue(v))
    BY <1>1, <1>3
  <2> QED BY <1>2, <2>1, NodeValueRoundTrip
<1>4. ASSUME NEW p \in PointerTypes, NEW g \in {2, 3}, Alike(t, Element(2, g, EncodeNodePointer(p)))
      PROVE  SetEditField(t) = {p}
  <2>1. t.tag = g /\ t.content = EncodeNodePointer(p) /\ Short(EncodeNodePointer(p))
    BY <1>1, <1>4
  <2> QED BY <1>2, <2>1, NodePointerRoundTrip
<1>5. ASSUME NEW x \in Octets, Alike(t, Element(2, 4, x)) PROVE SetEditField(t) = {x}
  BY <1>1, <1>2, <1>5
<1> QED BY <1>3, <1>4, <1>5

\* encodeSetEdit and decodeSetEdit: every edit comes back, whichever fields it has.
LEMMA EditRoundTrip ==
    ASSUME NEW e \in EditTypes
    PROVE  /\ Reads(EncodeSetEdit(e), <<Element(0, 16, EditContent(e))>>)
           /\ EditContent(e) \in Seq(Nat)
           /\ \A t : Alike(t, Element(0, 16, EditContent(e))) => DecodeSetEdit(t) = {e}
<1> DEFINE c == EditContent(e)
           V == ValueFields(1, e.newValue)
           F == PointerFields(2, e.newFirstChild)
           N == PointerFields(3, e.newNextSibling)
           P == TextFields(4, e.newParent)
           o1 == Option(e.newValue, LAMBDA v : Explicit(1, EncodeNodeValue(v)))
           o2 == Option(e.newFirstChild, LAMBDA p : Explicit(2, EncodeNodePointer(p)))
           o3 == Option(e.newNextSibling, LAMBDA p : Explicit(3, EncodeNodePointer(p)))
           o4 == Option(e.newParent, LAMBDA x : Primitive(4, x))
           x0 == Element(2, 0, e.target)
           O == V \cup F \cup N \cup P
<1>1. /\ e.target \in Octets /\ e.newValue \in Maybes(ValueTypes)
      /\ e.newFirstChild \in Maybes(PointerTypes) /\ e.newNextSibling \in Maybes(PointerTypes)
      /\ e.newParent \in Maybes(Octets)
      /\ e = [target |-> e.target, newValue |-> e.newValue, newFirstChild |-> e.newFirstChild,
              newNextSibling |-> e.newNextSibling, newParent |-> e.newParent]
  BY DEF EditTypes
<1>2. 0 \in 0..30 /\ 1 \in 0..30 /\ 2 \in 0..30 /\ 3 \in 0..30 /\ 4 \in 0..30
  OBVIOUS
<1>3. Reads(Primitive(0, e.target), <<x0>>)
  BY <1>1, <1>2, ReadsElements DEF Octets
<1>4. Holds(o1, V) /\ \A y \in V : y.tag = 1
  BY <1>1, <1>2, ValueOption
<1>5. Holds(o2, F) /\ \A y \in F : y.tag = 2
  BY <1>1, <1>2, PointerOption
<1>6. Holds(o3, N) /\ \A y \in N : y.tag = 3
  BY <1>1, <1>2, PointerOption
<1>7. Holds(o4, P) /\ \A y \in P : y.tag = 4
  BY <1>1, <1>2, TextOption
<1>8. c = Primitive(0, e.target) \o o1 \o o2 \o o3 \o o4 /\ EncodeSetEdit(e) = SequenceOf(c)
  BY DEF EditContent, EncodeSetEdit
<1> HIDE DEF c, V, F, N, P, o1, o2, o3, o4
<1>9. Carries(c, <<x0>>, O)
  <2>1. Carries(Primitive(0, e.target), <<x0>>, {})
    BY <1>3, CarriesNone
  <2>2. Carries(Primitive(0, e.target) \o o1, <<x0>>, {} \cup V)
    BY <1>4, <2>1, CarriesMore
  <2>3. Carries(Primitive(0, e.target) \o o1 \o o2, <<x0>>, {} \cup V \cup F)
    BY <1>4, <1>5, <2>2, CarriesMore
  <2>4. Carries(Primitive(0, e.target) \o o1 \o o2 \o o3, <<x0>>, {} \cup V \cup F \cup N)
    BY <1>4, <1>5, <1>6, <2>3, CarriesMore
  <2>5. Carries(Primitive(0, e.target) \o o1 \o o2 \o o3 \o o4, <<x0>>, {} \cup V \cup F \cup N \cup P)
    BY <1>4, <1>5, <1>6, <1>7, <2>4, CarriesMore
  <2>6. {} \cup V \cup F \cup N \cup P = O
    OBVIOUS
  <2> QED BY <1>8, <2>5, <2>6
<1>10. Len(<<x0>>) = 1 /\ <<x0>>[1] = x0
  OBVIOUS
<1> DEFINE pre == <<x0>>
<1>11. Len(pre) = 1 /\ pre[1] = x0 /\ Carries(c, pre, O)
  BY <1>9, <1>10
<1> HIDE DEF pre, O
<1>12. c \in Seq(Nat)
  BY <1>11, CarriesShown
<1>13. Reads(EncodeSetEdit(e), <<Element(0, 16, c)>>)
  BY <1>2, <1>8, <1>12, ReadsElements
<1> SUFFICES ASSUME NEW t, Alike(t, Element(0, 16, c)) PROVE DecodeSetEdit(t) = {e}
  BY <1>12, <1>13 DEF c
<1>14. t.class = 0 /\ t.tag = 16 /\ t.content = c /\ Short(c)
  BY DEF Alike, Element
<1>15. PICK ts : /\ Sees(c, ts, Len(ts)) /\ Len(ts) >= 1 /\ Len(ts) \in Nat
                 /\ Alike(ts[1], x0) /\ Behind(ts, 2, O)
  <2>1. PICK ts : /\ Sees(c, ts, Len(ts)) /\ Len(ts) >= Len(pre) /\ Len(ts) \in Nat
                  /\ \A i \in 1..Len(pre) : Alike(ts[i], pre[i])
                  /\ Behind(ts, Len(pre) + 1, O)
    BY <1>11, <1>14, CarriesShown
  <2>2. 1 \in 1..Len(pre) /\ Len(pre) + 1 = 2
    BY <1>11
  <2>3. Alike(ts[1], x0)
    BY <1>11, <2>1, <2>2
  <2>4. Behind(ts, 2, O)
    BY <2>1, <2>2
  <2> QED BY <1>11, <2>1, <2>3, <2>4
<1>16. ts[1].tag = 0 /\ ts[1].content = e.target
  BY <1>15 DEF Alike, Element
<1>17. /\ \A y \in O : y.tag = 1 <=> y \in V
       /\ \A y \in O : y.tag = 2 <=> y \in F
       /\ \A y \in O : y.tag = 3 <=> y \in N
       /\ \A y \in O : y.tag = 4 <=> y \in P
       /\ \A y \in O : y \in V \/ y \in F \/ y \in N \/ y \in P
       /\ V \subseteq O /\ F \subseteq O /\ N \subseteq O /\ P \subseteq O
  BY <1>4, <1>5, <1>6, <1>7 DEF O
\* Each field is what was encoded.
<1>18. Optional(ts, 2, 1, SetEditField) = e.newValue
  <2> DEFINE at == Tagged(ts, 2, 1)
  <2>1. Optional(ts, 2, 1, SetEditField) = IF at = {} THEN {} ELSE SetEditField(ts[Max(at)])
    BY DEF Optional, Tagged
  <2>3. /\ (\A y \in O : y.tag # 1) => at = {}
        /\ \A y \in O : y.tag = 1 => at # {} /\ Alike(ts[Max(at)], y)
    BY <1>15, OptionalAt
  <2> HIDE DEF at
  <2>4. CASE e.newValue = {}
    <3>1. V = {}
      BY <2>4 DEF V, ValueFields
    <3> QED BY <1>17, <2>1, <2>3, <2>4, <3>1
  <2>5. CASE e.newValue # {}
    <3>1. PICK v \in ValueTypes : e.newValue = {v}
      BY <1>1, <2>5, MaybeCases
    <3>2. Element(2, 1, EncodeNodeValue(v)) \in V
      BY <3>1 DEF V, ValueFields
    <3>3. at # {} /\ Alike(ts[Max(at)], Element(2, 1, EncodeNodeValue(v)))
      BY <1>17, <2>3, <3>2
    <3>4. SetEditField(ts[Max(at)]) = {v}
      BY <3>3, EditField
    <3> QED BY <2>1, <3>1, <3>3, <3>4
  <2> QED BY <2>4, <2>5
<1>19. Optional(ts, 2, 2, SetEditField) = e.newFirstChild
  <2> DEFINE at == Tagged(ts, 2, 2)
  <2>1. Optional(ts, 2, 2, SetEditField) = IF at = {} THEN {} ELSE SetEditField(ts[Max(at)])
    BY DEF Optional, Tagged
  <2>3. /\ (\A y \in O : y.tag # 2) => at = {}
        /\ \A y \in O : y.tag = 2 => at # {} /\ Alike(ts[Max(at)], y)
    BY <1>15, OptionalAt
  <2> HIDE DEF at
  <2>4. CASE e.newFirstChild = {}
    <3>1. F = {}
      BY <2>4 DEF F, PointerFields
    <3> QED BY <1>17, <2>1, <2>3, <2>4, <3>1
  <2>5. CASE e.newFirstChild # {}
    <3>1. PICK p \in PointerTypes : e.newFirstChild = {p}
      BY <1>1, <2>5, MaybeCases
    <3>2. Element(2, 2, EncodeNodePointer(p)) \in F
      BY <3>1 DEF F, PointerFields
    <3>3. at # {} /\ Alike(ts[Max(at)], Element(2, 2, EncodeNodePointer(p)))
      BY <1>17, <2>3, <3>2
    <3>4. SetEditField(ts[Max(at)]) = {p}
      BY <3>3, EditField
    <3> QED BY <2>1, <3>1, <3>3, <3>4
  <2> QED BY <2>4, <2>5
<1>20. Optional(ts, 2, 3, SetEditField) = e.newNextSibling
  <2> DEFINE at == Tagged(ts, 2, 3)
  <2>1. Optional(ts, 2, 3, SetEditField) = IF at = {} THEN {} ELSE SetEditField(ts[Max(at)])
    BY DEF Optional, Tagged
  <2>3. /\ (\A y \in O : y.tag # 3) => at = {}
        /\ \A y \in O : y.tag = 3 => at # {} /\ Alike(ts[Max(at)], y)
    BY <1>15, OptionalAt
  <2> HIDE DEF at
  <2>4. CASE e.newNextSibling = {}
    <3>1. N = {}
      BY <2>4 DEF N, PointerFields
    <3> QED BY <1>17, <2>1, <2>3, <2>4, <3>1
  <2>5. CASE e.newNextSibling # {}
    <3>1. PICK p \in PointerTypes : e.newNextSibling = {p}
      BY <1>1, <2>5, MaybeCases
    <3>2. Element(2, 3, EncodeNodePointer(p)) \in N
      BY <3>1 DEF N, PointerFields
    <3>3. at # {} /\ Alike(ts[Max(at)], Element(2, 3, EncodeNodePointer(p)))
      BY <1>17, <2>3, <3>2
    <3>4. SetEditField(ts[Max(at)]) = {p}
      BY <3>3, EditField
    <3> QED BY <2>1, <3>1, <3>3, <3>4
  <2> QED BY <2>4, <2>5
<1>21. Optional(ts, 2, 4, SetEditField) = e.newParent
  <2> DEFINE at == Tagged(ts, 2, 4)
  <2>1. Optional(ts, 2, 4, SetEditField) = IF at = {} THEN {} ELSE SetEditField(ts[Max(at)])
    BY DEF Optional, Tagged
  <2>3. /\ (\A y \in O : y.tag # 4) => at = {}
        /\ \A y \in O : y.tag = 4 => at # {} /\ Alike(ts[Max(at)], y)
    BY <1>15, OptionalAt
  <2> HIDE DEF at
  <2>4. CASE e.newParent = {}
    <3>1. P = {}
      BY <2>4 DEF P, TextFields
    <3> QED BY <1>17, <2>1, <2>3, <2>4, <3>1
  <2>5. CASE e.newParent # {}
    <3>1. PICK x \in Octets : e.newParent = {x}
      BY <1>1, <2>5, MaybeCases
    <3>2. Element(2, 4, x) \in P
      BY <3>1 DEF P, TextFields
    <3>3. at # {} /\ Alike(ts[Max(at)], Element(2, 4, x))
      BY <1>17, <2>3, <3>2
    <3>4. SetEditField(ts[Max(at)]) = {x}
      BY <3>3, EditField
    <3> QED BY <2>1, <3>1, <3>3, <3>4
  <2> QED BY <2>4, <2>5
<1>22. Decodable(ts, 2, SetEditField)
  <2> SUFFICES ASSUME NEW i \in 2..Len(ts) PROVE SetEditField(ts[i]) # {}
    BY DEF Decodable
  <2>1. PICK y \in O : Alike(ts[i], y)
    BY <1>15 DEF Behind
  <2>2. CASE y \in V
    <3>1. PICK v \in e.newValue : y = Element(2, 1, EncodeNodeValue(v))
      BY <2>2 DEF V, ValueFields
    <3>2. v \in ValueTypes
      BY <1>1, MaybeCases
    <3>3. SetEditField(ts[i]) = {v}
      BY <2>1, <3>1, <3>2, EditField
    <3> QED BY <3>3
  <2>3. CASE y \in F
    <3>1. PICK p \in e.newFirstChild : y = Element(2, 2, EncodeNodePointer(p))
      BY <2>3 DEF F, PointerFields
    <3>2. p \in PointerTypes
      BY <1>1, MaybeCases
    <3>3. SetEditField(ts[i]) = {p}
      BY <2>1, <3>1, <3>2, EditField
    <3> QED BY <3>3
  <2>4. CASE y \in N
    <3>1. PICK p \in e.newNextSibling : y = Element(2, 3, EncodeNodePointer(p))
      BY <2>4 DEF N, PointerFields
    <3>2. p \in PointerTypes
      BY <1>1, MaybeCases
    <3>3. SetEditField(ts[i]) = {p}
      BY <2>1, <3>1, <3>2, EditField
    <3> QED BY <3>3
  <2>5. CASE y \in P
    <3>1. PICK x \in e.newParent : y = Element(2, 4, x)
      BY <2>5 DEF P, TextFields
    <3>2. x \in Octets
      BY <1>1, MaybeCases
    <3>3. SetEditField(ts[i]) = {x}
      BY <2>1, <3>1, <3>2, EditField
    <3> QED BY <3>3
  <2> QED BY <1>17, <2>2, <2>3, <2>4, <2>5
<1>23. SetEditFields(ts) = {e}
  <2>1. ts # <<>>
    <3>1. Len(ts) # 0
      BY <1>15
    <3> QED BY <3>1
  <2> QED BY <1>1, <1>16, <1>18, <1>19, <1>20, <1>21, <1>22, <2>1 DEF SetEditFields
<1>24. Decoded(c, SetEditFields) = {e}
  BY <1>15, <1>23 DEF Decoded, Sees
<1> QED BY <1>24, <1>14 DEF DecodeSetEdit, IsElement, Universal, TagSequence

\* A list of edits.
LEMMA EditsRoundTrip ==
    ASSUME NEW vs \in Seq(EditTypes)
    PROVE  /\ All(vs, EncodeSetEdit) \in Seq(Nat)
           /\ Short(All(vs, EncodeSetEdit)) =>
                 Decoded(All(vs, EncodeSetEdit), LAMBDA us : Each(us, DecodeSetEdit)) = {vs}
<1> DEFINE n == Len(vs)
           E == [i \in 1..n |-> EncodeSetEdit(vs[i])]
           cs == [i \in 1..n |-> Element(0, 16, EditContent(vs[i]))]
           d == All(vs, EncodeSetEdit)
<1>1. n \in Nat /\ DOMAIN vs = 1..n /\ Len(vs) = n
  BY LenProperties
<1> HIDE DEF n
<1>2. ASSUME NEW i \in 1..n
      PROVE  /\ Reads(E[i], <<cs[i]>>)
             /\ \A t : Alike(t, cs[i]) => DecodeSetEdit(t) = {vs[i]}
  <2>1. vs[i] \in EditTypes
    BY ElementOfSeq DEF n
  <2> QED BY <2>1, EditRoundTrip
<1>3. d = FlattenSeq(E)
  BY <1>1 DEF All
<1>4. E = [i \in 1..n |-> E[i]] /\ cs = [i \in 1..n |-> cs[i]]
  OBVIOUS
<1> HIDE DEF E, cs, d
<1>5. d \in Seq(Nat)
  BY <1>1, <1>2, <1>3, <1>4, SeesList
<1> SUFFICES ASSUME Short(d)
             PROVE  Decoded(d, LAMBDA us : Each(us, DecodeSetEdit)) = {vs}
  BY <1>5 DEF d
<1>6. PICK ts : Sees(d, ts, n) /\ \A i \in 1..n : Alike(ts[i], cs[i])
  BY <1>1, <1>2, <1>3, <1>4, SeesList
<1> DEFINE D == [i \in 1..n |-> DecodeSetEdit(ts[i])]
<1>7. \A i \in 1..n : D[i] = {vs[i]}
  BY <1>2, <1>6
<1>8. Each(ts, DecodeSetEdit) = Chosen(D, n)
  BY <1>6 DEF Each, Chosen, Sees
<1> HIDE DEF D
<1>9. Each(ts, DecodeSetEdit) = {vs}
  BY <1>1, <1>7, <1>8, EachOnly
<1>10. Decoded(d, LAMBDA us : Each(us, DecodeSetEdit)) = {vs}
  BY <1>6, <1>9 DEF Decoded, Sees
<1> QED BY <1>10

-----------------------------------------------------------------------------
(* Targets and ranges.                                                      *)

\* A target of a Delete comes back.
LEMMA TargetRoundTrip ==
    ASSUME NEW x \in Octets
    PROVE  /\ Reads(TLV(Universal, 0, TagUTF8String, x), <<Element(0, 12, x)>>)
           /\ \A t : Alike(t, Element(0, 12, x)) => DecodeTarget(t) = {x}
<1>1. 0 \in 0..3 /\ 0 \in {0, 32} /\ 12 \in 0..30 /\ x \in Seq(Nat)
  BY DEF Octets
<1>2. Reads(TLV(0, 0, 12, x), <<Element(0, 12, x)>>)
  BY <1>1, ReadsTLV
<1>3. ASSUME NEW t, Alike(t, Element(0, 12, x)) PROVE DecodeTarget(t) = {x}
  <2>1. t.class = 0 /\ t.tag = 12 /\ t.content = x
    BY <1>3 DEF Alike, Element
  <2> QED BY <2>1 DEF DecodeTarget, IsElement, Universal, TagUTF8String
<1> QED BY <1>2, <1>3 DEF Universal, TagUTF8String

\* A list of targets.
LEMMA TargetsRoundTrip ==
    ASSUME NEW vs \in Seq(Octets)
    PROVE  /\ All(vs, LAMBDA x : TLV(Universal, 0, TagUTF8String, x)) \in Seq(Nat)
           /\ Short(All(vs, LAMBDA x : TLV(Universal, 0, TagUTF8String, x))) =>
                 Decoded(All(vs, LAMBDA x : TLV(Universal, 0, TagUTF8String, x)),
                         LAMBDA us : Each(us, DecodeTarget)) = {vs}
<1> DEFINE n == Len(vs)
           E == [i \in 1..n |-> TLV(Universal, 0, TagUTF8String, vs[i])]
           cs == [i \in 1..n |-> Element(0, 12, vs[i])]
           d == All(vs, LAMBDA x : TLV(Universal, 0, TagUTF8String, x))
<1>1. n \in Nat /\ DOMAIN vs = 1..n /\ Len(vs) = n
  BY LenProperties
<1> HIDE DEF n
<1>2. ASSUME NEW i \in 1..n
      PROVE  /\ Reads(E[i], <<cs[i]>>)
             /\ \A t : Alike(t, cs[i]) => DecodeTarget(t) = {vs[i]}
  <2>1. vs[i] \in Octets
    BY ElementOfSeq DEF n
  <2> QED BY <2>1, TargetRoundTrip
<1>3. d = FlattenSeq(E)
  BY <1>1 DEF All
<1>4. E = [i \in 1..n |-> E[i]] /\ cs = [i \in 1..n |-> cs[i]]
  OBVIOUS
<1> HIDE DEF E, cs, d
<1>5. d \in Seq(Nat)
  BY <1>1, <1>2, <1>3, <1>4, SeesList
<1> SUFFICES ASSUME Short(d)
             PROVE  Decoded(d, LAMBDA us : Each(us, DecodeTarget)) = {vs}
  BY <1>5 DEF d
<1>6. PICK ts : Sees(d, ts, n) /\ \A i \in 1..n : Alike(ts[i], cs[i])
  BY <1>1, <1>2, <1>3, <1>4, SeesList
<1> DEFINE D == [i \in 1..n |-> DecodeTarget(ts[i])]
<1>7. \A i \in 1..n : D[i] = {vs[i]}
  BY <1>2, <1>6
<1>8. Each(ts, DecodeTarget) = Chosen(D, n)
  BY <1>6 DEF Each, Chosen, Sees
<1> HIDE DEF D
<1>9. Each(ts, DecodeTarget) = {vs}
  BY <1>1, <1>7, <1>8, EachOnly
<1>10. Decoded(d, LAMBDA us : Each(us, DecodeTarget)) = {vs}
  BY <1>6, <1>9 DEF Decoded, Sees
<1> QED BY <1>10

RangeTypes == [first : Longs, last : Longs]

RangeContent(r) == Integer(0, r.first) \o Integer(1, r.last)

\* encodeSequenceRange and decodeSequenceRange: every range comes back.
LEMMA RangeRoundTrip ==
    ASSUME NEW r \in RangeTypes
    PROVE  /\ Reads(EncodeSequenceRange(r), <<Element(0, 16, RangeContent(r))>>)
           /\ \A t : Alike(t, Element(0, 16, RangeContent(r))) => DecodeSequenceRange(t) = {r}
<1> DEFINE c == RangeContent(r)
           a == TwosComplement(r.first)
           b == TwosComplement(r.last)
<1>1. r.first \in Longs /\ r.last \in Longs /\ r = [first |-> r.first, last |-> r.last]
  BY DEF RangeTypes
<1>2. 0 \in 0..30 /\ 1 \in 0..30
  OBVIOUS
<1>3. Reads(Integer(0, r.first), <<Element(2, 0, a)>>) /\ Reads(Integer(1, r.last), <<Element(2, 1, b)>>)
  BY <1>1, <1>2, ReadsElements DEF Longs
<1>4. DecodeInt64(a) = {r.first} /\ DecodeInt64(b) = {r.last}
  BY <1>1, IntegerContent DEF Longs
<1> HIDE DEF a, b
<1>5. Reads(c, <<Element(2, 0, a), Element(2, 1, b)>>)
  BY <1>3, ReadsPair DEF RangeContent
<1>6. EncodeSequenceRange(r) = SequenceOf(c)
  BY DEF EncodeSequenceRange, RangeContent
<1> HIDE DEF c
<1>7. Reads(EncodeSequenceRange(r), <<Element(0, 16, c)>>)
  <2>1. c \in Seq(Nat)
    BY <1>5 DEF Reads
  <2> QED BY <1>2, <1>6, <2>1, ReadsElements
<1> SUFFICES ASSUME NEW t, Alike(t, Element(0, 16, c)) PROVE DecodeSequenceRange(t) = {r}
  BY <1>7 DEF c
<1>8. t.content = c /\ Short(c)
  BY DEF Alike, Element
<1>9. PICK ts : Sees(c, ts, 2) /\ Alike(ts[1], Element(2, 0, a)) /\ Alike(ts[2], Element(2, 1, b))
  BY <1>5, <1>8, SeesTwo
<1>10. ts[1].content = a /\ ts[2].content = b /\ Len(ts) = 2
  BY <1>9 DEF Alike, Element, Sees
<1>11. SequenceRangeFields(ts) = {r}
  <2>1. SequenceRangeFields(ts) = {[first |-> x, last |-> y] : x \in {r.first}, y \in {r.last}}
    BY <1>4, <1>10 DEF SequenceRangeFields
  <2> QED BY <1>1, <2>1
<1>12. Decoded(c, SequenceRangeFields) = {r}
  BY <1>9, <1>11 DEF Decoded, Sees
<1> QED BY <1>12, <1>8 DEF DecodeSequenceRange

\* A list of ranges.
LEMMA RangesRoundTrip ==
    ASSUME NEW vs \in Seq(RangeTypes)
    PROVE  /\ All(vs, EncodeSequenceRange) \in Seq(Nat)
           /\ Short(All(vs, EncodeSequenceRange)) =>
                 Decoded(All(vs, EncodeSequenceRange), LAMBDA us : Each(us, DecodeSequenceRange)) = {vs}
<1> DEFINE n == Len(vs)
           E == [i \in 1..n |-> EncodeSequenceRange(vs[i])]
           cs == [i \in 1..n |-> Element(0, 16, RangeContent(vs[i]))]
           d == All(vs, EncodeSequenceRange)
<1>1. n \in Nat /\ DOMAIN vs = 1..n /\ Len(vs) = n
  BY LenProperties
<1> HIDE DEF n
<1>2. ASSUME NEW i \in 1..n
      PROVE  /\ Reads(E[i], <<cs[i]>>)
             /\ \A t : Alike(t, cs[i]) => DecodeSequenceRange(t) = {vs[i]}
  <2>1. vs[i] \in RangeTypes
    BY ElementOfSeq DEF n
  <2> QED BY <2>1, RangeRoundTrip
<1>3. d = FlattenSeq(E)
  BY <1>1 DEF All
<1>4. E = [i \in 1..n |-> E[i]] /\ cs = [i \in 1..n |-> cs[i]]
  OBVIOUS
<1> HIDE DEF E, cs, d
<1>5. d \in Seq(Nat)
  BY <1>1, <1>2, <1>3, <1>4, SeesList
<1> SUFFICES ASSUME Short(d)
             PROVE  Decoded(d, LAMBDA us : Each(us, DecodeSequenceRange)) = {vs}
  BY <1>5 DEF d
<1>6. PICK ts : Sees(d, ts, n) /\ \A i \in 1..n : Alike(ts[i], cs[i])
  BY <1>1, <1>2, <1>3, <1>4, SeesList
<1> DEFINE D == [i \in 1..n |-> DecodeSequenceRange(ts[i])]
<1>7. \A i \in 1..n : D[i] = {vs[i]}
  BY <1>2, <1>6
<1>8. Each(ts, DecodeSequenceRange) = Chosen(D, n)
  BY <1>6 DEF Each, Chosen, Sees
<1> HIDE DEF D
<1>9. Each(ts, DecodeSequenceRange) = {vs}
  BY <1>1, <1>7, <1>8, EachOnly
<1>10. Decoded(d, LAMBDA us : Each(us, DecodeSequenceRange)) = {vs}
  BY <1>6, <1>9 DEF Decoded, Sees
<1> QED BY <1>10

-----------------------------------------------------------------------------
(* Get, Set, Delete, SummaryAck.                                            *)

GetTypes == [kind : {"Get"}, seq : Longs, target : PointerTypes]
SetTypes == [kind : {"Set"}, seq : Longs, edits : Seq(EditTypes)]
DeleteTypes == [kind : {"Delete"}, seq : Longs, targets : Seq(Octets)]
SummaryAckTypes == [kind : {"SummaryAck"}, received : Seq(RangeTypes)]

\* Octets read as a sequence number and one more element.
Numbered(d, n, c) ==
    \E ts : /\ Sees(d, ts, 2) /\ ts[1].content = TwosComplement(n)
            /\ ts[2].tag = 1 /\ ts[2].content = c /\ Short(c)

\* What a decoder sees of a sequence number and one more element.
LEMMA SeesNumbered ==
    ASSUME NEW n \in Longs, NEW c \in Seq(Nat)
    PROVE  /\ Integer(0, n) \o Explicit(1, c) \in Seq(Nat)
           /\ Short(Integer(0, n) \o Explicit(1, c)) => Numbered(Integer(0, n) \o Explicit(1, c), n, c)
           /\ DecodeInt64(TwosComplement(n)) = {n}
<1> DEFINE d == Integer(0, n) \o Explicit(1, c)
           a == TwosComplement(n)
<1>1. 0 \in 0..30 /\ 1 \in 0..30
  OBVIOUS
<1>2. Reads(Integer(0, n), <<Element(2, 0, a)>>)
  BY <1>1, ReadsElements DEF Longs
<1>3. Reads(Explicit(1, c), <<Element(2, 1, c)>>)
  BY <1>1, ReadsElements
<1>4. DecodeInt64(a) = {n}
  BY IntegerContent DEF Longs
<1> HIDE DEF a
<1>5. Reads(d, <<Element(2, 0, a), Element(2, 1, c)>>)
  BY <1>2, <1>3, ReadsPair
<1> HIDE DEF d
<1>6. d \in Seq(Nat)
  BY <1>5 DEF Reads
<1> SUFFICES ASSUME Short(d) PROVE Numbered(d, n, c)
  BY <1>4, <1>6 DEF d, a
<1>7. PICK ts : Sees(d, ts, 2) /\ Alike(ts[1], Element(2, 0, a)) /\ Alike(ts[2], Element(2, 1, c))
  BY <1>5, SeesTwo
<1>8. ts[1].content = a /\ ts[2].tag = 1 /\ ts[2].content = c /\ Short(c)
  BY <1>7 DEF Alike, Element
<1>9. Numbered(d, n, c)
  BY <1>7, <1>8 DEF Numbered, a
<1> QED BY <1>9

\* encodeGet and decodeGet.
LEMMA GetRoundTrip ==
    ASSUME NEW m \in GetTypes
    PROVE  /\ EncodeGet(m) \in Seq(Nat)
           /\ Short(EncodeGet(m)) => Decoded(EncodeGet(m), GetFields) = {m}
<1> DEFINE c == EncodeNodePointer(m.target)
           d == Integer(0, m.seq) \o Explicit(1, c)
<1>1. /\ m.seq \in Longs /\ m.target \in PointerTypes
      /\ m = [kind |-> "Get", seq |-> m.seq, target |-> m.target]
  BY DEF GetTypes
<1>2. c \in Seq(Nat) /\ (Short(c) => DecodeNodePointer(c) = {m.target})
  BY <1>1, NodePointerRoundTrip
<1>3. EncodeGet(m) = d
  BY DEF EncodeGet
<1> HIDE DEF c
<1>4. d \in Seq(Nat) /\ DecodeInt64(TwosComplement(m.seq)) = {m.seq}
  BY <1>1, <1>2, SeesNumbered
<1> SUFFICES ASSUME Short(d) PROVE Decoded(d, GetFields) = {m}
  BY <1>3, <1>4
<1>5. PICK ts : /\ Sees(d, ts, 2) /\ ts[1].content = TwosComplement(m.seq)
                /\ ts[2].tag = 1 /\ ts[2].content = c /\ Short(c)
  <2>1. Numbered(d, m.seq, c)
    BY <1>1, <1>2, SeesNumbered
  <2> QED BY <2>1 DEF Numbered
<1> HIDE DEF d
<1>6. GetFields(ts) = {m}
  <2>1. Len(ts) = 2
    BY <1>5 DEF Sees
  <2>2. GetFields(ts) = {[kind |-> "Get", seq |-> s, target |-> p] : s \in {m.seq}, p \in {m.target}}
    BY <1>2, <1>5, <1>4, <2>1 DEF GetFields
  <2> QED BY <1>1, <2>2
<1>7. Decoded(d, GetFields) = {m}
  BY <1>5, <1>6 DEF Decoded, Sees
<1> QED BY <1>7

\* encodeSet and decodeSet.
LEMMA SetRoundTrip ==
    ASSUME NEW m \in SetTypes
    PROVE  /\ EncodeSet(m) \in Seq(Nat)
           /\ Short(EncodeSet(m)) => Decoded(EncodeSet(m), SetFields) = {m}
<1> DEFINE c == All(m.edits, EncodeSetEdit)
           d == Integer(0, m.seq) \o Explicit(1, c)
           R == Decoded(c, LAMBDA us : Each(us, DecodeSetEdit))
<1>1. /\ m.seq \in Longs /\ m.edits \in Seq(EditTypes)
      /\ m = [kind |-> "Set", seq |-> m.seq, edits |-> m.edits]
  BY DEF SetTypes
<1>2. c \in Seq(Nat) /\ (Short(c) => R = {m.edits})
  BY <1>1, EditsRoundTrip
<1>3. EncodeSet(m) = d
  BY DEF EncodeSet
<1>4. \A ts : Len(ts) = 2 /\ ts[2].tag = 1 /\ ts[2].content = c =>
         SetFields(ts) = {[kind |-> "Set", seq |-> s, edits |-> es] :
                            s \in DecodeInt64(ts[1].content), es \in R}
  BY DEF SetFields
<1> HIDE DEF c, R
<1>5. d \in Seq(Nat) /\ DecodeInt64(TwosComplement(m.seq)) = {m.seq}
  BY <1>1, <1>2, SeesNumbered
<1> SUFFICES ASSUME Short(d) PROVE Decoded(d, SetFields) = {m}
  BY <1>3, <1>5
<1>6. PICK ts : /\ Sees(d, ts, 2) /\ ts[1].content = TwosComplement(m.seq)
                /\ ts[2].tag = 1 /\ ts[2].content = c /\ Short(c)
  <2>1. Numbered(d, m.seq, c)
    BY <1>1, <1>2, SeesNumbered
  <2> QED BY <2>1 DEF Numbered
<1> HIDE DEF d
<1>7. SetFields(ts) = {m}
  <2>1. Len(ts) = 2
    BY <1>6 DEF Sees
  <2>2. SetFields(ts) = {[kind |-> "Set", seq |-> s, edits |-> es] : s \in {m.seq}, es \in {m.edits}}
    BY <1>2, <1>4, <1>6, <1>5, <2>1
  <2> QED BY <1>1, <2>2
<1>8. Decoded(d, SetFields) = {m}
  BY <1>6, <1>7 DEF Decoded, Sees
<1> QED BY <1>8

\* encodeDelete and decodeDelete.
LEMMA DeleteRoundTrip ==
    ASSUME NEW m \in DeleteTypes
    PROVE  /\ EncodeDelete(m) \in Seq(Nat)
           /\ Short(EncodeDelete(m)) => Decoded(EncodeDelete(m), DeleteFields) = {m}
<1> DEFINE c == All(m.targets, LAMBDA x : TLV(Universal, 0, TagUTF8String, x))
           d == Integer(0, m.seq) \o Explicit(1, c)
           R == Decoded(c, LAMBDA us : Each(us, DecodeTarget))
<1>1. /\ m.seq \in Longs /\ m.targets \in Seq(Octets)
      /\ m = [kind |-> "Delete", seq |-> m.seq, targets |-> m.targets]
  BY DEF DeleteTypes
<1>2. c \in Seq(Nat) /\ (Short(c) => R = {m.targets})
  BY <1>1, TargetsRoundTrip
<1>3. EncodeDelete(m) = d
  BY DEF EncodeDelete
<1>4. \A ts : Len(ts) = 2 /\ ts[2].tag = 1 /\ ts[2].content = c =>
         DeleteFields(ts) = {[kind |-> "Delete", seq |-> s, targets |-> xs] :
                               s \in DecodeInt64(ts[1].content), xs \in R}
  BY DEF DeleteFields
<1> HIDE DEF c, R
<1>5. d \in Seq(Nat) /\ DecodeInt64(TwosComplement(m.seq)) = {m.seq}
  BY <1>1, <1>2, SeesNumbered
<1> SUFFICES ASSUME Short(d) PROVE Decoded(d, DeleteFields) = {m}
  BY <1>3, <1>5
<1>6. PICK ts : /\ Sees(d, ts, 2) /\ ts[1].content = TwosComplement(m.seq)
                /\ ts[2].tag = 1 /\ ts[2].content = c /\ Short(c)
  <2>1. Numbered(d, m.seq, c)
    BY <1>1, <1>2, SeesNumbered
  <2> QED BY <2>1 DEF Numbered
<1> HIDE DEF d
<1>7. DeleteFields(ts) = {m}
  <2>1. Len(ts) = 2
    BY <1>6 DEF Sees
  <2>2. DeleteFields(ts) = {[kind |-> "Delete", seq |-> s, targets |-> xs] : s \in {m.seq}, xs \in {m.targets}}
    BY <1>2, <1>4, <1>6, <1>5, <2>1
  <2> QED BY <1>1, <2>2
<1>8. Decoded(d, DeleteFields) = {m}
  BY <1>6, <1>7 DEF Decoded, Sees
<1> QED BY <1>8

\* encodeSummaryAck and decodeSummaryAck.
LEMMA SummaryAckRoundTrip ==
    ASSUME NEW m \in SummaryAckTypes
    PROVE  /\ EncodeSummaryAck(m) \in Seq(Nat)
           /\ Short(EncodeSummaryAck(m)) => Decoded(EncodeSummaryAck(m), SummaryAckFields) = {m}
<1> DEFINE c == All(m.received, EncodeSequenceRange)
           d == Explicit(0, c)
           R == Decoded(c, LAMBDA us : Each(us, DecodeSequenceRange))
<1>1. m.received \in Seq(RangeTypes) /\ m = [kind |-> "SummaryAck", received |-> m.received]
  BY DEF SummaryAckTypes
<1>2. c \in Seq(Nat) /\ (Short(c) => R = {m.received})
  BY <1>1, RangesRoundTrip
<1>3. EncodeSummaryAck(m) = d
  BY DEF EncodeSummaryAck
<1>4. \A ts : Len(ts) = 1 /\ ts[1].tag = 0 /\ ts[1].content = c =>
         SummaryAckFields(ts) = {[kind |-> "SummaryAck", received |-> rs] : rs \in R}
  BY DEF SummaryAckFields
<1> HIDE DEF c, R
<1>5. Reads(d, <<Element(2, 0, c)>>)
  <2>1. 0 \in 0..30
    OBVIOUS
  <2> QED BY <1>2, <2>1, ReadsElements
<1> HIDE DEF d
<1>6. d \in Seq(Nat)
  BY <1>5 DEF Reads
<1> SUFFICES ASSUME Short(d) PROVE Decoded(d, SummaryAckFields) = {m}
  BY <1>3, <1>6
<1>7. PICK ts : Sees(d, ts, 1) /\ Alike(ts[1], Element(2, 0, c))
  BY <1>5, SeesOne
<1>8. SummaryAckFields(ts) = {m}
  <2>1. Len(ts) = 1 /\ ts[1].tag = 0 /\ ts[1].content = c /\ Short(c)
    BY <1>7 DEF Sees, Alike, Element
  <2>2. SummaryAckFields(ts) = {[kind |-> "SummaryAck", received |-> rs] : rs \in {m.received}}
    BY <1>2, <1>4, <2>1
  <2> QED BY <1>1, <2>2
<1>9. Decoded(d, SummaryAckFields) = {m}
  BY <1>7, <1>8 DEF Decoded, Sees
<1> QED BY <1>9

-----------------------------------------------------------------------------
(* Create.                                                                  *)

CreateTypes == [kind : {"Create"}, seq : Longs, key : Octets,
                value : Maybes(ValueTypes), parent : Maybes(Octets)]

\* What a field of a Create is decoded to.
LEMMA CreateFieldOf ==
    ASSUME NEW t
    PROVE  /\ \A v \in ValueTypes : Alike(t, Element(2, 2, EncodeNodeValue(v))) => CreateField(t) = {v}
           /\ \A x \in Octets : Alike(t, Element(2, 3, x)) => CreateField(t) = {x}
<1>1. ASSUME NEW g, NEW c, Alike(t, Element(2, g, c)) PROVE t.tag = g /\ t.content = c /\ Short(c)
  BY <1>1 DEF Alike, Element
<1>2. /\ t.tag = 2 => CreateField(t) = DecodeNodeValue(t.content)
      /\ t.tag = 3 => CreateField(t) = {t.content}
  BY DEF CreateField
<1>3. ASSUME NEW v \in ValueTypes, Alike(t, Element(2, 2, EncodeNodeValue(v)))
      PROVE  CreateField(t) = {v}
  <2>1. t.tag = 2 /\ t.content = EncodeNodeValue(v) /\ Short(EncodeNodeValue(v))
    BY <1>1, <1>3
  <2> QED BY <1>2, <2>1, NodeValueRoundTrip
<1>4. ASSUME NEW x \in Octets, Alike(t, Element(2, 3, x)) PROVE CreateField(t) = {x}
  BY <1>1, <1>2, <1>4
<1> QED BY <1>3, <1>4

\* encodeCreate and decodeCreate, with and without the value and the parent.
LEMMA CreateRoundTrip ==
    ASSUME NEW m \in CreateTypes
    PROVE  /\ EncodeCreate(m) \in Seq(Nat)
           /\ Short(EncodeCreate(m)) => Decoded(EncodeCreate(m), CreateFields) = {m}
<1> DEFINE d == EncodeCreate(m)
           a == TwosComplement(m.seq)
           x1 == Element(2, 0, a)
           x2 == Element(2, 1, m.key)
           V == ValueFields(2, m.value)
           P == TextFields(3, m.parent)
           o1 == Option(m.value, LAMBDA v : Explicit(2, EncodeNodeValue(v)))
           o2 == Option(m.parent, LAMBDA x : Primitive(3, x))
           O == V \cup P
           pre == <<x1, x2>>
<1>1. /\ m.seq \in Longs /\ m.key \in Seq(Nat)
      /\ m.value \in Maybes(ValueTypes) /\ m.parent \in Maybes(Octets)
      /\ m = [kind |-> "Create", seq |-> m.seq, key |-> m.key, value |-> m.value, parent |-> m.parent]
  BY DEF CreateTypes, Octets
<1>2. 0 \in 0..30 /\ 1 \in 0..30 /\ 2 \in 0..30 /\ 3 \in 0..30
  OBVIOUS
<1>3. Reads(Integer(0, m.seq), <<x1>>) /\ Reads(Primitive(1, m.key), <<x2>>)
  BY <1>1, <1>2, ReadsElements DEF Longs
<1>4. DecodeInt64(a) = {m.seq}
  BY <1>1, IntegerContent DEF Longs
<1>5. Holds(o1, V) /\ \A y \in V : y.tag = 2
  BY <1>1, <1>2, ValueOption
<1>6. Holds(o2, P) /\ \A y \in P : y.tag = 3
  BY <1>1, <1>2, TextOption
<1>7. d = Integer(0, m.seq) \o Primitive(1, m.key) \o o1 \o o2
  BY DEF EncodeCreate
<1>8. Len(pre) = 2 /\ pre[1] = x1 /\ pre[2] = x2
  OBVIOUS
<1>9. Reads(Integer(0, m.seq) \o Primitive(1, m.key), pre)
  <2> HIDE DEF x1, x2
  <2> QED BY <1>3, ReadsPair
<1>10. ASSUME NEW t
       PROVE  /\ Alike(t, x1) => t.content = a
              /\ Alike(t, x2) => t.content = m.key
  BY DEF Alike, Element
<1> HIDE DEF d, a, x1, x2, V, P, o1, o2, pre
<1>11. Carries(d, pre, O)
  <2>1. Carries(Integer(0, m.seq) \o Primitive(1, m.key), pre, {})
    BY <1>9, CarriesNone
  <2>2. Carries(Integer(0, m.seq) \o Primitive(1, m.key) \o o1, pre, {} \cup V)
    BY <1>5, <2>1, CarriesMore
  <2>3. Carries(Integer(0, m.seq) \o Primitive(1, m.key) \o o1 \o o2, pre, {} \cup V \cup P)
    BY <1>5, <1>6, <2>2, CarriesMore
  <2>4. {} \cup V \cup P = O
    OBVIOUS
  <2> QED BY <1>7, <2>3, <2>4
<1>12. /\ \A y \in O : y.tag = 2 <=> y \in V
       /\ \A y \in O : y.tag = 3 <=> y \in P
       /\ \A y \in O : y \in V \/ y \in P
       /\ V \subseteq O /\ P \subseteq O
  BY <1>5, <1>6
<1> HIDE DEF O
<1>13. d \in Seq(Nat)
  BY <1>11, CarriesShown
<1> SUFFICES ASSUME Short(d) PROVE Decoded(d, CreateFields) = {m}
  BY <1>13 DEF d
<1>14. PICK ts : /\ Sees(d, ts, Len(ts)) /\ Len(ts) >= 2 /\ Len(ts) \in Nat
                 /\ ts[1].content = a /\ ts[2].content = m.key /\ Behind(ts, 3, O)
  <2>1. PICK ts : /\ Sees(d, ts, Len(ts)) /\ Len(ts) >= Len(pre) /\ Len(ts) \in Nat
                  /\ \A i \in 1..Len(pre) : Alike(ts[i], pre[i])
                  /\ Behind(ts, Len(pre) + 1, O)
    BY <1>11, CarriesShown
  <2>2. 1 \in 1..Len(pre) /\ 2 \in 1..Len(pre) /\ Len(pre) + 1 = 3
    BY <1>8
  <2>3. Alike(ts[1], x1) /\ Alike(ts[2], x2)
    BY <1>8, <2>1, <2>2
  <2>4. Behind(ts, 3, O)
    BY <2>1, <2>2
  <2> QED BY <1>8, <1>10, <2>1, <2>3, <2>4
<1>15. Optional(ts, 3, 2, CreateField) = m.value
  <2> DEFINE at == Tagged(ts, 3, 2)
  <2>1. Optional(ts, 3, 2, CreateField) = IF at = {} THEN {} ELSE CreateField(ts[Max(at)])
    BY DEF Optional, Tagged
  <2>3. /\ (\A y \in O : y.tag # 2) => at = {}
        /\ \A y \in O : y.tag = 2 => at # {} /\ Alike(ts[Max(at)], y)
    BY <1>14, OptionalAt
  <2> HIDE DEF at
  <2>4. CASE m.value = {}
    <3>1. V = {}
      BY <2>4 DEF V, ValueFields
    <3> QED BY <1>12, <2>1, <2>3, <2>4, <3>1
  <2>5. CASE m.value # {}
    <3>1. PICK v \in ValueTypes : m.value = {v}
      BY <1>1, <2>5, MaybeCases
    <3>2. Element(2, 2, EncodeNodeValue(v)) \in V
      BY <3>1 DEF V, ValueFields
    <3>3. at # {} /\ Alike(ts[Max(at)], Element(2, 2, EncodeNodeValue(v)))
      BY <1>12, <2>3, <3>2
    <3>4. CreateField(ts[Max(at)]) = {v}
      BY <3>3, CreateFieldOf
    <3> QED BY <2>1, <3>1, <3>3, <3>4
  <2> QED BY <2>4, <2>5
<1>16. Optional(ts, 3, 3, CreateField) = m.parent
  <2> DEFINE at == Tagged(ts, 3, 3)
  <2>1. Optional(ts, 3, 3, CreateField) = IF at = {} THEN {} ELSE CreateField(ts[Max(at)])
    BY DEF Optional, Tagged
  <2>3. /\ (\A y \in O : y.tag # 3) => at = {}
        /\ \A y \in O : y.tag = 3 => at # {} /\ Alike(ts[Max(at)], y)
    BY <1>14, OptionalAt
  <2> HIDE DEF at
  <2>4. CASE m.parent = {}
    <3>1. P = {}
      BY <2>4 DEF P, TextFields
    <3> QED BY <1>12, <2>1, <2>3, <2>4, <3>1
  <2>5. CASE m.parent # {}
    <3>1. PICK x \in Octets : m.parent = {x}
      BY <1>1, <2>5, MaybeCases
    <3>2. Element(2, 3, x) \in P
      BY <3>1 DEF P, TextFields
    <3>3. at # {} /\ Alike(ts[Max(at)], Element(2, 3, x))
      BY <1>12, <2>3, <3>2
    <3>4. CreateField(ts[Max(at)]) = {x}
      BY <3>3, CreateFieldOf
    <3> QED BY <2>1, <3>1, <3>3, <3>4
  <2> QED BY <2>4, <2>5
<1>17. Decodable(ts, 3, CreateField)
  <2> SUFFICES ASSUME NEW i \in 3..Len(ts) PROVE CreateField(ts[i]) # {}
    BY DEF Decodable
  <2>1. PICK y \in O : Alike(ts[i], y)
    BY <1>14 DEF Behind
  <2>2. CASE y \in V
    <3>1. PICK v \in m.value : y = Element(2, 2, EncodeNodeValue(v))
      BY <2>2 DEF V, ValueFields
    <3>2. v \in ValueTypes
      BY <1>1, MaybeCases
    <3>3. CreateField(ts[i]) = {v}
      BY <2>1, <3>1, <3>2, CreateFieldOf
    <3> QED BY <3>3
  <2>3. CASE y \in P
    <3>1. PICK x \in m.parent : y = Element(2, 3, x)
      BY <2>3 DEF P, TextFields
    <3>2. x \in Octets
      BY <1>1, MaybeCases
    <3>3. CreateField(ts[i]) = {x}
      BY <2>1, <3>1, <3>2, CreateFieldOf
    <3> QED BY <3>3
  <2> QED BY <1>12, <2>2, <2>3
<1>18. CreateFields(ts) = {m}
  <2>1. ~ Len(ts) < 2
    BY <1>14
  <2>2. CreateFields(ts) = {[kind |-> "Create", seq |-> s, key |-> m.key, value |-> m.value,
                             parent |-> m.parent] : s \in {m.seq}}
    BY <1>4, <1>14, <1>15, <1>16, <1>17, <2>1 DEF CreateFields
  <2> QED BY <1>1, <2>2
<1>19. Decoded(d, CreateFields) = {m}
  BY <1>14, <1>18 DEF Decoded, Sees
<1> QED BY <1>19

-----------------------------------------------------------------------------
(* Query.                                                                   *)

QueryTypes == [kind : {"Query"}, seq : Longs, expression : Octets, mode : ModeTypes,
               aggregationInterval : Maybes(Longs), aggregationMethod : Maybes(MethodTypes),
               transferInterval : Longs]

IntegerFields(tag, field) == {Element(2, tag, TwosComplement(n)) : n \in field}
MethodFields(tag, field)  == {Element(2, tag, EncodeAggregationMethod(a)) : a \in field}

\* An OPTIONAL INTEGER is written as its one element or as nothing.
LEMMA IntegerOption ==
    ASSUME NEW tag \in 0..30, NEW field \in Maybes(Longs)
    PROVE  /\ Holds(Option(field, LAMBDA n : Integer(tag, n)), IntegerFields(tag, field))
           /\ \A y \in IntegerFields(tag, field) : y.tag = tag
<1>1. CASE field = {}
  <2>1. Option(field, LAMBDA n : Integer(tag, n)) = <<>>
    BY <1>1 DEF Option
  <2> QED BY <1>1, <2>1 DEF Holds, IntegerFields
<1>2. CASE field # {}
  <2>1. PICK n \in Longs : field = {n} /\ (CHOOSE u \in field : TRUE) = n
    BY <1>2, MaybeCases
  <2>2. Option(field, LAMBDA k : Integer(tag, k)) = Integer(tag, n)
    BY <1>2, <2>1 DEF Option
  <2>3. IntegerFields(tag, field) = {Element(2, tag, TwosComplement(n))}
    BY <2>1 DEF IntegerFields
  <2>4. Reads(Integer(tag, n), <<Element(2, tag, TwosComplement(n))>>)
    BY <2>1, ReadsElements DEF Longs
  <2>5. Holds(Integer(tag, n), {Element(2, tag, TwosComplement(n))})
    BY <2>4, ReadsSingle
  <2> QED BY <2>2, <2>3, <2>5 DEF Element
<1> QED BY <1>1, <1>2

\* The same of an AggregationMethod.
LEMMA MethodOption ==
    ASSUME NEW tag \in 0..30, NEW field \in Maybes(MethodTypes)
    PROVE  /\ Holds(Option(field, LAMBDA a : Explicit(tag, EncodeAggregationMethod(a))), MethodFields(tag, field))
           /\ \A y \in MethodFields(tag, field) : y.tag = tag
<1>1. CASE field = {}
  <2>1. Option(field, LAMBDA a : Explicit(tag, EncodeAggregationMethod(a))) = <<>>
    BY <1>1 DEF Option
  <2> QED BY <1>1, <2>1 DEF Holds, MethodFields
<1>2. CASE field # {}
  <2>1. PICK v \in MethodTypes : field = {v} /\ (CHOOSE u \in field : TRUE) = v
    BY <1>2, MaybeCases
  <2> DEFINE c == EncodeAggregationMethod(v)
  <2>2. Option(field, LAMBDA a : Explicit(tag, EncodeAggregationMethod(a))) = Explicit(tag, c)
    BY <1>2, <2>1 DEF Option
  <2>3. c \in Seq(Nat)
    BY MethodRoundTrip
  <2>4. MethodFields(tag, field) = {Element(2, tag, c)}
    BY <2>1 DEF MethodFields
  <2> HIDE DEF c
  <2>5. Holds(Explicit(tag, c), {Element(2, tag, c)})
    BY <2>3, ReadsElements, ReadsSingle
  <2> QED BY <2>2, <2>4, <2>5 DEF Element
<1> QED BY <1>1, <1>2

\* What a field of a Query is decoded to.
LEMMA QueryFieldOf ==
    ASSUME NEW t
    PROVE  /\ \A n \in Longs, g \in {3, 5} :
                Alike(t, Element(2, g, TwosComplement(n))) => QueryField(t) = {n}
           /\ \A a \in MethodTypes :
                Alike(t, Element(2, 4, EncodeAggregationMethod(a))) =>
                    QueryField(t) = IF Fits(a) THEN {a} ELSE {}
<1>1. ASSUME NEW g, NEW c, Alike(t, Element(2, g, c)) PROVE t.tag = g /\ t.content = c /\ Short(c)
  BY <1>1 DEF Alike, Element
<1>2. /\ t.tag \in {3, 5} => QueryField(t) = DecodeInt64(t.content)
      /\ t.tag = 4 => QueryField(t) = DecodeAggregationMethod(t.content)
  BY DEF QueryField
<1>3. ASSUME NEW n \in Longs, NEW g \in {3, 5}, Alike(t, Element(2, g, TwosComplement(n)))
      PROVE  QueryField(t) = {n}
  <2>1. t.tag = g /\ t.content = TwosComplement(n)
    BY <1>1, <1>3
  <2>2. DecodeInt64(TwosComplement(n)) = {n}
    BY IntegerContent DEF Longs
  <2> QED BY <1>2, <2>1, <2>2
<1>4. ASSUME NEW a \in MethodTypes, Alike(t, Element(2, 4, EncodeAggregationMethod(a)))
      PROVE  QueryField(t) = IF Fits(a) THEN {a} ELSE {}
  <2>1. t.tag = 4 /\ t.content = EncodeAggregationMethod(a) /\ Short(EncodeAggregationMethod(a))
    BY <1>1, <1>4
  <2> QED BY <1>2, <2>1, MethodRoundTrip
<1> QED BY <1>3, <1>4

\* encodeQuery and decodeQuery: a Query comes back, or is refused for its percentile.
LEMMA QueryRoundTrip ==
    ASSUME NEW m \in QueryTypes
    PROVE  /\ EncodeQuery(m) \in Seq(Nat)
           /\ Short(EncodeQuery(m)) =>
                 Decoded(EncodeQuery(m), QueryFields)
                   = IF \A a \in m.aggregationMethod : Fits(a) THEN {m} ELSE {}
<1> DEFINE d == EncodeQuery(m)
           a == TwosComplement(m.seq)
           c == EncodeCollectionMode(m.mode)
           x1 == Element(2, 0, a)
           x2 == Element(2, 1, m.expression)
           x3 == Element(2, 2, c)
           N == IntegerFields(3, m.aggregationInterval)
           A == MethodFields(4, m.aggregationMethod)
           y5 == Element(2, 5, TwosComplement(m.transferInterval))
           o1 == Option(m.aggregationInterval, LAMBDA n : Integer(3, n))
           o2 == Option(m.aggregationMethod, LAMBDA x : Explicit(4, EncodeAggregationMethod(x)))
           o3 == Integer(5, m.transferInterval)
           p3 == Integer(0, m.seq) \o Primitive(1, m.expression) \o Explicit(2, c)
           O == N \cup A \cup {y5}
           pre == <<x1, x2, x3>>
<1>1. /\ m.seq \in Longs /\ m.expression \in Seq(Nat) /\ m.mode \in ModeTypes
      /\ m.aggregationInterval \in Maybes(Longs) /\ m.aggregationMethod \in Maybes(MethodTypes)
      /\ m.transferInterval \in Longs
      /\ m = [kind |-> "Query", seq |-> m.seq, expression |-> m.expression, mode |-> m.mode,
              aggregationInterval |-> m.aggregationInterval,
              aggregationMethod |-> m.aggregationMethod, transferInterval |-> m.transferInterval]
  BY DEF QueryTypes, Octets
<1>2. /\ 0 \in 0..30 /\ 1 \in 0..30 /\ 2 \in 0..30 /\ 3 \in 0..30 /\ 4 \in 0..30 /\ 5 \in 0..30
      /\ 3 \in {3, 5} /\ 5 \in {3, 5}
  OBVIOUS
<1>3. c \in Seq(Nat) /\ (Short(c) => DecodeCollectionMode(c) = {m.mode})
  BY <1>1, ModeRoundTrip
<1>4. DecodeInt64(a) = {m.seq}
  BY <1>1, IntegerContent DEF Longs
<1>5. Holds(o1, N) /\ \A y \in N : y.tag = 3
  BY <1>1, <1>2, IntegerOption
<1>6. Holds(o2, A) /\ \A y \in A : y.tag = 4
  BY <1>1, <1>2, MethodOption
<1>7. d = p3 \o o1 \o o2 \o o3
  BY DEF EncodeQuery
<1> HIDE DEF c
<1>8. Len(pre) = 3 /\ pre[1] = x1 /\ pre[2] = x2 /\ pre[3] = x3
  OBVIOUS
<1>9. Reads(p3, pre)
  <2>1. /\ Reads(Integer(0, m.seq), <<x1>>) /\ Reads(Primitive(1, m.expression), <<x2>>)
        /\ Reads(Explicit(2, c), <<x3>>)
    BY <1>1, <1>2, <1>3, ReadsElements DEF Longs
  <2> HIDE DEF x1, x2, x3
  <2>2. Reads(Integer(0, m.seq) \o Primitive(1, m.expression), <<x1, x2>>)
    BY <2>1, ReadsPair
  <2> QED BY <2>1, <2>2, ReadsThird
<1>10. ASSUME NEW t
       PROVE  /\ Alike(t, x1) => t.content = a
              /\ Alike(t, x2) => t.content = m.expression
              /\ Alike(t, x3) => t.content = c /\ Short(c)
  BY DEF Alike, Element
<1>11. Holds(o3, {y5}) /\ y5.tag = 5
  <2>1. Reads(o3, <<y5>>)
    BY <1>1, <1>2, ReadsElements DEF Longs
  <2> HIDE DEF o3
  <2>2. Holds(o3, {y5})
    <3> HIDE DEF y5
    <3> QED BY <2>1, ReadsSingle
  <2> QED BY <2>2 DEF Element
<1>12. ASSUME NEW t, Alike(t, y5) PROVE QueryField(t) = {m.transferInterval}
  BY <1>1, <1>2, <1>12, QueryFieldOf
<1> HIDE DEF d, a, x1, x2, x3, y5, N, A, p3, o1, o2, o3, pre
<1>13. Carries(d, pre, O)
  <2>1. Carries(p3, pre, {})
    BY <1>9, CarriesNone
  <2>2. Carries(p3 \o o1, pre, {} \cup N)
    BY <1>5, <2>1, CarriesMore
  <2>3. Carries(p3 \o o1 \o o2, pre, {} \cup N \cup A)
    BY <1>5, <1>6, <2>2, CarriesMore
  <2>4. Carries(p3 \o o1 \o o2 \o o3, pre, {} \cup N \cup A \cup {y5})
    BY <1>5, <1>6, <1>11, <2>3, CarriesMore
  <2>5. {} \cup N \cup A \cup {y5} = O
    OBVIOUS
  <2> QED BY <1>7, <2>4, <2>5
<1>14. /\ \A y \in O : y.tag = 3 <=> y \in N
       /\ \A y \in O : y.tag = 4 <=> y \in A
       /\ \A y \in O : y \in N \/ y \in A \/ y = y5
       /\ N \subseteq O /\ A \subseteq O /\ y5 \in O
  BY <1>5, <1>6, <1>11
<1> HIDE DEF O
<1>15. d \in Seq(Nat)
  BY <1>13, CarriesShown
<1> SUFFICES ASSUME Short(d)
             PROVE  Decoded(d, QueryFields) = IF \A v \in m.aggregationMethod : Fits(v) THEN {m} ELSE {}
  BY <1>15 DEF d
<1>16. PICK ts : /\ Sees(d, ts, Len(ts)) /\ Len(ts) >= 3 /\ Len(ts) \in Nat
                 /\ ts[1].content = a /\ ts[2].content = m.expression /\ ts[3].content = c /\ Short(c)
                 /\ Behind(ts, 4, O)
  <2>1. PICK ts : /\ Sees(d, ts, Len(ts)) /\ Len(ts) >= Len(pre) /\ Len(ts) \in Nat
                  /\ \A i \in 1..Len(pre) : Alike(ts[i], pre[i])
                  /\ Behind(ts, Len(pre) + 1, O)
    BY <1>13, CarriesShown
  <2>2. 1 \in 1..Len(pre) /\ 2 \in 1..Len(pre) /\ 3 \in 1..Len(pre) /\ Len(pre) + 1 = 4
    BY <1>8
  <2>3. Alike(ts[1], x1) /\ Alike(ts[2], x2) /\ Alike(ts[3], x3)
    BY <1>8, <2>1, <2>2
  <2>4. Behind(ts, 4, O)
    BY <2>1, <2>2
  <2> QED BY <1>8, <1>10, <2>1, <2>3, <2>4
<1>17. Optional(ts, 4, 3, QueryField) = m.aggregationInterval
  <2> DEFINE at == Tagged(ts, 4, 3)
  <2>1. Optional(ts, 4, 3, QueryField) = IF at = {} THEN {} ELSE QueryField(ts[Max(at)])
    BY DEF Optional, Tagged
  <2>3. /\ (\A y \in O : y.tag # 3) => at = {}
        /\ \A y \in O : y.tag = 3 => at # {} /\ Alike(ts[Max(at)], y)
    BY <1>16, OptionalAt
  <2> HIDE DEF at
  <2>4. CASE m.aggregationInterval = {}
    <3>1. N = {}
      BY <2>4 DEF N, IntegerFields
    <3> QED BY <1>14, <2>1, <2>3, <2>4, <3>1
  <2>5. CASE m.aggregationInterval # {}
    <3>1. PICK n \in Longs : m.aggregationInterval = {n}
      BY <1>1, <2>5, MaybeCases
    <3>2. Element(2, 3, TwosComplement(n)) \in N
      BY <3>1 DEF N, IntegerFields
    <3>3. at # {} /\ Alike(ts[Max(at)], Element(2, 3, TwosComplement(n)))
      BY <1>14, <2>3, <3>2
    <3>4. QueryField(ts[Max(at)]) = {n}
      BY <1>2, <3>3, QueryFieldOf
    <3> QED BY <2>1, <3>1, <3>3, <3>4
  <2> QED BY <2>4, <2>5
<1>18. Optional(ts, 4, 5, QueryField) = {m.transferInterval}
  <2> DEFINE at == Tagged(ts, 4, 5)
  <2>1. Optional(ts, 4, 5, QueryField) = IF at = {} THEN {} ELSE QueryField(ts[Max(at)])
    BY DEF Optional, Tagged
  <2>2. \A y \in O : y.tag = 5 => at # {} /\ Alike(ts[Max(at)], y)
    BY <1>16, OptionalAt
  <2> HIDE DEF at
  <2>3. at # {} /\ Alike(ts[Max(at)], y5)
    BY <1>11, <1>14, <2>2
  <2> QED BY <1>12, <2>1, <2>3
<1>19. ASSUME NEW v \in MethodTypes, m.aggregationMethod = {v}
       PROVE  Element(2, 4, EncodeAggregationMethod(v)) \in A
  BY <1>19 DEF A, MethodFields
<1>20. CASE \A v \in m.aggregationMethod : Fits(v)
  <2>1. Optional(ts, 4, 4, QueryField) = m.aggregationMethod
    <3> DEFINE at == Tagged(ts, 4, 4)
    <3>1. Optional(ts, 4, 4, QueryField) = IF at = {} THEN {} ELSE QueryField(ts[Max(at)])
      BY DEF Optional, Tagged
    <3>3. /\ (\A y \in O : y.tag # 4) => at = {}
          /\ \A y \in O : y.tag = 4 => at # {} /\ Alike(ts[Max(at)], y)
      BY <1>16, OptionalAt
    <3> HIDE DEF at
    <3>4. CASE m.aggregationMethod = {}
      <4>1. A = {}
        BY <3>4 DEF A, MethodFields
      <4> QED BY <1>14, <3>1, <3>3, <3>4, <4>1
    <3>5. CASE m.aggregationMethod # {}
      <4>1. PICK v \in MethodTypes : m.aggregationMethod = {v}
        BY <1>1, <3>5, MaybeCases
      <4>2. Element(2, 4, EncodeAggregationMethod(v)) \in A
        BY <1>19, <4>1
      <4>3. at # {} /\ Alike(ts[Max(at)], Element(2, 4, EncodeAggregationMethod(v)))
        BY <1>14, <3>3, <4>2
      <4>4. QueryField(ts[Max(at)]) = IF Fits(v) THEN {v} ELSE {}
        BY <4>3, QueryFieldOf
      <4> QED BY <1>20, <3>1, <4>1, <4>3, <4>4
    <3> QED BY <3>4, <3>5
  <2>2. Decodable(ts, 4, QueryField)
    <3> SUFFICES ASSUME NEW i \in 4..Len(ts) PROVE QueryField(ts[i]) # {}
      BY DEF Decodable
    <3>1. PICK y \in O : Alike(ts[i], y)
      BY <1>16 DEF Behind
    <3>2. CASE y \in N
      <4>1. PICK n \in m.aggregationInterval : y = Element(2, 3, TwosComplement(n))
        BY <3>2 DEF N, IntegerFields
      <4>2. n \in Longs
        BY <1>1, MaybeCases
      <4>3. QueryField(ts[i]) = {n}
        BY <1>2, <3>1, <4>1, <4>2, QueryFieldOf
      <4> QED BY <4>3
    <3>3. CASE y \in A
      <4>1. PICK v \in m.aggregationMethod : y = Element(2, 4, EncodeAggregationMethod(v))
        BY <3>3 DEF A, MethodFields
      <4>2. v \in MethodTypes /\ Fits(v)
        BY <1>1, <1>20, MaybeCases
      <4>3. QueryField(ts[i]) = {v}
        BY <3>1, <4>1, <4>2, QueryFieldOf
      <4> QED BY <4>3
    <3>4. CASE y = y5
      BY <1>12, <3>1, <3>4
    <3> QED BY <1>14, <3>2, <3>3, <3>4
  <2>3. QueryFields(ts) = {m}
    <3>1. ~ Len(ts) < 3
      BY <1>16
    <3> DEFINE i == Optional(ts, 4, 3, QueryField)
               f == Optional(ts, 4, 4, QueryField)
               o == Optional(ts, 4, 5, QueryField)
               t == IF o = {} THEN 0 ELSE CHOOSE n \in o : TRUE
    <3>2. QueryFields(ts) =
            {[kind |-> "Query", seq |-> s, expression |-> ts[2].content, mode |-> k,
              aggregationInterval |-> i, aggregationMethod |-> f, transferInterval |-> t] :
                s \in DecodeInt64(ts[1].content), k \in DecodeCollectionMode(ts[3].content)}
      BY <2>2, <3>1 DEF QueryFields
    <3> HIDE DEF i, f, o
    <3>3. o = {m.transferInterval}
      BY <1>18 DEF o
    <3>4. t = m.transferInterval
      BY <3>3
    <3> HIDE DEF t
    <3>5. i = m.aggregationInterval /\ f = m.aggregationMethod
      BY <1>17, <2>1 DEF i, f
    <3>6. QueryFields(ts) =
            {[kind |-> "Query", seq |-> s, expression |-> m.expression, mode |-> k,
              aggregationInterval |-> i, aggregationMethod |-> f, transferInterval |-> t] :
                s \in {m.seq}, k \in {m.mode}}
      BY <1>3, <1>4, <1>16, <3>2
    <3> QED BY <1>1, <3>4, <3>5, <3>6
  <2>4. Decoded(d, QueryFields) = {m}
    BY <1>16, <2>3 DEF Decoded, Sees
  <2> QED BY <1>20, <2>4
<1>21. CASE ~ \A v \in m.aggregationMethod : Fits(v)
  <2>1. PICK v \in m.aggregationMethod : ~ Fits(v)
    BY <1>21
  <2>2. v \in MethodTypes /\ m.aggregationMethod = {v}
    BY <1>1, <2>1, MaybeCases
  <2>3. Element(2, 4, EncodeAggregationMethod(v)) \in O
    BY <1>14, <1>19, <2>2
  <2>4. PICK i \in 4..Len(ts) : Alike(ts[i], Element(2, 4, EncodeAggregationMethod(v)))
    BY <1>16, <2>3 DEF Behind
  <2>5. QueryField(ts[i]) = {}
    BY <2>1, <2>2, <2>4, QueryFieldOf
  <2>6. ~ Decodable(ts, 4, QueryField)
    BY <2>4, <2>5 DEF Decodable
  <2>7. QueryFields(ts) = {}
    BY <2>6 DEF QueryFields
  <2>8. Decoded(d, QueryFields) = {}
    BY <1>16, <2>7 DEF Decoded, Sees
  <2> QED BY <1>21, <2>8
<1> QED BY <1>20, <1>21

-----------------------------------------------------------------------------
(* Response.                                                                *)

\* Four elements and a sequence of one.
LEMMA ConcatFifth ==
    ASSUME NEW S, NEW a \in S, NEW b \in S, NEW c \in S, NEW d \in S, NEW e \in S
    PROVE  <<a, b, c, d>> \o <<e>> = <<a, b, c, d, e>>
<1> DEFINE s == <<a, b, c, d>>
           t == <<e>>
           u == s \o t
           v == <<a, b, c, d, e>>
<1>1. /\ s \in Seq(S) /\ t \in Seq(S) /\ Len(s) = 4 /\ Len(t) = 1
      /\ s[1] = a /\ s[2] = b /\ s[3] = c /\ s[4] = d /\ t[1] = e
  OBVIOUS
<1>2. v \in Seq(S) /\ Len(v) = 5 /\ v[1] = a /\ v[2] = b /\ v[3] = c /\ v[4] = d /\ v[5] = e
  OBVIOUS
<1> HIDE DEF s, t, v
<1>3. /\ u \in Seq(S) /\ Len(u) = Len(s) + Len(t)
      /\ \A i \in 1..(Len(s) + Len(t)) : u[i] = IF i <= Len(s) THEN s[i] ELSE t[i - Len(s)]
  BY <1>1, ConcatProperties
<1> HIDE DEF u
<1>4. Len(u) = 5 /\ u[1] = a /\ u[2] = b /\ u[3] = c /\ u[4] = d /\ u[5] = e
  BY <1>1, <1>3
<1>5. \A i \in 1..5 : u[i] = v[i]
  BY <1>2, <1>4
<1>6. u = v
  BY <1>2, <1>3, <1>4, <1>5, SeqEqual
<1> QED BY <1>6 DEF u, v, s, t

\* One element behind four.
LEMMA ReadsFifth ==
    ASSUME NEW d, NEW e, NEW a, NEW b, NEW c, NEW f, NEW g,
           Reads(d, <<a, b, c, f>>), Reads(e, <<g>>)
    PROVE  Reads(d \o e, <<a, b, c, f, g>>)
<1>1. Reads(d \o e, <<a, b, c, f>> \o <<g>>)
  BY ReadsConcat
<1>2. a \in WireItems /\ b \in WireItems /\ c \in WireItems /\ f \in WireItems /\ g \in WireItems
  <2>1. <<g>> \in Seq(WireItems) /\ <<a, b, c, f>> \in Seq(WireItems)
    BY DEF Reads
  <2> DEFINE s == <<a, b, c, f>>
  <2>2. Len(s) = 4 /\ s[1] = a /\ s[2] = b /\ s[3] = c /\ s[4] = f /\ s \in Seq(WireItems)
    BY <2>1
  <2> HIDE DEF s
  <2>3. 1 \in 1..Len(s) /\ 2 \in 1..Len(s) /\ 3 \in 1..Len(s) /\ 4 \in 1..Len(s)
    BY <2>2
  <2> QED BY <2>1, <2>2, <2>3, SingleElement, ElementOfSeq
<1>3. <<a, b, c, f>> \o <<g>> = <<a, b, c, f, g>>
  BY <1>2, ConcatFifth
<1> QED BY <1>1, <1>3

\* What a decoder sees of five elements.
LEMMA SeesFive ==
    ASSUME NEW d, Short(d), NEW a, NEW b, NEW c, NEW e, NEW f, Reads(d, <<a, b, c, e, f>>)
    PROVE  \E ts : /\ Sees(d, ts, 5) /\ Alike(ts[1], a) /\ Alike(ts[2], b)
                   /\ Alike(ts[3], c) /\ Alike(ts[4], e) /\ Alike(ts[5], f)
<1> DEFINE cs == <<a, b, c, e, f>>
<1>1. Len(cs) = 5 /\ cs[1] = a /\ cs[2] = b /\ cs[3] = c /\ cs[4] = e /\ cs[5] = f
  OBVIOUS
<1>2. Reads(d, cs)
  OBVIOUS
<1> HIDE DEF cs
<1>3. PICK ts : Sees(d, ts, Len(cs)) /\ \A i \in 1..Len(cs) : Alike(ts[i], cs[i])
  BY <1>2, ReadsShown
<1>4. \A i \in 1..5 : Alike(ts[i], cs[i])
  BY <1>1, <1>3
<1>5. 1 \in 1..5 /\ 2 \in 1..5 /\ 3 \in 1..5 /\ 4 \in 1..5 /\ 5 \in 1..5
  OBVIOUS
<1> QED BY <1>1, <1>3, <1>4, <1>5

\* encodeBool and decodeBool.
LEMMA BoolRoundTrip ==
    \A b \in BOOLEAN : EncodeBool(b) \in Seq(Nat) /\ DecodeBool(EncodeBool(b)) = {b}
<1>1. EncodeBool(TRUE) = <<255>> /\ EncodeBool(FALSE) = <<0>>
  BY DEF EncodeBool
<1>2. DecodeBool(<<255>>) = {TRUE} /\ DecodeBool(<<0>>) = {FALSE}
  <2>1. Len(<<255>>) = 1 /\ <<255>>[1] = 255 /\ Len(<<0>>) = 1 /\ <<0>>[1] = 0
    OBVIOUS
  <2>2. (255 # 0) = TRUE /\ (0 # 0) = FALSE
    OBVIOUS
  <2>3. {<<255>>[1] # 0} = {TRUE}
    BY <2>1, <2>2
  <2>4. {<<0>>[1] # 0} = {FALSE}
    BY <2>1, <2>2
  <2>5. DecodeBool(<<255>>) = {<<255>>[1] # 0} /\ DecodeBool(<<0>>) = {<<0>>[1] # 0}
    BY <2>1 DEF DecodeBool
  <2> QED BY <2>3, <2>4, <2>5
<1>3. <<255>> \in Seq(Nat) /\ <<0>> \in Seq(Nat)
  OBVIOUS
<1> TAKE b \in BOOLEAN
<1>4. b = TRUE \/ b = FALSE
  OBVIOUS
<1> QED BY <1>1, <1>2, <1>3, <1>4

ResponseTypes == [kind : {"Response"}, seq : Longs, inReplyTo : Longs, error : BOOLEAN,
                  errorNode : Maybes(PointerTypes), nodes : Seq(NodeTypes)]

\* The Responses with fields from these sets, and the nodes that octets are read as.
Answers(S, T, E, P, N) ==
    {[kind |-> "Response", seq |-> s, inReplyTo |-> to, error |-> e,
      errorNode |-> p, nodes |-> ns] : s \in S, to \in T, e \in E, p \in P, ns \in N}
NodesOf(d) == Decoded(d, LAMBDA us : Each(us, DecodeNode))

\* The fields of a Response, without and with the errorNode.
LEMMA ResponseFieldsOf ==
    ASSUME NEW ts
    PROVE  /\ Len(ts) = 4 /\ ts[4].tag = 4 =>
                ResponseFields(ts) =
                    Answers(DecodeInt64(ts[1].content), DecodeInt64(ts[2].content),
                            DecodeBool(ts[3].content), {{}}, NodesOf(ts[4].content))
           /\ Len(ts) = 5 /\ ts[4].tag = 3 /\ ts[5].tag = 4 =>
                ResponseFields(ts) =
                    Answers(DecodeInt64(ts[1].content), DecodeInt64(ts[2].content),
                            DecodeBool(ts[3].content),
                            {{q} : q \in DecodeNodePointer(ts[4].content)}, NodesOf(ts[5].content))
<1> DEFINE S == DecodeInt64(ts[1].content)
           T == DecodeInt64(ts[2].content)
           E == DecodeBool(ts[3].content)
           Q == {{q} : q \in DecodeNodePointer(ts[4].content)}
           P(n) == IF n = 4 THEN {{}} ELSE Q
<1>1. ASSUME NEW n, n = NodesAt(ts), ~ Len(ts) < 4, Len(ts) = n, ts[n].tag = 4
      PROVE  ResponseFields(ts) = Answers(S, T, E, P(n), NodesOf(ts[n].content))
  BY <1>1 DEF ResponseFields, Answers, NodesOf
<1>2. Len(ts) = 4 /\ ts[4].tag = 4 => ~ Len(ts) < 4 /\ NodesAt(ts) = 4
  BY DEF NodesAt
<1>3. Len(ts) = 5 /\ ts[4].tag = 3 => ~ Len(ts) < 4 /\ NodesAt(ts) = 5
  BY DEF NodesAt
<1>4. P(4) = {{}} /\ P(5) = Q
  OBVIOUS
<1> HIDE DEF S, T, E, Q, P
<1>5. ASSUME Len(ts) = 4, ts[4].tag = 4
      PROVE  ResponseFields(ts) = Answers(S, T, E, {{}}, NodesOf(ts[4].content))
  <2>1. ResponseFields(ts) = Answers(S, T, E, P(4), NodesOf(ts[4].content))
    BY <1>1, <1>2, <1>5
  <2> QED BY <1>4, <2>1
<1>6. ASSUME Len(ts) = 5, ts[4].tag = 3, ts[5].tag = 4
      PROVE  ResponseFields(ts) = Answers(S, T, E, Q, NodesOf(ts[5].content))
  <2>1. ResponseFields(ts) = Answers(S, T, E, P(5), NodesOf(ts[5].content))
    BY <1>1, <1>3, <1>6
  <2> QED BY <1>4, <2>1
<1> QED BY <1>5, <1>6 DEF S, T, E, Q

\* encodeResponse and decodeResponse, with and without the errorNode.
LEMMA ResponseRoundTrip ==
    ASSUME NEW m \in ResponseTypes
    PROVE  /\ EncodeResponse(m) \in Seq(Nat)
           /\ Short(EncodeResponse(m)) => Decoded(EncodeResponse(m), ResponseFields) = {m}
<1> DEFINE d == EncodeResponse(m)
           a == TwosComplement(m.seq)
           b == TwosComplement(m.inReplyTo)
           e == EncodeBool(m.error)
           c == All(m.nodes, EncodeNode)
           x1 == Element(2, 0, a)
           x2 == Element(2, 1, b)
           x3 == Element(2, 2, e)
           x5 == Element(2, 4, c)
           p3 == Integer(0, m.seq) \o Integer(1, m.inReplyTo) \o Primitive(2, e)
           o == Option(m.errorNode, LAMBDA p : Explicit(3, EncodeNodePointer(p)))
           f == Explicit(4, c)
<1>1. /\ m.seq \in Longs /\ m.inReplyTo \in Longs /\ m.error \in BOOLEAN
      /\ m.errorNode \in Maybes(PointerTypes) /\ m.nodes \in Seq(NodeTypes)
      /\ m = [kind |-> "Response", seq |-> m.seq, inReplyTo |-> m.inReplyTo, error |-> m.error,
              errorNode |-> m.errorNode, nodes |-> m.nodes]
  BY DEF ResponseTypes
<1>2. 0 \in 0..30 /\ 1 \in 0..30 /\ 2 \in 0..30 /\ 3 \in 0..30 /\ 4 \in 0..30
  OBVIOUS
<1>3. c \in Seq(Nat) /\ (Short(c) => NodesOf(c) = {m.nodes})
  BY <1>1, NodesRoundTrip DEF NodesOf
<1>4. e \in Seq(Nat) /\ DecodeBool(e) = {m.error}
  BY <1>1, BoolRoundTrip
<1>5. DecodeInt64(a) = {m.seq} /\ DecodeInt64(b) = {m.inReplyTo}
  BY <1>1, IntegerContent DEF Longs
<1>6. d = p3 \o o \o f
  BY DEF EncodeResponse
<1> HIDE DEF c, e
<1>9. Reads(p3, <<x1, x2, x3>>)
  <2>1. Reads(Integer(0, m.seq), <<x1>>) /\ Reads(Integer(1, m.inReplyTo), <<x2>>)
    BY <1>1, <1>2, ReadsElements DEF Longs
  <2>2. Reads(Primitive(2, e), <<x3>>)
    BY <1>2, <1>4, ReadsElements
  <2> HIDE DEF x1, x2, x3
  <2>3. Reads(Integer(0, m.seq) \o Integer(1, m.inReplyTo), <<x1, x2>>)
    BY <2>1, ReadsPair
  <2> QED BY <2>2, <2>3, ReadsThird
<1>10. Reads(f, <<x5>>)
  BY <1>2, <1>3, ReadsElements
<1>11. ASSUME NEW t
       PROVE  /\ Alike(t, x1) => t.content = a
              /\ Alike(t, x2) => t.content = b
              /\ Alike(t, x3) => t.content = e
              /\ Alike(t, x5) => t.content = c /\ t.tag = 4 /\ Short(c)
  BY DEF Alike, Element
<1> HIDE DEF d, a, b, x1, x2, x3, x5, p3, f
<1>12. CASE m.errorNode = {}
  <2>1. o = <<>>
    BY <1>12 DEF Option
  <2>2. d = p3 \o f
    <3>1. p3 \in Seq(Nat)
      BY <1>9 DEF Reads
    <3> QED BY <1>6, <2>1, <3>1, ConcatEmptySeq
  <2>3. Reads(d, <<x1, x2, x3, x5>>)
    BY <1>9, <1>10, <2>2, ReadsFourth
  <2>4. d \in Seq(Nat)
    BY <2>3 DEF Reads
  <2> SUFFICES ASSUME Short(d) PROVE Decoded(d, ResponseFields) = {m}
    BY <2>4 DEF d
  <2>5. PICK ts : /\ Sees(d, ts, 4) /\ Alike(ts[1], x1) /\ Alike(ts[2], x2)
                  /\ Alike(ts[3], x3) /\ Alike(ts[4], x5)
    BY <2>3, SeesFour
  <2>6. /\ ts[1].content = a /\ ts[2].content = b /\ ts[3].content = e
        /\ ts[4].content = c /\ ts[4].tag = 4 /\ Len(ts) = 4 /\ Short(c)
    BY <1>11, <2>5 DEF Sees
  <2>7. ResponseFields(ts) = Answers({m.seq}, {m.inReplyTo}, {m.error}, {{}}, {m.nodes})
    BY <1>3, <1>4, <1>5, <2>6, ResponseFieldsOf
  <2>8. ResponseFields(ts) = {m}
    <3>1. ResponseFields(ts) = {[kind |-> "Response", seq |-> m.seq, inReplyTo |-> m.inReplyTo,
             error |-> m.error, errorNode |-> {}, nodes |-> m.nodes]}
      BY <2>7 DEF Answers
    <3> QED BY <1>1, <1>12, <3>1
  <2>9. Decoded(d, ResponseFields) = {m}
    BY <2>5, <2>8 DEF Decoded, Sees
  <2> QED BY <2>9
<1>13. CASE m.errorNode # {}
  <2>1. PICK p \in PointerTypes : m.errorNode = {p} /\ (CHOOSE u \in m.errorNode : TRUE) = p
    BY <1>1, <1>13, MaybeCases
  <2> DEFINE g == EncodeNodePointer(p)
             x4 == Element(2, 3, g)
  <2>2. g \in Seq(Nat) /\ (Short(g) => DecodeNodePointer(g) = {p})
    BY NodePointerRoundTrip
  <2>3. o = Explicit(3, g)
    BY <1>13, <2>1 DEF Option
  <2> HIDE DEF g
  <2>4. Reads(o, <<x4>>)
    BY <1>2, <2>2, <2>3, ReadsElements
  <2>5. ASSUME NEW t, Alike(t, x4) PROVE t.content = g /\ t.tag = 3 /\ Short(g)
    BY <2>5 DEF Alike, Element
  <2> HIDE DEF x4, o
  <2>6. Reads(d, <<x1, x2, x3, x4, x5>>)
    <3>1. Reads(p3 \o o, <<x1, x2, x3, x4>>)
      BY <1>9, <2>4, ReadsFourth
    <3> QED BY <1>6, <1>10, <3>1, ReadsFifth
  <2>7. d \in Seq(Nat)
    BY <2>6 DEF Reads
  <2> SUFFICES ASSUME Short(d) PROVE Decoded(d, ResponseFields) = {m}
    BY <2>7 DEF d
  <2>8. PICK ts : /\ Sees(d, ts, 5) /\ Alike(ts[1], x1) /\ Alike(ts[2], x2)
                  /\ Alike(ts[3], x3) /\ Alike(ts[4], x4) /\ Alike(ts[5], x5)
    BY <2>6, SeesFive
  <2>9. /\ ts[1].content = a /\ ts[2].content = b /\ ts[3].content = e
        /\ ts[4].content = g /\ ts[4].tag = 3 /\ ts[5].content = c /\ ts[5].tag = 4 /\ Len(ts) = 5
        /\ Short(c) /\ Short(g)
    BY <1>11, <2>5, <2>8 DEF Sees
  <2>10. ResponseFields(ts) =
          Answers({m.seq}, {m.inReplyTo}, {m.error}, {{r} : r \in {p}}, {m.nodes})
    BY <1>3, <1>4, <1>5, <2>2, <2>9, ResponseFieldsOf
  <2>11. ResponseFields(ts) = {m}
    <3>1. {{r} : r \in {p}} = {m.errorNode}
      BY <2>1
    <3>2. ResponseFields(ts) = Answers({m.seq}, {m.inReplyTo}, {m.error}, {m.errorNode}, {m.nodes})
      BY <2>10, <3>1
    <3>3. ResponseFields(ts) = {[kind |-> "Response", seq |-> m.seq, inReplyTo |-> m.inReplyTo,
             error |-> m.error, errorNode |-> m.errorNode, nodes |-> m.nodes]}
      BY <3>2 DEF Answers
    <3> QED BY <1>1, <3>3
  <2>12. Decoded(d, ResponseFields) = {m}
    BY <2>8, <2>11 DEF Decoded, Sees
  <2> QED BY <2>12
<1> QED BY <1>12, <1>13

-----------------------------------------------------------------------------
(* The envelope.                                                            *)

\* One element cut short is none.
LEMMA CutShort ==
    ASSUME NEW d, Short(d), NEW x, Single(d, x), x.rest = <<>>, NEW n \in 0..(Len(d) - 1)
    PROVE  ReadTLV(SubSeq(d, 1, n)) = {}
<1> DEFINE p == SubSeq(d, 1, n)
           q == SubSeq(d, n + 1, Len(d))
<1>1. d \in Seq(Nat) /\ ReadTLV(d) = {x} /\ Len(d) \in Nat
  <2>1. d \in Seq(Nat)
    BY DEF Single
  <2> QED BY <2>1, LenProperties DEF Single
<1>2. p \in Seq(Nat) /\ q \in Seq(Nat) /\ Len(q) = Len(d) - n
  <2>1. \A i \in 1..n : d[i] \in Nat
    BY <1>1, ElementOfSeq
  <2>2. \A i \in (n + 1)..Len(d) : d[i] \in Nat
    BY <1>1, ElementOfSeq
  <2>3. 1 \in Int /\ n \in Int /\ n + 1 \in Int /\ Len(d) \in Int /\ n + 1 <= Len(d)
    BY <1>1
  <2>4. p \in Seq(Nat)
    BY <2>1, <2>3, SubSeqProperties
  <2>5. q \in Seq(Nat) /\ Len(q) = Len(d) - (n + 1) + 1
    BY <2>2, <2>3, SubSeqProperties
  <2> HIDE DEF q
  <2> QED BY <1>1, <2>3, <2>4, <2>5
<1>3. p \o q = d
  <2>1. 1 \in 1..Len(d) + 1 /\ n \in 1-1..Len(d) /\ Len(d) \in n..Len(d)
    BY <1>1
  <2>2. p \o q = SubSeq(d, 1, Len(d))
    BY <1>1, <2>1, ConcatAdjacentSubSeq
  <2> QED BY <1>1, <2>2, SubSeqFull
<1> HIDE DEF p, q
<1>4. Len(q) # 0
  <2> DEFINE k == Len(q)
             l == Len(d)
  <2>1. k = l - n /\ l \in Nat /\ n \in 0..(l - 1)
    BY <1>1, <1>2
  <2> HIDE DEF k, l
  <2>2. k # 0
    BY <2>1
  <2> QED BY <2>2 DEF k
<1>5. SUFFICES ASSUME Complete(p) PROVE FALSE
  BY <1>2, ReadTLVCases DEF p
<1> DEFINE f == FirstElement(p)
           y == [class |-> f.class, tag |-> f.tag, content |-> f.content, rest |-> f.rest \o q]
<1>6. f.rest \in Seq(Nat)
  BY <1>2, <1>5, CompleteSpec DEF WireElements
<1>7. {x} = {y}
  BY <1>1, <1>2, <1>3, <1>5, ReadTLVExtended
<1>8. f.rest \o q = <<>>
  <2>1. x = y
    <3> HIDE DEF y
    <3> QED BY <1>7
  <2>2. y.rest = f.rest \o q
    <3> HIDE DEF f
    <3> QED OBVIOUS
  <2> HIDE DEF y, f
  <2> QED BY <2>1, <2>2
<1> DEFINE r == f.rest
<1> HIDE DEF f
<1>9. Len(r) \in Nat /\ Len(q) \in Nat /\ Len(r \o q) = Len(r) + Len(q)
  BY <1>2, <1>6, ConcatProperties, LenProperties
<1>10. Len(r \o q) = 0
  BY <1>8, EmptySeq
<1> HIDE DEF r
<1> QED BY <1>4, <1>9, <1>10

\* What a datagram with one element of the context class is.
LEMMA Unmarshalled ==
    ASSUME NEW tag \in 0..30, NEW c \in Seq(Nat), Short(Explicit(tag, c))
    PROVE  /\ Short(c)
           /\ UnmarshalMessage(Explicit(tag, c)) = DecodeMessage(tag, c)
           /\ \A n \in 0..(Len(Explicit(tag, c)) - 1) :
                  UnmarshalMessage(SubSeq(Explicit(tag, c), 1, n)) = {}
<1> DEFINE d == Explicit(tag, c)
           x == Whole(Context, tag, c)
<1>0. Short(c)
  <2>1. 2 \in 0..3 /\ 32 \in {0, 32}
    OBVIOUS
  <2>2. Short(TLV(2, 32, tag, c)) => Short(c)
    BY <2>1, TLVLength
  <2> QED BY <2>2 DEF Explicit, Context, Constructed
<1>1. Only(d, tag, c)
  BY OnlyElements
<1>2. x.tag = tag /\ x.content = c /\ x.rest = <<>>
  BY DEF Whole
<1>3. Single(d, x)
  <2>1. 2 \in 0..3 /\ 32 \in {0, 32}
    OBVIOUS
  <2>2. Single(TLV(2, 32, tag, c), Whole(2, tag, c))
    BY <2>1, ReadsTLV
  <2> QED BY <2>2 DEF Explicit, Context, Constructed
<1>4. Short(d)
  OBVIOUS
<1>5. UnmarshalMessage(d) = UNION {DecodeMessage(t.tag, t.content) : t \in {x}}
  BY <1>1 DEF UnmarshalMessage, Alternative, Only
<1> HIDE DEF d, x
<1>6. UnmarshalMessage(d) = DecodeMessage(tag, c)
  BY <1>2, <1>5
<1>7. ASSUME NEW n \in 0..(Len(d) - 1) PROVE UnmarshalMessage(SubSeq(d, 1, n)) = {}
  <2>1. ReadTLV(SubSeq(d, 1, n)) = {}
    BY <1>2, <1>3, <1>4, CutShort
  <2>2. ReadOnly(SubSeq(d, 1, n)) = {}
    BY <2>1 DEF ReadOnly
  <2> QED BY <2>2 DEF UnmarshalMessage, Alternative
<1> QED BY <1>0, <1>6, <1>7 DEF d

-----------------------------------------------------------------------------
(* The messages.                                                            *)

MessageTypes == GetTypes \cup SetTypes \cup CreateTypes \cup QueryTypes
                \cup ResponseTypes \cup SummaryAckTypes \cup DeleteTypes

\* The method of a Query, if it has one, has a percentile that is one.
Sendable(m) == m.kind = "Query" => \A a \in m.aggregationMethod : Fits(a)

\* What is read from the datagram of m is m, and nothing from a part of it, if
\* an int can count its octets.
Arrives(m) ==
    Short(MarshalMessage(m)) =>
        /\ UnmarshalMessage(MarshalMessage(m)) = IF Sendable(m) THEN {m} ELSE {}
        /\ \A n \in 0..(Len(MarshalMessage(m)) - 1) :
               UnmarshalMessage(SubSeq(MarshalMessage(m), 1, n)) = {}

\* A message arrives if its content is decoded under its tag.
LEMMA ArrivesFrom ==
    ASSUME NEW m, NEW tag \in 0..30, NEW c \in Seq(Nat), MarshalMessage(m) = Explicit(tag, c),
           NEW R, Short(c) => DecodeMessage(tag, c) = R, R = IF Sendable(m) THEN {m} ELSE {}
    PROVE  Arrives(m)
  BY Unmarshalled DEF Arrives

\* Marshal and UnmarshalMessage: every well-typed message whose octets an int can
\* count is read as itself, and nothing is read from a part of its octets.  The
\* one exception is a Query with a percentile that is none, which is sent and
\* refused.
THEOREM MessageRoundTrip == \A m \in MessageTypes : Arrives(m)
<1> TAKE m \in MessageTypes
<1>0. /\ 0 \in 0..30 /\ 1 \in 0..30 /\ 2 \in 0..30 /\ 3 \in 0..30 /\ 4 \in 0..30
      /\ 5 \in 0..30 /\ 6 \in 0..30
  OBVIOUS
<1>a. ASSUME NEW c
      PROVE  /\ DecodeMessage(0, c) = Decoded(c, GetFields)
             /\ DecodeMessage(1, c) = Decoded(c, SetFields)
             /\ DecodeMessage(2, c) = Decoded(c, CreateFields)
             /\ DecodeMessage(3, c) = Decoded(c, QueryFields)
             /\ DecodeMessage(4, c) = Decoded(c, ResponseFields)
             /\ DecodeMessage(5, c) = Decoded(c, SummaryAckFields)
             /\ DecodeMessage(6, c) = Decoded(c, DeleteFields)
  BY DEF DecodeMessage
<1>1. CASE m \in GetTypes
  <2>1. m.kind = "Get"
    BY <1>1 DEF GetTypes
  <2>2. MarshalMessage(m) = Explicit(0, EncodeGet(m)) /\ Sendable(m)
    BY <2>1 DEF MarshalMessage, Sendable
  <2>3. EncodeGet(m) \in Seq(Nat) /\ (Short(EncodeGet(m)) => DecodeMessage(0, EncodeGet(m)) = {m})
    BY <1>1, <1>a, GetRoundTrip
  <2> QED BY <1>0, <2>2, <2>3, ArrivesFrom
<1>2. CASE m \in SetTypes
  <2>1. m.kind = "Set"
    BY <1>2 DEF SetTypes
  <2>2. MarshalMessage(m) = Explicit(1, EncodeSet(m)) /\ Sendable(m)
    BY <2>1 DEF MarshalMessage, Sendable
  <2>3. EncodeSet(m) \in Seq(Nat) /\ (Short(EncodeSet(m)) => DecodeMessage(1, EncodeSet(m)) = {m})
    BY <1>2, <1>a, SetRoundTrip
  <2> QED BY <1>0, <2>2, <2>3, ArrivesFrom
<1>3. CASE m \in CreateTypes
  <2>1. m.kind = "Create"
    BY <1>3 DEF CreateTypes
  <2>2. MarshalMessage(m) = Explicit(2, EncodeCreate(m)) /\ Sendable(m)
    BY <2>1 DEF MarshalMessage, Sendable
  <2>3. EncodeCreate(m) \in Seq(Nat) /\ (Short(EncodeCreate(m)) => DecodeMessage(2, EncodeCreate(m)) = {m})
    BY <1>3, <1>a, CreateRoundTrip
  <2> QED BY <1>0, <2>2, <2>3, ArrivesFrom
<1>4. CASE m \in QueryTypes
  <2>1. m.kind = "Query"
    BY <1>4 DEF QueryTypes
  <2>2. /\ MarshalMessage(m) = Explicit(3, EncodeQuery(m))
        /\ Sendable(m) <=> \A a \in m.aggregationMethod : Fits(a)
    BY <2>1 DEF MarshalMessage, Sendable
  <2>3. /\ EncodeQuery(m) \in Seq(Nat)
        /\ Short(EncodeQuery(m)) => DecodeMessage(3, EncodeQuery(m)) = IF Sendable(m) THEN {m} ELSE {}
    BY <1>4, <1>a, <2>2, QueryRoundTrip
  <2> QED BY <1>0, <2>2, <2>3, ArrivesFrom
<1>5. CASE m \in ResponseTypes
  <2>1. m.kind = "Response"
    BY <1>5 DEF ResponseTypes
  <2>2. MarshalMessage(m) = Explicit(4, EncodeResponse(m)) /\ Sendable(m)
    BY <2>1 DEF MarshalMessage, Sendable
  <2>3. EncodeResponse(m) \in Seq(Nat) /\ (Short(EncodeResponse(m)) => DecodeMessage(4, EncodeResponse(m)) = {m})
    BY <1>5, <1>a, ResponseRoundTrip
  <2> QED BY <1>0, <2>2, <2>3, ArrivesFrom
<1>6. CASE m \in SummaryAckTypes
  <2>1. m.kind = "SummaryAck"
    BY <1>6 DEF SummaryAckTypes
  <2>2. MarshalMessage(m) = Explicit(5, EncodeSummaryAck(m)) /\ Sendable(m)
    BY <2>1 DEF MarshalMessage, Sendable
  <2>3. EncodeSummaryAck(m) \in Seq(Nat) /\ (Short(EncodeSummaryAck(m)) => DecodeMessage(5, EncodeSummaryAck(m)) = {m})
    BY <1>6, <1>a, SummaryAckRoundTrip
  <2> QED BY <1>0, <2>2, <2>3, ArrivesFrom
<1>7. CASE m \in DeleteTypes
  <2>1. m.kind = "Delete"
    BY <1>7 DEF DeleteTypes
  <2>2. MarshalMessage(m) = Explicit(6, EncodeDelete(m)) /\ Sendable(m)
    BY <2>1 DEF MarshalMessage, Sendable
  <2>3. EncodeDelete(m) \in Seq(Nat) /\ (Short(EncodeDelete(m)) => DecodeMessage(6, EncodeDelete(m)) = {m})
    BY <1>7, <1>a, DeleteRoundTrip
  <2> QED BY <1>0, <2>2, <2>3, ArrivesFrom
<1> QED BY <1>1, <1>2, <1>3, <1>4, <1>5, <1>6, <1>7 DEF MessageTypes

-----------------------------------------------------------------------------
(* The catalogue.                                                           *)

\* The strings of the catalogue are octets.
LEMMA TextSpec == \A n \in Nat : Text(n) \in Octets
<1> TAKE n \in Nat
<1>1. \A i \in 1..n : 97 + (i % 26) \in Nat
  OBVIOUS
<1>2. Text(n) \in [1..n -> Nat]
  BY <1>1 DEF Text
<1> QED BY <1>2, SeqDef DEF Octets

\* The widths leave room for the small numbers of the catalogue.
LEMMA SmallNumbers == \A n \in Int : -129 <= n /\ n <= 256 => n \in Longs
<1> DEFINE l == Power[LongOctets]
<1>1. LongOctets \in Nat /\ 2 <= LongOctets
  BY WidthAssumption
<1>2. Power[2] = 65536
  <2>1. Power[0 + 1] = 256 * Power[0] /\ Power[1 + 1] = 256 * Power[1] /\ Power[0] = 1
    BY PowerSpec
  <2> QED BY <2>1
<1>3. l \in Nat /\ 65536 <= l
  BY <1>1, <1>2, PowerSpec, PowerMonotone
<1>4. Longs = -(l \div 2)..(l \div 2 - 1)
  BY DEF Longs, Signed
<1> HIDE DEF l
<1>5. l \div 2 \in Nat /\ l \div 2 >= 32768
  BY <1>3
<1> DEFINE h == l \div 2
<1> HIDE DEF h
<1>6. h \in Nat /\ h >= 32768 /\ Longs = -h..(h - 1)
  BY <1>4, <1>5 DEF h
<1>7. ASSUME NEW n \in Int, -129 <= n, n <= 256 PROVE n \in -h..(h - 1)
  BY <1>6, <1>7
<1> QED BY <1>6, <1>7

\* The numbers of the catalogue are int64s.
LEMMA CatalogueNumbers ==
    /\ Int64s \subseteq Longs /\ Periods \subseteq Longs
    /\ 1 \in Longs /\ 2 \in Longs /\ 3 \in Longs /\ 5 \in Longs /\ 127 \in Longs
    /\ 128 \in Longs /\ 256 \in Longs
    /\ {-1, 0, 1, 50, 95, 99, 100, 101, 128} \subseteq Longs
<1>1. Int64s \subseteq Longs
  BY DEF Int64s, EdgesOf, Longs
<1>2. ASSUME NEW n \in {-1, 0, 1, 2, 3, 5, 50, 95, 99, 100, 101, 127, 128, 256} PROVE n \in Longs
  <2>1. n \in Int /\ -129 <= n /\ n <= 256
    OBVIOUS
  <2> QED BY <2>1, SmallNumbers
<1>3. Periods \subseteq Longs
  <2>1. {-1, 0, 1, 128} \subseteq Longs
    BY <1>2
  <2> QED BY <2>1 DEF Periods, Longs
<1> QED BY <1>1, <1>2, <1>3

\* The strings of the catalogue are strings.
LEMMA CatalogueTexts == Strings \subseteq Octets /\ Text(0) \in Octets /\ Text(1) \in Octets /\ Text(130) \in Octets
<1>1. ASSUME NEW n \in {0, 1, 127, 128, 130, 256} PROVE Text(n) \in Octets
  <2>1. n \in Nat
    OBVIOUS
  <2> QED BY <2>1, TextSpec
<1> QED BY <1>1 DEF Strings

\* The pointers of the catalogue are NodePointers.
LEMMA CataloguePointers ==
    Pointers \subseteq PointerTypes /\ SomePointer \in PointerTypes /\ [kind |-> "none"] \in PointerTypes
<1>1. ASSUME NEW x \in Octets PROVE [kind |-> "absolute", absolute |-> x] \in PointerTypes
  BY DEF PointerTypes
<1>2. ASSUME NEW n \in Longs PROVE [kind |-> "offset", offset |-> n] \in PointerTypes
  BY DEF PointerTypes
<1>3. [kind |-> "none"] \in PointerTypes
  BY DEF PointerTypes
<1>4. SomePointer \in PointerTypes
  BY <1>2, CatalogueNumbers DEF SomePointer
<1> QED BY <1>1, <1>2, <1>3, <1>4, CatalogueTexts, CatalogueNumbers DEF Pointers

\* The octets of a real number of the catalogue.
Real(b) == [kind |-> "real", real |-> [i \in 1..RealOctets |-> b]]

\* The values of the catalogue are NodeValues.
LEMMA CatalogueValues == Values \subseteq ValueTypes /\ SomeValue \in ValueTypes
<1>1. ASSUME NEW x \in Octets PROVE [kind |-> "octetString", octets |-> x] \in ValueTypes
  BY DEF ValueTypes
<1>2. ASSUME NEW b \in {0, 255} PROVE Real(b) \in ValueTypes
  <2>1. [i \in 1..RealOctets |-> b] \in [1..RealOctets -> Nat]
    OBVIOUS
  <2> DEFINE r == [i \in 1..RealOctets |-> b]
  <2> HIDE DEF r
  <2>2. [kind |-> "real", real |-> r] \in [kind : {"real"}, real : [1..RealOctets -> Nat]]
    BY <2>1 DEF r
  <2> QED BY <2>2 DEF ValueTypes, r, Real
<1>3. [kind |-> "noValue"] \in ValueTypes
  BY DEF ValueTypes
<1> DEFINE K == {"integer32", "unsigned32", "counter32", "counter64", "timeTicks"}
<1>4. ASSUME NEW k \in K, NEW n \in NumberRange(k)
      PROVE  [kind |-> k, number |-> n] \in ValueTypes
  BY <1>4 DEF ValueTypes, Numbers
<1>5. ToSet(NumberKind) = K
  <2>1. ToSet(NumberKind) = {NumberKind[i] : i \in 1..5}
    BY NumberKinds DEF ToSet
  <2>2. \A i \in 1..5 : i = 1 \/ i = 2 \/ i = 3 \/ i = 4 \/ i = 5
    OBVIOUS
  <2>3. 1 \in 1..5 /\ 2 \in 1..5 /\ 3 \in 1..5 /\ 4 \in 1..5 /\ 5 \in 1..5
    OBVIOUS
  <2> QED BY <2>1, <2>2, <2>3, NumberKinds
<1>6. SomeValue \in ValueTypes
  <2> DEFINE l == Power[LongOctets]
  <2>1. l \in Nat \ {0}
    <3>1. LongOctets \in Nat
      BY WidthAssumption
    <3> QED BY <3>1, PowerSpec
  <2>2. NumberRange("counter64") = 0..(l - 1)
    BY DEF NumberRange, Unsigned
  <2>3. SomeValue = [kind |-> "counter64", number |-> l - 1]
    BY DEF SomeValue
  <2> HIDE DEF l
  <2>4. l - 1 \in 0..(l - 1)
    BY <2>1
  <2> QED BY <1>4, <2>2, <2>3, <2>4
<1>7. ASSUME NEW k \in K, NEW n \in EdgesOf(NumberRange(k)) PROVE n \in NumberRange(k)
  BY <1>7 DEF EdgesOf
<1> HIDE DEF K
<1>8. ASSUME NEW v \in Values PROVE v \in ValueTypes
  <2>1. \/ \E x \in Strings : v = [kind |-> "octetString", octets |-> x]
        \/ \E b \in {0, 255} : v = Real(b)
        \/ v = [kind |-> "noValue"]
        \/ \E k \in K : \E n \in EdgesOf(NumberRange(k)) : v = [kind |-> k, number |-> n]
    BY <1>5 DEF Values, Real
  <2>2. CASE \E x \in Strings : v = [kind |-> "octetString", octets |-> x]
    BY <1>1, <2>2, CatalogueTexts
  <2>3. CASE \E b \in {0, 255} : v = Real(b)
    BY <1>2, <2>3
  <2>4. CASE v = [kind |-> "noValue"]
    BY <1>3, <2>4
  <2>5. CASE \E k \in K : \E n \in EdgesOf(NumberRange(k)) : v = [kind |-> k, number |-> n]
    BY <1>4, <1>7, <2>5
  <2> QED BY <2>1, <2>2, <2>3, <2>4, <2>5
<1> QED BY <1>6, <1>8

\* Nothing or one value.
LEMMA MaybeOne == \A S, v : v \in S => Maybe(v) \subseteq Maybes(S)
  BY DEF Maybe, Maybes

\* Nothing or one value of several.
LEMMA MaybeSome == \A S, T : T \subseteq S => {{}} \cup {{w} : w \in T} \subseteq Maybes(S)
  BY DEF Maybes

\* A node of the catalogue is one.
LEMMA LeafSpec ==
    ASSUME NEW k \in Octets, NEW v \in ValueTypes, NEW f \in PointerTypes, NEW s \in PointerTypes
    PROVE  Leaf(k, v, f, s) \in NodeTypes
  BY DEF Leaf, NodeTypes

\* The nodes of the catalogue are nodes.
LEMMA CatalogueNodes ==
    Nodes \subseteq NodeTypes /\ Leaf(Text(1), SomeValue, SomePointer, SomePointer) \in NodeTypes
<1> USE CataloguePointers, CatalogueValues, CatalogueTexts
<1>1. {Leaf(x, SomeValue, SomePointer, SomePointer) : x \in Strings} \subseteq NodeTypes
  BY LeafSpec
<1>2. {Leaf(Text(1), v, SomePointer, SomePointer) : v \in Values} \subseteq NodeTypes
  BY LeafSpec
<1>3. {Leaf(Text(1), SomeValue, p, q) : p \in Pointers, q \in {SomePointer, [kind |-> "none"]}}
        \subseteq NodeTypes
  BY LeafSpec
<1>4. {Leaf(Text(1), SomeValue, SomePointer, p) : p \in Pointers} \subseteq NodeTypes
  BY LeafSpec
<1>5. Leaf(Text(1), SomeValue, SomePointer, SomePointer) \in NodeTypes
  BY LeafSpec
<1> QED BY <1>1, <1>2, <1>3, <1>4, <1>5 DEF Nodes

\* The lists of the catalogue.
LEMMA ShortLists ==
    ASSUME NEW S, NEW T, T \subseteq S
    PROVE  /\ UNION {[1..n -> T] : n \in 0..2} \subseteq Seq(S)
           /\ <<>> \in Seq(S)
           /\ \A x \in T : <<x>> \in Seq(S) /\ <<x, x, x>> \in Seq(S)
           /\ \A x, y \in T : <<x, y>> \in Seq(S)
<1>1. ASSUME NEW n \in 0..2, NEW f \in [1..n -> T] PROVE f \in Seq(S)
  <2>1. n \in Nat /\ f \in [1..n -> S]
    OBVIOUS
  <2> QED BY <2>1, SeqDef
<1>2. <<>> \in Seq(S)
  BY EmptySeq
<1>3. ASSUME NEW x \in S, NEW y \in S PROVE <<x>> \in Seq(S) /\ <<x, x, x>> \in Seq(S) /\ <<x, y>> \in Seq(S)
  OBVIOUS
<1> QED BY <1>1, <1>2, <1>3

\* The messages of the catalogue are well typed, kind by kind.
LEMMA CatalogueGets == Gets \subseteq GetTypes
<1>1. ASSUME NEW n \in Longs, NEW p \in PointerTypes
      PROVE  [kind |-> "Get", seq |-> n, target |-> p] \in GetTypes
  BY DEF GetTypes
<1> QED BY <1>1, CatalogueNumbers, CataloguePointers DEF Gets

\* The edits of the catalogue are edits.
LEMMA CatalogueEdits == Edits \subseteq EditTypes
<1> DEFINE V == Maybe(SomeValue)
           F == Maybe([kind |-> "none"])
           N == Maybe(SomePointer)
           P == Maybe(Text(130))
<1>1. V \subseteq Maybes(ValueTypes) /\ F \subseteq Maybes(PointerTypes)
      /\ N \subseteq Maybes(PointerTypes) /\ P \subseteq Maybes(Octets)
  BY MaybeOne, CatalogueValues, CataloguePointers, CatalogueTexts
<1>2. Edits = {[target |-> x, newValue |-> v, newFirstChild |-> f,
                newNextSibling |-> n, newParent |-> p] :
                  x \in {Text(0), Text(1)}, v \in V, f \in F, n \in N, p \in P}
  BY DEF Edits
<1> HIDE DEF V, F, N, P
<1>3. ASSUME NEW x \in Octets, NEW v \in Maybes(ValueTypes), NEW f \in Maybes(PointerTypes),
             NEW n \in Maybes(PointerTypes), NEW p \in Maybes(Octets)
      PROVE  [target |-> x, newValue |-> v, newFirstChild |-> f,
              newNextSibling |-> n, newParent |-> p] \in EditTypes
  BY DEF EditTypes
<1>4. ASSUME NEW e \in Edits PROVE e \in EditTypes
  <2>1. PICK x \in {Text(0), Text(1)}, v \in V, f \in F, n \in N, p \in P :
            e = [target |-> x, newValue |-> v, newFirstChild |-> f,
                 newNextSibling |-> n, newParent |-> p]
    BY <1>2
  <2>2. /\ x \in Octets /\ v \in Maybes(ValueTypes) /\ f \in Maybes(PointerTypes)
        /\ n \in Maybes(PointerTypes) /\ p \in Maybes(Octets)
    BY <1>1, CatalogueTexts
  <2> QED BY <1>3, <2>1, <2>2
<1> QED BY <1>4

\* Sets.
LEMMA CatalogueSets == Sets \subseteq SetTypes
<1>1. ASSUME NEW es \in Seq(EditTypes) PROVE [kind |-> "Set", seq |-> 2, edits |-> es] \in SetTypes
  BY CatalogueNumbers DEF SetTypes
<1> DEFINE A == {<<e>> : e \in Edits}
           B == {<<e, f>> : e, f \in Edits}
<1>2. \A e \in Edits : <<e>> \in Seq(EditTypes)
  BY CatalogueEdits, ShortLists
<1>3. \A e, f \in Edits : <<e, f>> \in Seq(EditTypes)
  BY CatalogueEdits, ShortLists
<1>4. ASSUME NEW es \in A PROVE es \in Seq(EditTypes)
  BY <1>2
<1>5. ASSUME NEW es \in B PROVE es \in Seq(EditTypes)
  <2>1. PICK e \in Edits, f \in Edits : es = <<e, f>>
    OBVIOUS
  <2> QED BY <1>3, <2>1
<1>6. Sets = {[kind |-> "Set", seq |-> 2, edits |-> es] : es \in {<<>>} \cup A \cup B}
  BY DEF Sets
<1> HIDE DEF A, B
<1>7. <<>> \in Seq(EditTypes)
  BY EmptySeq
<1>8. {<<>>} \cup A \cup B \subseteq Seq(EditTypes)
  BY <1>4, <1>5, <1>7
<1> QED BY <1>1, <1>6, <1>8

\* Deletes.
LEMMA CatalogueDeletes == Deletes \subseteq DeleteTypes
<1>1. ASSUME NEW xs \in Seq(Octets) PROVE [kind |-> "Delete", seq |-> 3, targets |-> xs] \in DeleteTypes
  BY CatalogueNumbers DEF DeleteTypes
<1> DEFINE L == UNION {[1..n -> Strings] : n \in 0..2}
<1>2. L \subseteq Seq(Octets)
  BY CatalogueTexts, ShortLists
<1>3. Deletes = {[kind |-> "Delete", seq |-> 3, targets |-> xs] : xs \in L}
  BY DEF Deletes
<1> HIDE DEF L
<1> QED BY <1>1, <1>2, <1>3

\* Creates.
LEMMA CatalogueCreates == Creates \subseteq CreateTypes
<1> DEFINE V == {{}} \cup {{w} : w \in Values}
           P == Maybe(Text(1))
<1>1. V \subseteq Maybes(ValueTypes) /\ P \subseteq Maybes(Octets)
  BY MaybeOne, MaybeSome, CatalogueValues, CatalogueTexts
<1>2. Creates = {[kind |-> "Create", seq |-> n, key |-> x, value |-> v, parent |-> p] :
                    n \in {1, 128}, x \in Strings, v \in V, p \in P}
  BY DEF Creates
<1> HIDE DEF V, P
<1>3. ASSUME NEW n \in Longs, NEW x \in Octets, NEW v \in Maybes(ValueTypes), NEW p \in Maybes(Octets)
      PROVE  [kind |-> "Create", seq |-> n, key |-> x, value |-> v, parent |-> p] \in CreateTypes
  BY DEF CreateTypes
<1>4. ASSUME NEW m \in Creates PROVE m \in CreateTypes
  <2>1. PICK n \in {1, 128}, x \in Strings, v \in V, p \in P :
            m = [kind |-> "Create", seq |-> n, key |-> x, value |-> v, parent |-> p]
    BY <1>2
  <2>2. n \in Longs /\ x \in Octets /\ v \in Maybes(ValueTypes) /\ p \in Maybes(Octets)
    BY <1>1, CatalogueNumbers, CatalogueTexts
  <2> QED BY <1>3, <2>1, <2>2
<1> QED BY <1>4

\* The modes and methods of the catalogue.
LEMMA CatalogueMethods == Modes \subseteq ModeTypes /\ Methods \subseteq MethodTypes
<1>1. Modes \subseteq ModeTypes
  BY CatalogueNumbers DEF Modes, ModeTypes
<1>2. ToSet(PlainMethod) \subseteq {"min", "max", "mean", "stdDev"}
  <2>1. ToSet(PlainMethod) = {PlainMethod[i] : i \in 1..4}
    BY PlainMethods DEF ToSet
  <2>2. \A i \in 1..4 : i = 1 \/ i = 2 \/ i = 3 \/ i = 4
    OBVIOUS
  <2> QED BY <2>1, <2>2, PlainMethods
<1>3. ASSUME NEW k \in ToSet(PlainMethod) PROVE [kind |-> k] \in MethodTypes
  BY <1>2 DEF MethodTypes
<1>4. ASSUME NEW p \in Longs PROVE [kind |-> "percentile", percentile |-> p] \in MethodTypes
  BY DEF MethodTypes
<1>5. Methods \subseteq MethodTypes
  BY <1>3, <1>4, CatalogueNumbers DEF Methods
<1> QED BY <1>1, <1>5

\* Queries.
LEMMA CatalogueQueries == SomeQueries \subseteq QueryTypes
<1> DEFINE I == {{}} \cup {{n} : n \in Periods}
           A == {{}} \cup {{k} : k \in Methods}
<1>1. I \subseteq Maybes(Longs) /\ A \subseteq Maybes(MethodTypes)
  BY MaybeSome, CatalogueNumbers, CatalogueMethods
<1>2. SomeQueries = {[kind |-> "Query", seq |-> 5, expression |-> Text(1), mode |-> m,
             aggregationInterval |-> i, aggregationMethod |-> a, transferInterval |-> t] :
            m \in Modes, i \in I, a \in A, t \in Periods}
  BY DEF SomeQueries
<1> HIDE DEF I, A
<1>3. ASSUME NEW k \in ModeTypes, NEW i \in Maybes(Longs), NEW a \in Maybes(MethodTypes), NEW t \in Longs
      PROVE  [kind |-> "Query", seq |-> 5, expression |-> Text(1), mode |-> k,
              aggregationInterval |-> i, aggregationMethod |-> a, transferInterval |-> t] \in QueryTypes
  BY CatalogueNumbers, CatalogueTexts DEF QueryTypes
<1>4. ASSUME NEW q \in SomeQueries PROVE q \in QueryTypes
  <2>1. PICK m \in Modes, i \in I, a \in A, t \in Periods :
            q = [kind |-> "Query", seq |-> 5, expression |-> Text(1), mode |-> m,
                 aggregationInterval |-> i, aggregationMethod |-> a, transferInterval |-> t]
    BY <1>2
  <2>2. m \in ModeTypes /\ i \in Maybes(Longs) /\ a \in Maybes(MethodTypes) /\ t \in Longs
    BY <1>1, CatalogueNumbers, CatalogueMethods
  <2> QED BY <1>3, <2>1, <2>2
<1> QED BY <1>4

\* Responses.
LEMMA CatalogueResponses == Responses \subseteq ResponseTypes
<1>1. SomeErrorNodes \subseteq Maybes(PointerTypes) /\ {} \in Maybes(PointerTypes)
  BY MaybeSome, CataloguePointers DEF Maybes, SomeErrorNodes
<1>2. FewNodes \subseteq Seq(NodeTypes)
  <2> DEFINE x0 == Leaf(Text(1), SomeValue, SomePointer, SomePointer)
  <2>1. {x0} \subseteq NodeTypes /\ FewNodes = {<<>>} \cup {<<x0>>}
    BY CatalogueNodes DEF FewNodes
  <2> HIDE DEF x0
  <2> QED BY <2>1, ShortLists
<1>3. ManyNodes \subseteq Seq(NodeTypes)
  <2>1. \A n \in Nodes : <<n>> \in Seq(NodeTypes) /\ <<n, n, n>> \in Seq(NodeTypes)
    BY CatalogueNodes, ShortLists
  <2> QED BY <2>1 DEF ManyNodes
<1>4. ASSUME NEW r \in Responses
      PROVE  \/ \E n \in {1, 256}, e \in BOOLEAN, p \in SomeErrorNodes, ns \in FewNodes :
                  r = [kind |-> "Response", seq |-> n, inReplyTo |-> 1, error |-> e,
                       errorNode |-> p, nodes |-> ns]
             \/ \E ns \in ManyNodes :
                  r = [kind |-> "Response", seq |-> 1, inReplyTo |-> 128, error |-> FALSE,
                       errorNode |-> {}, nodes |-> ns]
  BY DEF Responses
<1>5. ASSUME NEW n \in Longs, NEW to \in Longs, NEW e \in BOOLEAN, NEW p \in Maybes(PointerTypes),
             NEW ns \in Seq(NodeTypes)
      PROVE  [kind |-> "Response", seq |-> n, inReplyTo |-> to, error |-> e,
              errorNode |-> p, nodes |-> ns] \in ResponseTypes
  BY DEF ResponseTypes
<1>6. ASSUME NEW r \in Responses PROVE r \in ResponseTypes
  <2>1. CASE \E n \in {1, 256}, e \in BOOLEAN, p \in SomeErrorNodes, ns \in FewNodes :
                r = [kind |-> "Response", seq |-> n, inReplyTo |-> 1, error |-> e,
                     errorNode |-> p, nodes |-> ns]
    <3>1. PICK n \in {1, 256}, e \in BOOLEAN, p \in SomeErrorNodes, ns \in FewNodes :
                r = [kind |-> "Response", seq |-> n, inReplyTo |-> 1, error |-> e,
                     errorNode |-> p, nodes |-> ns]
      BY <2>1
    <3>2. n \in Longs /\ 1 \in Longs /\ p \in Maybes(PointerTypes) /\ ns \in Seq(NodeTypes)
      BY <1>1, <1>2, CatalogueNumbers
    <3> QED BY <1>5, <3>1, <3>2
  <2>2. CASE \E ns \in ManyNodes :
                r = [kind |-> "Response", seq |-> 1, inReplyTo |-> 128, error |-> FALSE,
                     errorNode |-> {}, nodes |-> ns]
    <3>1. PICK ns \in ManyNodes :
                r = [kind |-> "Response", seq |-> 1, inReplyTo |-> 128, error |-> FALSE,
                     errorNode |-> {}, nodes |-> ns]
      BY <2>2
    <3>2. 1 \in Longs /\ 128 \in Longs /\ FALSE \in BOOLEAN /\ {} \in Maybes(PointerTypes) /\ ns \in Seq(NodeTypes)
      BY <1>1, <1>3, CatalogueNumbers
    <3> QED BY <1>5, <3>1, <3>2
  <2> QED BY <1>4, <2>1, <2>2
<1> QED BY <1>6

\* SummaryAcks.
LEMMA CatalogueSummaryAcks == SummaryAcks \subseteq SummaryAckTypes
<1> DEFINE S == {[first |-> 1, last |-> k] : k \in {1, 127, 128, 256}}
           L == UNION {[1..n -> S] : n \in 0..2}
<1>1. S \subseteq RangeTypes
  BY CatalogueNumbers DEF RangeTypes
<1>2. L \subseteq Seq(RangeTypes)
  <2> HIDE DEF S
  <2> QED BY <1>1, ShortLists
<1>3. SummaryAcks = {[kind |-> "SummaryAck", received |-> rs] : rs \in L}
  BY DEF SummaryAcks
<1> HIDE DEF L
<1>4. ASSUME NEW rs \in Seq(RangeTypes) PROVE [kind |-> "SummaryAck", received |-> rs] \in SummaryAckTypes
  BY DEF SummaryAckTypes
<1> QED BY <1>2, <1>3, <1>4

\* Every message of the catalogue is well typed.
LEMMA CatalogueTyped == Catalogue \subseteq MessageTypes
  BY CatalogueGets, CatalogueSets, CatalogueDeletes, CatalogueCreates, CatalogueQueries,
     CatalogueResponses, CatalogueSummaryAcks DEF Catalogue, MessageTypes

\* A percentile that is none is what keeps a message from arriving.
LEMMA SendableSpec == \A m : Sendable(m) <=> Percentiles(m) \subseteq 0..100
<1> TAKE m
<1>1. CASE m.kind # "Query"
  BY <1>1 DEF Sendable, Percentiles
<1>2. CASE m.kind = "Query"
  <2>1. Percentiles(m) = {a.percentile : a \in {b \in m.aggregationMethod : b.kind = "percentile"}}
    BY <1>2 DEF Percentiles
  <2>2. Sendable(m) <=> \A a \in m.aggregationMethod : a.kind = "percentile" => a.percentile \in 0..100
    BY <1>2 DEF Sendable, Fits
  <2> QED BY <2>1, <2>2
<1> QED BY <1>1, <1>2

\* What the other side reads from a datagram is the message that was sent, and a
\* message cut short is not taken for another one (ber.go, codec.go).
THEOREM MessagesArrive == SpecAll => []MessagesRoundTrip
<1> DEFINE Inv == \A m \in message : Arrives(m)
<1>1. InitAll => Inv
  <2> SUFFICES ASSUME message \in {{}} \cup {{m} : m \in Catalogue}, NEW m \in message
               PROVE  Arrives(m)
    BY DEF InitAll
  <2>1. m \in MessageTypes
    BY CatalogueTyped
  <2> QED BY <2>1, MessageRoundTrip
<1>2. Inv /\ [NextAll]_<<vars, message>> => Inv'
  <2>1. [NextAll]_<<vars, message>> => message' = message
    BY DEF NextAll
  <2> QED BY <2>1
<1>3. Inv => MessagesRoundTrip
  <2> SUFFICES ASSUME NEW m \in message, Arrives(m)
               PROVE  LET data == MarshalMessage(m)
                      IN  Len(data) <= MaxLong =>
                              /\ UnmarshalMessage(data) = IF Percentiles(m) \subseteq 0..100 THEN {m} ELSE {}
                              /\ \A n \in 0..(Len(data) - 1) : UnmarshalMessage(SubSeq(data, 1, n)) = {}
    BY DEF MessagesRoundTrip
  <2> QED BY SendableSpec DEF Arrives, Short
<1> QED BY <1>1, <1>2, <1>3, PTL DEF SpecAll
=============================================================================
