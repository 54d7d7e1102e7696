-------------------------- MODULE QueryRunnerProofs --------------------------
(***************************************************************************)
(* Proofs about one active query: what the filter Of computes for every     *)
(* sequence of reports, by induction over the sequence; type correctness;   *)
(* that a query does not feed itself; and that the reports of a node reach  *)
(* the client in order, none lost, none twice and none for nothing.         *)
(***************************************************************************)
EXTENDS QueryRunner, DataLemmas

\* The function that Of defines by recursion.
Step(nodes, rs, f) ==
    [i \in 0..Len(rs) |->
        IF i = 0 THEN <<>>
        ELSE IF rs[i][1] \in nodes THEN Append(f[i-1], rs[i])
        ELSE f[i-1]]

\* The recursion has a solution for every sequence.
LEMMA OfExists ==
    ASSUME NEW nodes, NEW S
    PROVE  \A rs \in Seq(S) : \E f : f = Step(nodes, rs, f)
<1> DEFINE P == {rs \in Seq(S) : \E f : f = Step(nodes, rs, f)}
<1>1. <<>> \in P
  <2> DEFINE f == [i \in 0..0 |-> <<>>]
  <2>1. Len(<<>>) = 0 /\ <<>> \in Seq(S)
    BY EmptySeq
  <2>2. f = Step(nodes, <<>>, f)
    BY <2>1 DEF Step
  <2> QED BY <2>1, <2>2
<1>2. ASSUME NEW s \in Seq(S), NEW e \in S, s \in P PROVE Append(s, e) \in P
  <2>1. PICK f : f = Step(nodes, s, f)
    BY <1>2
  <2> DEFINE n == Len(s)
             t == Append(s, e)
             g == [i \in 0..(n+1) |->
                    IF i <= n THEN f[i]
                    ELSE IF e[1] \in nodes THEN Append(f[n], e) ELSE f[n]]
  <2>2. /\ t \in Seq(S) /\ Len(t) = n + 1 /\ n \in Nat
        /\ t[n+1] = e /\ \A i \in 1..n : t[i] = s[i]
    BY AppendProperties, LenProperties
  <2>3. \A i \in 0..(n+1) : g[i] = Step(nodes, t, g)[i]
    <3> TAKE i \in 0..(n+1)
    <3>1. CASE i = 0
      BY <2>1, <2>2, <3>1 DEF Step
    <3>2. CASE i \in 1..n
      <4>1. i - 1 \in 0..n /\ i \in 0..n /\ i # 0
        BY <2>2, <3>2
      <4>2. f[i] = IF s[i][1] \in nodes THEN Append(f[i-1], s[i]) ELSE f[i-1]
        BY <2>1, <4>1 DEF Step
      <4>3. g[i] = f[i] /\ g[i-1] = f[i-1]
        BY <2>2, <3>2
      <4> QED BY <2>2, <3>2, <4>2, <4>3 DEF Step
    <3>3. CASE i = n + 1
      <4>1. g[n] = f[n] /\ (n + 1) - 1 = n
        BY <2>2
      <4> QED BY <2>2, <3>3, <4>1 DEF Step
    <3> QED BY <2>2, <3>1, <3>2, <3>3
  <2>4. g = Step(nodes, t, g)
    <3>1. DOMAIN Step(nodes, t, g) = 0..(n+1) /\ DOMAIN g = 0..(n+1)
      BY <2>2 DEF Step
    <3>2. Step(nodes, t, g) = [i \in 0..(n+1) |-> Step(nodes, t, g)[i]]
      BY <2>2 DEF Step
    <3> QED BY <2>3, <3>1, <3>2
  <2> QED BY <2>2, <2>4
<1> HIDE DEF P
<1>3. Seq(S) \subseteq P
  BY <1>1, <1>2, SeqSetInduction
<1> QED BY <1>3 DEF P

\* The equation of Of.
LEMMA OfIsStep ==
    ASSUME NEW nodes, NEW S, NEW rs \in Seq(S)
    PROVE  \E f : f = Step(nodes, rs, f) /\ Of(nodes, rs) = f[Len(rs)]
<1> DEFINE f == CHOOSE f : f = Step(nodes, rs, f)
<1>1. f = Step(nodes, rs, f)
  BY OfExists
<1>2. Of(nodes, rs) = f[Len(rs)]
  BY DEF Of, Step
<1> QED BY <1>1, <1>2

\* What Of computes: nothing for no reports, ...
LEMMA OfEmpty ==
    ASSUME NEW nodes
    PROVE  Of(nodes, <<>>) = <<>>
<1>1. <<>> \in Seq({}) /\ Len(<<>>) = 0
  BY EmptySeq
<1>2. PICK f : f = Step(nodes, <<>>, f) /\ Of(nodes, <<>>) = f[0]
  BY <1>1, OfIsStep
<1> QED BY <1>1, <1>2 DEF Step

\* ... and one more report is kept exactly if it is of one of the nodes.
LEMMA OfAppend ==
    ASSUME NEW nodes, NEW S, NEW rs \in Seq(S), NEW r \in S
    PROVE  Of(nodes, Append(rs, r))
             = IF r[1] \in nodes THEN Append(Of(nodes, rs), r) ELSE Of(nodes, rs)
<1> DEFINE t == Append(rs, r)
           n == Len(rs)
<1>1. /\ t \in Seq(S) /\ Len(t) = n + 1 /\ n \in Nat
      /\ t[n+1] = r /\ \A i \in 1..n : t[i] = rs[i]
  BY AppendProperties, LenProperties
<1>2. PICK f : f = Step(nodes, rs, f) /\ Of(nodes, rs) = f[n]
  BY OfIsStep
<1>3. PICK g : g = Step(nodes, t, g) /\ Of(nodes, t) = g[n+1]
  BY <1>1, OfIsStep
<1> DEFINE P == {i \in Nat : i <= n => f[i] = g[i]}
<1>4. 0 \in P
  BY <1>1, <1>2, <1>3 DEF Step
<1>5. ASSUME NEW i \in Nat, i \in P PROVE i + 1 \in P
  <2> SUFFICES ASSUME i + 1 <= n PROVE f[i+1] = g[i+1]
    OBVIOUS
  <2>1. /\ i + 1 \in 1..n /\ i + 1 \in 0..n /\ i + 1 \in 0..(n+1) /\ i + 1 # 0
        /\ (i + 1) - 1 = i
    BY <1>1
  <2>2. f[i+1] = IF rs[i+1][1] \in nodes THEN Append(f[i], rs[i+1]) ELSE f[i]
    BY <1>2, <2>1 DEF Step
  <2>3. g[i+1] = IF t[i+1][1] \in nodes THEN Append(g[i], t[i+1]) ELSE g[i]
    <3>1. g = Step(nodes, t, g) /\ i + 1 \in 0..Len(t)
      BY <1>1, <1>3, <2>1
    <3> HIDE DEF t
    <3> QED BY <2>1, <3>1 DEF Step
  <2> QED BY <1>1, <1>5, <2>1, <2>2, <2>3
<1>6. Nat \subseteq P
  <2> HIDE DEF P
  <2> QED BY <1>4, <1>5, NatSetInduction
<1>7. f[n] = g[n]
  BY <1>1, <1>6
<1>8. g[n+1] = IF t[n+1][1] \in nodes THEN Append(g[n], t[n+1]) ELSE g[n]
  <2>1. n + 1 \in 0..(n+1) /\ n + 1 # 0 /\ (n + 1) - 1 = n
    BY <1>1
  <2> QED BY <1>1, <1>3, <2>1 DEF Step
<1> QED BY <1>1, <1>2, <1>3, <1>7, <1>8

\* The filter keeps sequences of reports sequences of reports.
LEMMA OfType ==
    ASSUME NEW nodes, NEW S
    PROVE  \A rs \in Seq(S) : Of(nodes, rs) \in Seq(S)
<1> DEFINE P == {rs \in Seq(S) : Of(nodes, rs) \in Seq(S)}
<1>1. <<>> \in P
  BY OfEmpty, EmptySeq
<1>2. ASSUME NEW s \in Seq(S), NEW e \in S, s \in P PROVE Append(s, e) \in P
  BY <1>2, OfAppend, AppendProperties
<1> HIDE DEF P
<1>3. Seq(S) \subseteq P
  BY <1>1, <1>2, SeqSetInduction
<1> QED BY <1>3 DEF P

\* What is appended to a buffer is filtered by itself.
LEMMA OfConcat ==
    ASSUME NEW nodes, NEW S, NEW s \in Seq(S)
    PROVE  \A t \in Seq(S) : Of(nodes, s \o t) = Of(nodes, s) \o Of(nodes, t)
<1> DEFINE P == {t \in Seq(S) : Of(nodes, s \o t) = Of(nodes, s) \o Of(nodes, t)}
<1>1. <<>> \in P
  <2>1. s \o <<>> = s /\ Of(nodes, s) \o <<>> = Of(nodes, s)
    BY OfType, ConcatEmptySeq
  <2> QED BY <2>1, OfEmpty, EmptySeq
<1>2. ASSUME NEW t \in Seq(S), NEW e \in S, t \in P PROVE Append(t, e) \in P
  <2>1. Append(t, e) \in Seq(S) /\ s \o t \in Seq(S)
    BY AppendProperties, ConcatProperties
  <2>2. s \o Append(t, e) = Append(s \o t, e)
    BY <2>1
  <2>3. Of(nodes, s) \in Seq(S) /\ Of(nodes, t) \in Seq(S)
    BY OfType
  <2>4. Of(nodes, s) \o Append(Of(nodes, t), e) = Append(Of(nodes, s) \o Of(nodes, t), e)
    BY <2>3
  <2> DEFINE u == s \o t
  <2>5. Of(nodes, Append(u, e))
          = IF e[1] \in nodes THEN Append(Of(nodes, u), e) ELSE Of(nodes, u)
    <3>1. u \in Seq(S)
      BY <2>1
    <3> HIDE DEF u
    <3> QED BY <3>1, OfAppend
  <2>6. Of(nodes, Append(t, e))
          = IF e[1] \in nodes THEN Append(Of(nodes, t), e) ELSE Of(nodes, t)
    BY OfAppend
  <2> QED BY <1>2, <2>1, <2>2, <2>4, <2>5, <2>6
<1> HIDE DEF P
<1>3. Seq(S) \subseteq P
  BY <1>1, <1>2, SeqSetInduction
<1> QED BY <1>3 DEF P

\* aggregate drops whole keys: the reports about a node that it keeps are all
\* that were there, ...
LEMMA OfKept ==
    ASSUME NEW n, NEW kept, n \in kept, NEW S
    PROVE  \A rs \in Seq(S) : Of({n}, Of(kept, rs)) = Of({n}, rs)
<1> DEFINE P == {rs \in Seq(S) : Of({n}, Of(kept, rs)) = Of({n}, rs)}
<1>1. <<>> \in P
  BY OfEmpty, EmptySeq
<1>2. ASSUME NEW s \in Seq(S), NEW e \in S, s \in P PROVE Append(s, e) \in P
  <2>1. Append(s, e) \in Seq(S) /\ Of(kept, s) \in Seq(S)
    BY OfType, AppendProperties
  <2>2. Of({n}, Append(s, e)) = IF e[1] = n THEN Append(Of({n}, s), e) ELSE Of({n}, s)
    BY OfAppend
  <2>3. CASE e[1] \in kept
    <3>1. Of(kept, Append(s, e)) = Append(Of(kept, s), e)
      BY <2>3, OfAppend
    <3>2. Of({n}, Append(Of(kept, s), e))
            = IF e[1] = n THEN Append(Of({n}, Of(kept, s)), e) ELSE Of({n}, Of(kept, s))
      BY <2>1, OfAppend
    <3> QED BY <1>2, <2>1, <2>2, <3>1, <3>2
  <2>4. CASE e[1] \notin kept
    <3>1. Of(kept, Append(s, e)) = Of(kept, s)
      BY <2>4, OfAppend
    <3> QED BY <1>2, <2>1, <2>2, <2>4, <3>1
  <2> QED BY <2>3, <2>4
<1> HIDE DEF P
<1>3. Seq(S) \subseteq P
  BY <1>1, <1>2, SeqSetInduction
<1> QED BY <1>3 DEF P

\* ... and of a node that it drops none is left.
LEMMA OfDropped ==
    ASSUME NEW n, NEW kept, n \notin kept, NEW S
    PROVE  \A rs \in Seq(S) : Of({n}, Of(kept, rs)) = <<>>
<1> DEFINE P == {rs \in Seq(S) : Of({n}, Of(kept, rs)) = <<>>}
<1>1. <<>> \in P
  BY OfEmpty, EmptySeq
<1>2. ASSUME NEW s \in Seq(S), NEW e \in S, s \in P PROVE Append(s, e) \in P
  <2>1. Append(s, e) \in Seq(S) /\ Of(kept, s) \in Seq(S)
    BY OfType, AppendProperties
  <2>2. CASE e[1] \in kept
    <3>1. Of(kept, Append(s, e)) = Append(Of(kept, s), e)
      BY <2>2, OfAppend
    <3>2. Of({n}, Append(Of(kept, s), e)) = Of({n}, Of(kept, s))
      BY <2>1, <2>2, OfAppend
    <3> QED BY <1>2, <2>1, <3>1, <3>2
  <2>3. CASE e[1] \notin kept
    <3>1. Of(kept, Append(s, e)) = Of(kept, s)
      BY <2>3, OfAppend
    <3> QED BY <1>2, <2>1, <3>1
  <2> QED BY <2>2, <2>3
<1> HIDE DEF P
<1>3. Seq(S) \subseteq P
  BY <1>1, <1>2, SeqSetInduction
<1> QED BY <1>3 DEF P

\* Of a sequence with at most one report of each node, each is found alone.
LEMMA OfOnce ==
    ASSUME NEW n, NEW S
    PROVE  \A rs \in Seq(S) :
             (\A i, j \in 1..Len(rs) : rs[i][1] = rs[j][1] => i = j) =>
               /\ (\A i \in 1..Len(rs) : rs[i][1] # n) => Of({n}, rs) = <<>>
               /\ \A i \in 1..Len(rs) : rs[i][1] = n => Of({n}, rs) = <<rs[i]>>
<1> DEFINE Alone(rs) == \A i, j \in 1..Len(rs) : rs[i][1] = rs[j][1] => i = j
           None(rs) == \A i \in 1..Len(rs) : rs[i][1] # n
           Found(rs) == \A i \in 1..Len(rs) : rs[i][1] = n => Of({n}, rs) = <<rs[i]>>
           P == {rs \in Seq(S) : Alone(rs) => (None(rs) => Of({n}, rs) = <<>>) /\ Found(rs)}
<1>1. <<>> \in P
  <2>1. <<>> \in Seq(S) /\ Len(<<>>) = 0
    BY EmptySeq
  <2> QED BY <2>1, OfEmpty
<1>2. ASSUME NEW s \in Seq(S), NEW e \in S, s \in P PROVE Append(s, e) \in P
  <2> DEFINE t == Append(s, e)
             k == Len(s)
  <2>1. /\ t \in Seq(S) /\ Len(t) = k + 1 /\ k \in Nat
        /\ t[k+1] = e /\ \A i \in 1..k : t[i] = s[i]
    BY AppendProperties, LenProperties
  <2>2. Of({n}, t) = IF e[1] = n THEN Append(Of({n}, s), e) ELSE Of({n}, s)
    BY OfAppend
  <2> HIDE DEF t
  <2>3. SUFFICES ASSUME Alone(t)
                 PROVE  (None(t) => Of({n}, t) = <<>>) /\ Found(t)
    BY <2>1 DEF t
  <2>4. Alone(s)
    <3> SUFFICES ASSUME NEW i \in 1..k, NEW j \in 1..k, s[i][1] = s[j][1]
                 PROVE  i = j
      OBVIOUS
    <3>1. i \in 1..Len(t) /\ j \in 1..Len(t) /\ t[i] = s[i] /\ t[j] = s[j]
      BY <2>1
    <3> QED BY <2>3, <3>1
  <2>5. (None(s) => Of({n}, s) = <<>>) /\ Found(s)
    BY <1>2, <2>4
  <2>6. None(t) => Of({n}, t) = <<>>
    <3> SUFFICES ASSUME None(t) PROVE Of({n}, t) = <<>>
      OBVIOUS
    <3>1. k + 1 \in 1..Len(t) /\ \A i \in 1..k : i \in 1..Len(t)
      BY <2>1
    <3>2. e[1] # n /\ None(s)
      BY <2>1, <3>1
    <3> QED BY <2>2, <2>5, <3>2
  <2>7. ASSUME NEW i \in 1..Len(t), t[i][1] = n PROVE Of({n}, t) = <<t[i]>>
    <3>0. k + 1 \in 1..Len(t)
      BY <2>1
    <3>1. CASE i = k + 1
      <4>1. e[1] = n
        BY <2>1, <2>7, <3>1
      <4>2. None(s)
        <5> SUFFICES ASSUME NEW j \in 1..k, s[j][1] = n PROVE FALSE
          OBVIOUS
        <5>1. j \in 1..Len(t) /\ t[j][1] = t[k+1][1] /\ j # k + 1
          BY <2>1, <4>1
        <5> QED BY <2>3, <3>0, <5>1
      <4>3. Of({n}, t) = Append(<<>>, e)
        BY <2>2, <2>5, <4>1, <4>2
      <4> QED BY <2>1, <3>1, <4>3
    <3>2. CASE i # k + 1
      <4>1. i \in 1..k /\ t[i] = s[i]
        BY <2>1, <3>2
      <4>2. e[1] # n
        BY <2>1, <2>3, <2>7, <3>0, <3>2
      <4>3. Of({n}, s) = <<s[i]>>
        BY <2>5, <2>7, <4>1
      <4> QED BY <2>2, <4>1, <4>2, <4>3
    <3> QED BY <3>1, <3>2
  <2> QED BY <2>6, <2>7
<1> HIDE DEF P
<1>3. Seq(S) \subseteq P
  BY <1>1, <1>2, SeqSetInduction
<1> QED BY <1>3 DEF P

\* The samples of a pass, in some order: each once.
LEMMA SetToSeqSpec ==
    ASSUME NEW S, IsFiniteSet(S)
    PROVE  /\ SetToSeq(S) \in Seq(S)
           /\ \A i, j \in 1..Len(SetToSeq(S)) :
                 SetToSeq(S)[i] = SetToSeq(S)[j] => i = j
           /\ \A x \in S : \E i \in 1..Len(SetToSeq(S)) : SetToSeq(S)[i] = x
<1> DEFINE k == Cardinality(S)
           s == SetToSeq(S)
<1>1. k \in Nat /\ ExistsBijection(1..k, S)
  BY FS_CardinalityType
<1>2. \E f \in [1..k -> S] : IsInjective(f)
  BY <1>1 DEF ExistsBijection, Bijection, Injection
<1>3. s \in [1..k -> S] /\ IsInjective(s)
  BY <1>2 DEF SetToSeq
<1> HIDE DEF s
<1>4. s \in Injection(1..k, S)
  BY <1>3 DEF Injection
<1>5. IsFiniteSet(1..k) /\ Cardinality(1..k) = k
  BY <1>1, FS_Interval
<1>6. s \in Surjection(1..k, S)
  BY <1>4, <1>5, FS_Injection
<1>7. s \in Seq(S) /\ Len(s) = k
  BY <1>1, <1>3
<1>8. \A i, j \in 1..Len(s) : s[i] = s[j] => i = j
  BY <1>3, <1>7 DEF IsInjective
<1>9. \A x \in S : \E i \in 1..Len(s) : s[i] = x
  BY <1>6, <1>7 DEF Surjection
<1> QED BY <1>7, <1>8, <1>9 DEF s

-----------------------------------------------------------------------------
(* The inductive invariant.                                                 *)

\* A report is of a watched node that was there.
Reports == Watched \X (Nat \ {0})

\* Where the reports are: the outbox is filled between a transfer that found
\* some and the push, and only then.
Buffers ==
    /\ taken \in Seq(Reports) /\ collected \in Seq(Reports)
    /\ pending \in Seq(Reports) /\ outbox \in Seq(Reports)
    /\ delivered \in Seq(Reports)
    /\ pc \notin {"materialize", "push"} => outbox = <<>>
    /\ pc = "materialize" => outbox # <<>>
    /\ ~ query.aggregated => collected = <<>>

\* A node has at most one version more than there were mutations.
Types ==
    /\ query \in Queries
    /\ mutations \in 0..MaxMutations
    /\ version \in [Watched -> -1..(mutations + 1)]
    /\ lastValues \in [Watched -> 0..(mutations + 1)]
    /\ owing \in 0..mutations
    /\ changeGen \in Nat
    /\ gen \in -1..changeGen

\* Every generation was paid for: by a mutation that is no longer owing, by
\* the Delete once it has notified, or by a report that was materialized.
Paid ==
    changeGen + owing + (IF cancel \in {"no", "detached"} THEN 1 ELSE 0)
                      + (IF pc = "materialize" THEN 1 ELSE 0)
      <= mutations + 1 + Len(delivered) + Len(outbox)

\* Reports of one node, ever newer, that end with the version last.
Newer(rs, last) ==
    /\ \A i \in 1..(Len(rs) - 1) : rs[i][2] < rs[i+1][2]
    /\ \A i \in 1..Len(rs) : rs[i][2] <= last

\* Reports of one node, each different from the one before.
Differing(rs, last) ==
    /\ \A i \in 1..(Len(rs) - 1) : Value(rs[i][2]) # Value(rs[i+1][2])
    /\ rs # <<>> => rs[Len(rs)][2] = last

\* lastValues remembers the last report of every node, and no node goes back
\* behind it.
Remembered ==
    query.mode = "onChange" => \A n \in Watched :
        /\ version[n] >= lastValues[n] \/ version[n] = -1
        /\ Newer(About(n, Pipeline), lastValues[n])
        /\ Usable(n) => Differing(About(n, Pipeline), lastValues[n])

IInv == Buffers /\ Types /\ Paid /\ Remembered /\ SamplesInOrder

-----------------------------------------------------------------------------
(* What the operations do to the reports.                                   *)

\* A pass adds each sample once, after everything that is on its way.
LEMMA CollectSpec ==
    ASSUME Buffers, Types, Collect
    PROVE  \E new \in Seq(Reports) :
             /\ taken' = taken \o new
             /\ \/ /\ query.aggregated
                   /\ collected' = collected \o new /\ pending' = pending
                \/ collected' = <<>> /\ pending' = pending \o (collected \o new)
             /\ \A n \in Watched :
                  About(n, new) = IF n \in Samples THEN <<Report(n)>> ELSE <<>>
<1> DEFINE S == SetToSeq(Samples)
           new == [i \in DOMAIN S |-> Report(S[i])]
<1>1. IsFiniteSet(Samples) /\ Samples \subseteq Watched
  <2>1. Samples \in SUBSET Watched
    BY DEF Samples
  <2> QED BY <2>1, WatchedAssumption, FS_Subset
<1>2. /\ S \in Seq(Samples)
      /\ \A i, j \in 1..Len(S) : S[i] = S[j] => i = j
      /\ \A x \in Samples : \E i \in 1..Len(S) : S[i] = x
  BY <1>1, SetToSeqSpec
<1>3. /\ taken' = taken \o new
      /\ \/ /\ query.aggregated
            /\ collected' = collected \o new /\ pending' = pending
         \/ collected' = <<>> /\ pending' = pending \o (collected \o new)
  BY DEF Collect, Promote
<1> HIDE DEF S
<1>4. Len(S) \in Nat /\ DOMAIN S = 1..Len(S) /\ \A i \in 1..Len(S) : S[i] \in Samples
  BY <1>2, LenProperties, ElementOfSeq
<1>5. \A n \in Samples : Report(n) \in Reports /\ Report(n)[1] = n
  <2> TAKE n \in Samples
  <2>1. n \in Watched /\ version[n] > 0
    BY DEF Samples
  <2>2. version[n] \in Int
    BY <2>1, RunnerBounds DEF Types
  <2> QED BY <2>1, <2>2 DEF Report, Reports
<1>6. \A i \in 1..Len(S) : new[i] \in Reports /\ new[i][1] = S[i] /\ new[i] = Report(S[i])
  BY <1>4, <1>5
<1>7. new \in Seq(Reports) /\ Len(new) = Len(S)
  BY <1>4, <1>6
<1> HIDE DEF new
<1>8. \A i, j \in 1..Len(new) : new[i][1] = new[j][1] => i = j
  BY <1>2, <1>6, <1>7
<1>9. ASSUME NEW n \in Watched
      PROVE  About(n, new) = IF n \in Samples THEN <<Report(n)>> ELSE <<>>
  <2>1. /\ (\A i \in 1..Len(new) : new[i][1] # n) => Of({n}, new) = <<>>
        /\ \A i \in 1..Len(new) : new[i][1] = n => Of({n}, new) = <<new[i]>>
    BY <1>7, <1>8, OfOnce
  <2>2. CASE n \in Samples
    <3>1. PICK i \in 1..Len(S) : S[i] = n
      BY <1>2, <2>2
    <3> QED BY <1>6, <1>7, <2>1, <2>2, <3>1 DEF About
  <2>3. CASE n \notin Samples
    BY <1>4, <1>6, <1>7, <2>1, <2>3 DEF About
  <2> QED BY <2>2, <2>3
<1> QED BY <1>3, <1>7, <1>9

\* aggregate keeps all the reports of a node or none, and all of a usable one.
LEMMA AggregateSpec ==
    ASSUME Buffers, Aggregate
    PROVE  \E kept :
             /\ collected' = <<>> /\ pending' = pending \o Of(kept, collected)
             /\ \A n \in Watched : Usable(n) => n \in kept \/ collected = <<>>
<1> DEFINE kept == {n \in Watched : Aggregates(Key[n])}
<1>1. collected' = <<>> /\ pending' = pending \o Of(kept, collected)
  BY DEF Aggregate
<1>2. ASSUME NEW n \in Watched, Usable(n), collected # <<>> PROVE Aggregates(Key[n])
  <2>1. query.aggregated
    BY <1>2 DEF Buffers
  <2>2. SUFFICES ASSUME NEW s \in ToSet(collected), Key[s[1]] = Key[n]
                 PROVE  s[1] \in Numeric
    BY DEF Aggregates
  <2>3. s \in Reports
    BY <2>2, LenProperties, ElementOfSeq DEF ToSet, Buffers
  <2>4. s[1] \in Watched
    BY <2>3 DEF Reports
  <2> QED BY <1>2, <2>1, <2>2, <2>4 DEF Usable
<1> QED BY <1>1, <1>2

-----------------------------------------------------------------------------
(* The invariant is inductive.                                              *)

\* A runner starts with its baseline and nothing buffered.
LEMMA InitIInv == Init => IInv
<1> SUFFICES ASSUME Init PROVE IInv
  OBVIOUS
<1>1. Buffers
  BY EmptySeq DEF Init, Buffers
<1>2. Types
  <2>1. version \in [Watched -> -1..(0+1)] /\ lastValues \in [Watched -> 0..(0+1)]
    BY DEF Init
  <2>2. /\ mutations = 0 /\ mutations \in 0..MaxMutations /\ owing \in 0..mutations
        /\ changeGen \in Nat /\ gen \in -1..changeGen
    BY RunnerBounds DEF Init, NotYet
  <2> QED BY <2>1, <2>2 DEF Init, Types
<1>3. Paid
  <2>1. Len(<<>>) = 0
    BY EmptySeq
  <2> QED BY <2>1 DEF Init, Paid
<1>4. Pipeline = <<>> /\ taken = <<>>
  BY DEF Init, Pipeline
<1>5. \A n \in Watched : About(n, Pipeline) = <<>> /\ About(n, taken) = <<>>
  BY <1>4, OfEmpty DEF About
<1>6. SamplesInOrder
  BY <1>5 DEF SamplesInOrder
<1>7. Remembered
  <2>1. Len(<<>>) = 0
    BY EmptySeq
  <2>2. Newer(<<>>, 0) /\ Differing(<<>>, 0)
    BY <2>1 DEF Newer, Differing
  <2>3. \A n \in Watched : lastValues[n] = 0 /\ version[n] >= 0
    BY DEF Init
  <2> QED BY <1>5, <2>2, <2>3 DEF Remembered
<1> QED BY <1>1, <1>2, <1>3, <1>6, <1>7 DEF IInv

\* Every step keeps the buffers, the messages on their way and what the
\* client has in order.
LEMMA NextBuffers == Buffers /\ Types /\ [Next]_vars => Buffers'
<1> SUFFICES ASSUME Buffers, Types, [Next]_vars PROVE Buffers'
  OBVIOUS
<1> USE DEF Buffers
<1>0. NextPass \notin {"materialize", "push"}
  BY DEF NextPass
<1>1. CASE Collect
  <2>0. query' = query
    BY <1>1 DEF Collect, treeVars
  <2>1. PICK new \in Seq(Reports) :
             /\ taken' = taken \o new
             /\ \/ /\ query.aggregated
                   /\ collected' = collected \o new /\ pending' = pending
                \/ collected' = <<>> /\ pending' = pending \o (collected \o new)
    BY <1>1, CollectSpec
  <2>2. /\ taken' \in Seq(Reports) /\ pending' \in Seq(Reports)
        /\ collected' \in Seq(Reports)
        /\ ~ query.aggregated => collected' = <<>>
    <3>1. /\ taken \o new \in Seq(Reports) /\ collected \o new \in Seq(Reports)
          /\ <<>> \in Seq(Reports)
      BY ConcatProperties, EmptySeq
    <3>2. pending \o (collected \o new) \in Seq(Reports)
      BY <3>1, ConcatProperties
    <3> QED BY <2>1, <3>1, <3>2, <2>0
  <2>3. /\ outbox' = outbox /\ delivered' = delivered /\ query' = query
        /\ outbox = <<>> /\ pc' # "materialize"
    BY <1>0, <1>1 DEF Collect, treeVars
  <2> QED BY <2>2, <2>3
<1>2. CASE AggregateOnce \/ SelectAggregate
  <2>1. /\ Aggregate /\ taken' = taken /\ outbox' = outbox /\ delivered' = delivered
        /\ query' = query /\ outbox = <<>> /\ pc' # "materialize"
    BY <1>0, <1>2 DEF AggregateOnce, SelectAggregate, Select, treeVars
  <2>2. PICK kept : collected' = <<>> /\ pending' = pending \o Of(kept, collected)
    BY <2>1, AggregateSpec
  <2>3. pending' \in Seq(Reports) /\ collected' \in Seq(Reports)
    BY <2>2, OfType, ConcatProperties, EmptySeq
  <2> QED BY <2>1, <2>2, <2>3
<1>3. CASE Transfer
  BY <1>0, <1>3, EmptySeq DEF Transfer, treeVars
<1>4. CASE Push
  <2>1. delivered' \in Seq(Reports)
    BY <1>4, ConcatProperties DEF Push
  <2> QED BY <1>0, <1>4, <2>1, EmptySeq DEF Push, treeVars
<1>5. CASE Materialize
  BY <1>5 DEF Materialize, reportVars
<1>6. CASE First \/ Arm
  BY <1>6 DEF First, Arm, reportVars, treeVars
<1>7. CASE SelectDone \/ SelectChanged \/ SelectCollect \/ SelectTransfer
  BY <1>7 DEF SelectDone, SelectChanged, SelectCollect, SelectTransfer, Select,
              reportVars, treeVars
<1>8. CASE Mutate \/ Notify
  BY <1>8 DEF Mutate, Notify, reportVars
<1>9. CASE Detach \/ DetachNotify \/ Stop
  BY <1>9 DEF Detach, DetachNotify, Stop, reportVars, treeVars
<1>10. CASE UNCHANGED vars
  BY <1>10 DEF vars, reportVars, treeVars
<1> QED
  BY <1>1, <1>2, <1>3, <1>4, <1>5, <1>6, <1>7, <1>8, <1>9, <1>10 DEF Next, Runner

\* Every step keeps the types.
LEMMA NextTypes == Buffers /\ Types /\ [Next]_vars => Types'
<1> SUFFICES ASSUME Buffers, Types, [Next]_vars PROVE Types'
  OBVIOUS
<1> USE RunnerBounds DEF Types
<1>1. CASE Mutate
  <2>1. version' \in [Watched -> -1..(mutations + 2)]
    <3>1. version \in [Watched -> -1..(mutations + 2)]
      OBVIOUS
    <3>2. ASSUME NEW n \in Watched, version' = [version EXCEPT ![n] = @ + 1]
          PROVE  version' \in [Watched -> -1..(mutations + 2)]
      <4>1. version[n] + 1 \in -1..(mutations + 2)
        OBVIOUS
      <4> QED BY <3>1, <3>2, <4>1
    <3>3. ASSUME NEW n \in Watched, version' = [version EXCEPT ![n] = -1]
          PROVE  version' \in [Watched -> -1..(mutations + 2)]
      <4>1. -1 \in -1..(mutations + 2)
        OBVIOUS
      <4> QED BY <3>1, <3>3, <4>1
    <3> QED BY <1>1, <3>1, <3>2, <3>3 DEF Mutate
  <2>2. lastValues' \in [Watched -> 0..(mutations + 2)]
    BY <1>1 DEF Mutate, reportVars
  <2>3. /\ mutations' = mutations + 1 /\ mutations' \in 0..MaxMutations
        /\ owing' \in 0..mutations' /\ mutations' + 1 = mutations + 2
        /\ UNCHANGED <<query, changeGen, gen>>
    BY <1>1 DEF Mutate, waitVars
  <2> QED BY <2>1, <2>2, <2>3
<1>2. CASE Collect
  <2>1. \A n \in Samples : version[n] \in 0..(mutations + 1)
    BY DEF Samples
  <2>2. lastValues' \in [Watched -> 0..(mutations + 1)]
    BY <1>2, <2>1 DEF Collect
  <2> QED BY <1>2, <2>2 DEF Collect, treeVars
<1>3. CASE Notify \/ DetachNotify \/ Materialize
  BY <1>3 DEF Notify, DetachNotify, Materialize, reportVars, waitVars
<1>4. CASE First \/ Arm
  BY <1>4 DEF First, Arm, ChangedSince, treeVars, reportVars
<1>5. CASE AggregateOnce \/ SelectAggregate
  BY <1>5 DEF AggregateOnce, SelectAggregate, Select, treeVars, waitVars
<1>6. CASE Transfer \/ Push
  BY <1>6 DEF Transfer, Push, treeVars, waitVars
<1>7. CASE SelectDone \/ SelectChanged \/ SelectCollect \/ SelectTransfer
  BY <1>7 DEF SelectDone, SelectChanged, SelectCollect, SelectTransfer, Select,
              reportVars, treeVars
<1>8. CASE Detach \/ Stop
  BY <1>8 DEF Detach, Stop, reportVars, treeVars, waitVars
<1>9. CASE UNCHANGED vars
  BY <1>9 DEF vars, reportVars, treeVars, waitVars
<1> QED
  BY <1>1, <1>2, <1>3, <1>4, <1>5, <1>6, <1>7, <1>8, <1>9 DEF Next, Runner

\* A transfer that delivers nothing does not materialize, so no step makes a
\* generation that is not paid for.
LEMMA NextPaid == Buffers /\ Types /\ Paid /\ [Next]_vars => Paid'
<1> SUFFICES ASSUME Buffers, Types, Paid, [Next]_vars PROVE Paid'
  OBVIOUS
<1> DEFINE owed == IF cancel \in {"no", "detached"} THEN 1 ELSE 0
<1>1. /\ changeGen \in Int /\ owing \in Int /\ mutations \in Int
      /\ Len(delivered) \in Nat /\ Len(outbox) \in Nat
  BY LenProperties DEF Buffers, Types
<1>2. NextPass \notin {"materialize", "push"}
  BY DEF NextPass
<1>3. CASE Mutate \/ Notify
  BY <1>1, <1>3 DEF Mutate, Notify, Paid, reportVars
<1>4. CASE Detach \/ DetachNotify \/ Stop
  BY <1>1, <1>4 DEF Detach, DetachNotify, Stop, Paid, reportVars, treeVars
<1>5. CASE Transfer
  <2>1. outbox = <<>> /\ Len(<<>>) = 0
    BY <1>5, EmptySeq DEF Transfer, Buffers
  <2>2. /\ pc' = IF pending = <<>> THEN NextPass ELSE "materialize"
        /\ outbox' = pending /\ pc = "transfer"
        /\ UNCHANGED <<changeGen, owing, mutations, cancel, delivered>>
    BY <1>5 DEF Transfer, treeVars
  <2>3. pending # <<>> => Len(pending) \in Nat /\ Len(pending) > 0
    BY EmptySeq DEF Buffers
  <2>4. changeGen + owing + owed <= mutations + 1 + Len(delivered)
    BY <1>1, <2>1, <2>2 DEF Paid
  <2>5. CASE pending = <<>>
    BY <1>1, <1>2, <2>1, <2>2, <2>4, <2>5 DEF Paid
  <2>6. CASE pending # <<>>
    BY <1>1, <2>2, <2>3, <2>4, <2>6 DEF Paid
  <2> QED BY <2>5, <2>6
<1>6. CASE Materialize
  BY <1>1, <1>6 DEF Materialize, Paid, reportVars
<1>7. CASE Push
  <2>1. delivered' = delivered \o outbox /\ outbox' = <<>> /\ Len(<<>>) = 0
    BY <1>7, EmptySeq DEF Push
  <2>2. Len(delivered') = Len(delivered) + Len(outbox)
    BY <2>1, ConcatProperties DEF Buffers
  <2>3. /\ pc = "push" /\ pc' # "materialize"
        /\ UNCHANGED <<changeGen, owing, mutations, cancel>>
    BY <1>2, <1>7 DEF Push, treeVars
  <2> QED BY <1>1, <2>1, <2>2, <2>3 DEF Paid
<1>8. CASE Collect \/ AggregateOnce \/ SelectAggregate
  <2>1. /\ pc # "materialize" /\ pc' # "materialize"
        /\ UNCHANGED <<changeGen, owing, mutations, cancel, delivered, outbox>>
    BY <1>2, <1>8 DEF Collect, AggregateOnce, SelectAggregate, Select, treeVars
  <2> QED BY <1>1, <2>1 DEF Paid
<1>9. CASE First \/ Arm
  BY <1>1, <1>9 DEF First, Arm, Paid, treeVars, reportVars
<1>10. CASE SelectDone \/ SelectChanged \/ SelectCollect \/ SelectTransfer
  BY <1>1, <1>10 DEF SelectDone, SelectChanged, SelectCollect, SelectTransfer,
                     Select, Paid, reportVars, treeVars
<1>11. CASE UNCHANGED vars
  BY <1>11 DEF vars, Paid, reportVars, treeVars
<1> QED
  BY <1>3, <1>4, <1>5, <1>6, <1>7, <1>8, <1>9, <1>10, <1>11 DEF Next, Runner

\* The buffers in a row are a sequence of reports.
LEMMA PipelineType ==
    ASSUME Buffers
    PROVE  /\ delivered \o outbox \o pending \in Seq(Reports)
           /\ Pipeline \in Seq(Reports)
<1>1. delivered \o outbox \in Seq(Reports)
  BY ConcatProperties DEF Buffers
<1>2. delivered \o outbox \o pending \in Seq(Reports)
  BY <1>1, ConcatProperties DEF Buffers
<1> QED BY <1>2, ConcatProperties DEF Buffers, Pipeline

\* A pass extends the row by the samples.
LEMMA CollectPipeline ==
    ASSUME Buffers, Types, Collect
    PROVE  \E new \in Seq(Reports) :
             /\ taken' = taken \o new
             /\ Pipeline' = Pipeline \o new
             /\ \A n \in Watched :
                  About(n, new) = IF n \in Samples THEN <<Report(n)>> ELSE <<>>
<1>1. PICK new \in Seq(Reports) :
             /\ taken' = taken \o new
             /\ \/ /\ query.aggregated
                   /\ collected' = collected \o new /\ pending' = pending
                \/ collected' = <<>> /\ pending' = pending \o (collected \o new)
             /\ \A n \in Watched :
                  About(n, new) = IF n \in Samples THEN <<Report(n)>> ELSE <<>>
  BY CollectSpec
<1> DEFINE D == delivered \o outbox
<1>2. /\ D \in Seq(Reports) /\ D \o pending \in Seq(Reports)
      /\ Pipeline = (D \o pending) \o collected
      /\ pending \in Seq(Reports) /\ collected \in Seq(Reports)
  BY PipelineType, ConcatProperties DEF Buffers, Pipeline
<1>3. Pipeline' = (D \o pending') \o collected'
  BY DEF Collect, Pipeline
<1> HIDE DEF D
<1>4. collected \o new \in Seq(Reports)
  BY <1>2, ConcatProperties
<1>5. (D \o pending) \o (collected \o new) = Pipeline \o new
  <2> DEFINE E == D \o pending
  <2>1. E \in Seq(Reports) /\ collected \in Seq(Reports) /\ new \in Seq(Reports)
    BY <1>2
  <2> HIDE DEF E
  <2>2. E \o (collected \o new) = (E \o collected) \o new
    BY <2>1, ConcatAssociative, SMTT(30)
  <2> QED BY <1>2, <2>2 DEF E
<1>6. ASSUME collected' = collected \o new, pending' = pending
      PROVE  Pipeline' = Pipeline \o new
  BY <1>3, <1>5, <1>6
<1>7. ASSUME collected' = <<>>, pending' = pending \o (collected \o new)
      PROVE  Pipeline' = Pipeline \o new
  <2> DEFINE F == collected \o new
             G == D \o (pending \o F)
  <2>1. F \in Seq(Reports) /\ pending \o F \in Seq(Reports)
    BY <1>2, <1>4, ConcatProperties
  <2>2. G \in Seq(Reports)
    BY <1>2, <2>1, ConcatProperties
  <2> HIDE DEF F
  <2>3. G = (D \o pending) \o F
    BY <1>2, <2>1, ConcatAssociative, SMTT(30)
  <2>4. Pipeline' = G \o <<>>
    BY <1>3, <1>7 DEF F
  <2> HIDE DEF G
  <2>5. G \o <<>> = G
    BY <2>2, ConcatEmptySeq
  <2> QED BY <1>5, <2>3, <2>4, <2>5 DEF F
<1> QED BY <1>1, <1>5, <1>6, <1>7

\* aggregate leaves what was pending and the kept of what was collected.
LEMMA AggregatePipeline ==
    ASSUME Buffers, Aggregate, UNCHANGED <<delivered, outbox>>
    PROVE  \E kept :
             /\ Pipeline' = delivered \o outbox \o pending \o Of(kept, collected)
             /\ \A n \in Watched : Usable(n) => n \in kept \/ collected = <<>>
<1>1. PICK kept :
             /\ collected' = <<>> /\ pending' = pending \o Of(kept, collected)
             /\ \A n \in Watched : Usable(n) => n \in kept \/ collected = <<>>
  BY AggregateSpec
<1> DEFINE D == delivered \o outbox
           K == Of(kept, collected)
           G == D \o (pending \o K)
<1>2. /\ D \in Seq(Reports) /\ K \in Seq(Reports) /\ pending \in Seq(Reports)
      /\ pending \o K \in Seq(Reports)
  BY OfType, ConcatProperties DEF Buffers
<1>3. Pipeline' = G \o <<>>
  BY <1>1 DEF Pipeline
<1>4. G \in Seq(Reports)
  BY <1>2, ConcatProperties
<1> HIDE DEF D, K
<1>5. G = (D \o pending) \o K
  BY <1>2, ConcatAssociative
<1> HIDE DEF G
<1>6. G \o <<>> = G
  BY <1>4, ConcatEmptySeq
<1> QED BY <1>1, <1>3, <1>5, <1>6 DEF D, K

\* Every other step leaves the row as it is.
LEMMA OtherPipeline ==
    ASSUME Buffers, [Next]_vars,
           ~ (Collect \/ AggregateOnce \/ SelectAggregate)
    PROVE  Pipeline' = Pipeline /\ taken' = taken /\ lastValues' = lastValues
<1> DEFINE D == delivered \o outbox
<1>1. /\ delivered \in Seq(Reports) /\ outbox \in Seq(Reports)
      /\ pending \in Seq(Reports) /\ D \in Seq(Reports)
      /\ D \o pending \in Seq(Reports)
  BY PipelineType, ConcatProperties DEF Buffers
<1>2. CASE Transfer
  <2>1. /\ outbox = <<>> /\ outbox' = pending /\ pending' = <<>>
        /\ UNCHANGED <<taken, lastValues, collected, delivered>>
    BY <1>2 DEF Transfer, Buffers
  <2>2. D = delivered
    BY <1>1, <2>1, ConcatEmptySeq
  <2>3. Pipeline' = ((D \o pending) \o <<>>) \o collected
    BY <2>1, <2>2 DEF Pipeline
  <2> HIDE DEF D
  <2> DEFINE E == D \o pending
  <2>4. E \in Seq(Reports)
    BY <1>1
  <2> HIDE DEF E
  <2>5. E \o <<>> = E
    BY <2>4, ConcatEmptySeq
  <2> QED BY <2>1, <2>3, <2>5 DEF D, E, Pipeline
<1>3. CASE Push
  <2>1. /\ delivered' = D /\ outbox' = <<>>
        /\ UNCHANGED <<taken, lastValues, collected, pending>>
    BY <1>3 DEF Push
  <2> HIDE DEF D
  <2>2. D \o <<>> = D
    BY <1>1, ConcatEmptySeq
  <2> QED BY <2>1, <2>2 DEF D, Pipeline
<1>4. CASE UNCHANGED reportVars
  BY <1>4 DEF reportVars, Pipeline
<1>5. ASSUME ~ Transfer, ~ Push PROVE UNCHANGED reportVars
  BY <1>5 DEF Next, Runner, Mutate, Notify, Detach, DetachNotify, Stop, Materialize,
              First, Arm, SelectDone, SelectChanged, SelectCollect, SelectTransfer, vars
<1> QED BY <1>2, <1>3, <1>4, <1>5

\* What the client and the buffers have about a usable node is all that was
\* sampled of it.
LEMMA NextSamplesInOrder ==
    Buffers /\ Types /\ SamplesInOrder /\ [Next]_vars => SamplesInOrder'
<1> SUFFICES ASSUME Buffers, Types, SamplesInOrder, [Next]_vars,
                    NEW n \in Watched, Usable(n)'
             PROVE  (About(n, Pipeline) = About(n, taken))'
  BY DEF SamplesInOrder
<1>1. Usable(n) /\ About(n, Pipeline) = About(n, taken)
  <2>1. query' = query
    BY DEF Next, Runner, Mutate, Notify, Detach, DetachNotify, Stop, Collect,
           AggregateOnce, Transfer, Materialize, Push, First, Arm, SelectDone,
           SelectChanged, SelectCollect, SelectAggregate, SelectTransfer, Select,
           vars, treeVars
  <2> QED BY <2>1 DEF Usable, SamplesInOrder
<1>2. CASE Collect
  <2>1. PICK new \in Seq(Reports) :
             taken' = taken \o new /\ Pipeline' = Pipeline \o new
    BY <1>2, CollectPipeline
  <2>2. Of({n}, taken \o new) = Of({n}, taken) \o Of({n}, new)
    BY OfConcat DEF Buffers
  <2>3. Of({n}, Pipeline \o new) = Of({n}, Pipeline) \o Of({n}, new)
    BY PipelineType, OfConcat
  <2> QED BY <1>1, <2>1, <2>2, <2>3 DEF About
<1>3. CASE AggregateOnce \/ SelectAggregate
  <2>1. Aggregate /\ UNCHANGED <<delivered, outbox, taken>>
    BY <1>3 DEF AggregateOnce, SelectAggregate
  <2> DEFINE D == delivered \o outbox \o pending
  <2>2. PICK kept : /\ Pipeline' = D \o Of(kept, collected)
                    /\ n \in kept \/ collected = <<>>
    BY <1>1, <2>1, AggregatePipeline
  <2>3. /\ D \in Seq(Reports) /\ Of(kept, collected) \in Seq(Reports)
        /\ collected \in Seq(Reports) /\ Pipeline = D \o collected
    BY PipelineType, OfType DEF Buffers, Pipeline
  <2>4. Of({n}, Of(kept, collected)) = Of({n}, collected)
    <3>1. CASE n \in kept
      BY <2>3, <3>1, OfKept
    <3>2. CASE collected = <<>>
      BY <3>2, OfEmpty
    <3> QED BY <2>2, <3>1, <3>2
  <2> DEFINE K == Of(kept, collected)
  <2>a. D \in Seq(Reports) /\ K \in Seq(Reports)
    BY <2>3
  <2> HIDE DEF D, K
  <2>b. Of({n}, D \o K) = Of({n}, D) \o Of({n}, K)
    BY <2>a, OfConcat
  <2>5. Of({n}, D \o Of(kept, collected)) = Of({n}, D) \o Of({n}, Of(kept, collected))
    BY <2>b DEF K
  <2>6. Of({n}, D \o collected) = Of({n}, D) \o Of({n}, collected)
    BY <2>3, OfConcat
  <2> QED BY <1>1, <2>1, <2>2, <2>3, <2>4, <2>5, <2>6 DEF About
<1>4. CASE ~ (Collect \/ AggregateOnce \/ SelectAggregate)
  BY <1>1, <1>4, OtherPipeline DEF About
<1> QED BY <1>2, <1>3, <1>4

\* A newer report of a different value keeps the order; the reports in front
\* of some have it too.
LEMMA NewerAppend ==
    ASSUME NEW rs \in Seq(Reports), NEW last \in Nat, NEW n \in Watched,
           NEW v \in Nat \ {0}, v > last, Newer(rs, last)
    PROVE  /\ Newer(Append(rs, <<n, v>>), v)
           /\ /\ Differing(rs, last)
              /\ last # 0 => Value(last) # Value(v)
              => Differing(Append(rs, <<n, v>>), v)
<1> DEFINE r == <<n, v>>
           t == Append(rs, r)
           k == Len(rs)
<1>1. r \in Reports /\ r[2] = v
  BY DEF Reports
<1>2. /\ t \in Seq(Reports) /\ Len(t) = k + 1 /\ k \in Nat
      /\ t[k+1] = r /\ \A i \in 1..k : t[i] = rs[i]
  BY <1>1, AppendProperties, LenProperties
<1> HIDE DEF t, r
<1>3. \A i \in 1..k : rs[i][2] \in Nat \ {0}
  BY ElementOfSeq DEF Reports
<1>4. \A i \in 1..k : rs[i][2] <= last
  BY DEF Newer
<1>5. Newer(t, v)
  <2>1. ASSUME NEW i \in 1..(Len(t) - 1) PROVE t[i][2] < t[i+1][2]
    <3>1. CASE i = k
      <4>1. t[i] = rs[i] /\ t[i+1] = r /\ i \in 1..k
        BY <1>2, <3>1
      <4> QED BY <1>1, <1>3, <1>4, <4>1
    <3>2. CASE i # k
      <4>1. i \in 1..(k-1) /\ i \in 1..k /\ i + 1 \in 1..k
        BY <1>2, <3>2
      <4> QED BY <1>2, <4>1 DEF Newer
    <3> QED BY <3>1, <3>2
  <2>2. ASSUME NEW i \in 1..Len(t) PROVE t[i][2] <= v
    <3>1. CASE i = k + 1
      BY <1>1, <1>2, <3>1
    <3>2. CASE i \in 1..k
      BY <1>2, <1>3, <1>4, <3>2
    <3> QED BY <1>2, <3>1, <3>2
  <2> QED BY <2>1, <2>2 DEF Newer
<1>6. ASSUME Differing(rs, last), last # 0 => Value(last) # Value(v)
      PROVE  Differing(t, v)
  <2>1. ASSUME NEW i \in 1..(Len(t) - 1) PROVE Value(t[i][2]) # Value(t[i+1][2])
    <3>1. CASE i = k
      <4>1. t[i] = rs[i] /\ t[i+1] = r /\ i \in 1..k /\ k # 0
        BY <1>2, <3>1
      <4>2. rs # <<>>
        BY <4>1, EmptySeq
      <4>3. rs[k][2] = last /\ last # 0
        BY <1>3, <1>6, <3>1, <4>1, <4>2 DEF Differing
      <4> QED BY <1>1, <1>6, <3>1, <4>1, <4>3
    <3>2. CASE i # k
      <4>1. i \in 1..(k-1) /\ i \in 1..k /\ i + 1 \in 1..k
        BY <1>2, <3>2
      <4> QED BY <1>2, <1>6, <4>1 DEF Differing
    <3> QED BY <3>1, <3>2
  <2> QED BY <1>1, <1>2, <2>1 DEF Differing
<1> QED BY <1>5, <1>6 DEF r, t

\* The first part of a list of ever newer reports is one itself.
LEMMA NewerPrefix ==
    ASSUME NEW s \in Seq(Reports), NEW t \in Seq(Reports), NEW last,
           Newer(s \o t, last)
    PROVE  Newer(s, last)
<1> DEFINE u == s \o t
           k == Len(s)
<1>1. /\ Len(u) = k + Len(t) /\ k \in Nat /\ Len(t) \in Nat
      /\ \A i \in 1..k : u[i] = s[i]
  BY ConcatProperties, LenProperties
<1>2. Newer(u, last)
  OBVIOUS
<1> HIDE DEF u
<1>3. \A i \in 1..(k-1) : i \in 1..(Len(u)-1) /\ u[i] = s[i] /\ u[i+1] = s[i+1]
  BY <1>1
<1>4. \A i \in 1..k : i \in 1..Len(u) /\ u[i] = s[i]
  BY <1>1
<1> QED BY <1>2, <1>3, <1>4 DEF Newer

\* Every step keeps the link between last values and reports.
LEMMA NextRemembered == Buffers /\ Types /\ Remembered /\ [Next]_vars => Remembered'
<1> SUFFICES ASSUME Buffers, Types, Remembered, [Next]_vars,
                    (query.mode = "onChange")', NEW n \in Watched
             PROVE  /\ (version[n] >= lastValues[n] \/ version[n] = -1)'
                    /\ Newer(About(n, Pipeline), lastValues[n])'
                    /\ (Usable(n) => Differing(About(n, Pipeline), lastValues[n]))'
  BY DEF Remembered
<1>1. query' = query
  BY DEF Next, Runner, Mutate, Notify, Detach, DetachNotify, Stop, Collect,
         AggregateOnce, Transfer, Materialize, Push, First, Arm, SelectDone,
         SelectChanged, SelectCollect, SelectAggregate, SelectTransfer, Select,
         vars, treeVars
<1> DEFINE rs == About(n, Pipeline)
           last == lastValues[n]
<1>2. /\ version[n] >= last \/ version[n] = -1
      /\ Newer(rs, last)
      /\ Usable(n) => Differing(rs, last)
      /\ (Usable(n))' = Usable(n)
  BY <1>1 DEF Remembered, Usable
<1>3. rs \in Seq(Reports) /\ last \in Nat /\ version[n] \in Int
  BY RunnerBounds, PipelineType, OfType DEF Types, About
<1>4. CASE Collect
  <2>1. PICK new \in Seq(Reports) :
             /\ Pipeline' = Pipeline \o new
             /\ About(n, new) = IF n \in Samples THEN <<Report(n)>> ELSE <<>>
    BY <1>4, CollectPipeline
  <2>2. About(n, Pipeline') = rs \o About(n, new)
    BY <2>1, PipelineType, OfConcat DEF About
  <2>3. version' = version
    BY <1>4 DEF Collect, treeVars
  <2>4. lastValues'[n] = IF n \in Samples THEN version[n] ELSE last
    BY <1>1, <1>4 DEF Collect
  <2>5. CASE n \notin Samples
    <3>1. About(n, Pipeline') = rs
      <4> HIDE DEF rs
      <4> QED BY <1>3, <2>1, <2>2, <2>5, ConcatEmptySeq
    <3> QED BY <1>2, <2>3, <2>4, <2>5, <3>1 DEF About
  <2>6. CASE n \in Samples
    <3> DEFINE v == version[n]
    <3>1. v > 0 /\ (last = 0 \/ Value(last) # Value(v))
      BY <1>1, <2>6 DEF Samples, Changed
    <3>2. v \in Nat \ {0} /\ v > last
      BY <1>2, <1>3, <3>1
    <3>3. About(n, Pipeline') = Append(rs, <<n, v>>)
      <4>1. About(n, Pipeline') = rs \o <<Report(n)>>
        BY <2>1, <2>2, <2>6
      <4>2. Report(n) = <<n, v>> /\ <<n, v>> \in Reports
        BY <3>2 DEF Report, Reports
      <4> HIDE DEF rs
      <4> QED BY <1>3, <4>1, <4>2, AppendIsConcat
    <3>4. lastValues'[n] = v /\ version'[n] = v
      BY <2>3, <2>4, <2>6
    <3> HIDE DEF v, rs, last
    <3>5. /\ Newer(Append(rs, <<n, v>>), v)
          /\ Usable(n) => Differing(Append(rs, <<n, v>>), v)
      BY <1>2, <1>3, <3>1, <3>2, NewerAppend
    <3>6. (version[n] >= lastValues[n])'
      BY <3>2, <3>4
    <3>7. Newer(About(n, Pipeline'), lastValues'[n])
      BY <3>3, <3>4, <3>5
    <3>8. Usable(n) => Differing(About(n, Pipeline'), lastValues'[n])
      BY <3>3, <3>4, <3>5
    <3> QED BY <1>2, <3>6, <3>7, <3>8 DEF About
  <2> QED BY <2>5, <2>6
<1>5. CASE AggregateOnce \/ SelectAggregate
  <2>1. Aggregate /\ UNCHANGED <<delivered, outbox, lastValues, version>>
    BY <1>5 DEF AggregateOnce, SelectAggregate, Select, treeVars
  <2> DEFINE D == delivered \o outbox \o pending
  <2>2. PICK kept : /\ Pipeline' = D \o Of(kept, collected)
                    /\ Usable(n) => n \in kept \/ collected = <<>>
    BY <2>1, AggregatePipeline
  <2>3. /\ D \in Seq(Reports) /\ Of(kept, collected) \in Seq(Reports)
        /\ collected \in Seq(Reports) /\ Pipeline = D \o collected
    BY PipelineType, OfType DEF Buffers, Pipeline
  <2> HIDE DEF D
  <2>4. About(n, Pipeline') = Of({n}, D) \o Of({n}, Of(kept, collected))
    BY <2>2, <2>3, OfConcat DEF About
  <2>5. rs = Of({n}, D) \o Of({n}, collected)
    BY <2>3, OfConcat DEF About
  <2>6. Of({n}, D) \in Seq(Reports) /\ Of({n}, collected) \in Seq(Reports)
    BY <2>3, OfType
  <2>7. CASE n \in kept \/ collected = <<>>
    <3>1. Of({n}, Of(kept, collected)) = Of({n}, collected)
      <4>1. CASE n \in kept
        BY <2>3, <4>1, OfKept
      <4>2. CASE collected = <<>>
        BY <4>2, OfEmpty
      <4> QED BY <2>7, <4>1, <4>2
    <3>2. About(n, Pipeline') = rs
      BY <2>4, <2>5, <3>1
    <3> QED BY <1>2, <2>1, <3>2 DEF About
  <2>8. CASE n \notin kept /\ collected # <<>>
    <3>1. ~ Usable(n) /\ Of({n}, Of(kept, collected)) = <<>>
      BY <2>2, <2>3, <2>8, OfDropped
    <3> DEFINE s == Of({n}, D)
               t == Of({n}, collected)
    <3>2. s \in Seq(Reports) /\ t \in Seq(Reports) /\ rs = s \o t
      BY <2>5, <2>6
    <3>3. About(n, Pipeline') = s \o <<>>
      BY <2>4, <3>1
    <3> HIDE DEF s, t, rs
    <3>4. s \o <<>> = s
      BY <3>2, ConcatEmptySeq
    <3>5. Newer(s, last)
      BY <1>2, <3>2, NewerPrefix
    <3> QED BY <1>2, <2>1, <3>1, <3>3, <3>4, <3>5 DEF About
  <2> QED BY <2>7, <2>8
<1>6. CASE ~ (Collect \/ AggregateOnce \/ SelectAggregate)
  <2>1. Pipeline' = Pipeline /\ lastValues' = lastValues
    BY <1>6, OtherPipeline
  <2>2. version'[n] = version[n] \/ version'[n] = version[n] + 1 \/ version'[n] = -1
    <3>1. CASE Mutate
      BY <3>1 DEF Mutate, Types
    <3>2. CASE ~ Mutate
      BY <1>6, <3>2 DEF Next, Runner, Notify, Detach, DetachNotify, Stop, Transfer,
         Materialize, Push, First, Arm, SelectDone, SelectChanged, SelectCollect,
         SelectTransfer, Select, vars, treeVars
    <3> QED BY <3>1, <3>2
  <2>3. version'[n] = version[n] + 1 => version[n] >= 0
    <3>1. CASE Mutate
      BY <1>3, <3>1 DEF Mutate, Types
    <3>2. CASE ~ Mutate
      <4>1. version' = version
        BY <1>6, <3>2 DEF Next, Runner, Notify, Detach, DetachNotify, Stop, Transfer,
           Materialize, Push, First, Arm, SelectDone, SelectChanged, SelectCollect,
           SelectTransfer, Select, vars, treeVars
      <4> QED BY <1>3, <4>1
    <3> QED BY <3>1, <3>2
  <2>4. (version[n] >= lastValues[n] \/ version[n] = -1)'
    BY <1>2, <1>3, <2>1, <2>2, <2>3
  <2> QED BY <1>2, <2>1, <2>4 DEF About
<1> QED BY <1>4, <1>5, <1>6

\* The invariant of a runner.
LEMMA Invariance == Spec => []IInv
<1>1. IInv /\ [Next]_vars => IInv'
  BY NextBuffers, NextTypes, NextPaid, NextRemembered, NextSamplesInOrder DEF IInv
<1> QED BY InitIInv, <1>1, PTL DEF Spec

-----------------------------------------------------------------------------
(* The theorems.                                                            *)

\* The runner's state stays well formed, and without aggregation nothing
\* lingers in collected, for any number of nodes, mutations and ticks.
THEOREM RunnerTypeCorrect == Spec => []TypeOK
<1>1. IInv => TypeOK
  <2> SUFFICES ASSUME IInv PROVE TypeOK
    OBVIOUS
  <2>1. -1..(mutations + 1) \subseteq -1..(MaxMutations + 1)
    BY RunnerBounds DEF IInv, Types
  <2>2. 0..(mutations + 1) \subseteq 0..(MaxMutations + 1)
    BY RunnerBounds DEF IInv, Types
  <2> QED BY <2>1, <2>2 DEF IInv, Types, Buffers, TypeOK
<1> QED BY Invariance, <1>1, PTL

\* An onChange query reports a node's values ever newer and never one value
\* twice, whatever the order of changes, notifications and ticks.
THEOREM ReportsEverNewer == Spec => []ReportsDiffer
<1>1. IInv => ReportsDiffer
  BY DEF IInv, Remembered, Newer, Differing, ReportsDiffer
<1> QED BY Invariance, <1>1, PTL

\* A report of a node that can be aggregated is never lost, duplicated or
\* overtaken between the sample and the client, for any order of the ticks.
THEOREM NothingLostInBuffers == Spec => []SamplesInOrder
<1>1. IInv => SamplesInOrder
  BY DEF IInv
<1> QED BY Invariance, <1>1, PTL

\* The results a query materializes in the tree wake it at most once each.
THEOREM DoesNotWakeItself == Spec => []NoSelfWaking
<1>1. IInv => NoSelfWaking
  <2> SUFFICES ASSUME IInv PROVE NoSelfWaking
    OBVIOUS
  <2>1. /\ Len(delivered) \in Nat /\ Len(outbox) \in Nat
        /\ Len(delivered \o outbox) = Len(delivered) + Len(outbox)
    BY LenProperties, ConcatProperties DEF IInv, Buffers
  <2>2. changeGen \in Int /\ owing \in Nat /\ mutations \in Int
    BY DEF IInv, Types
  <2> QED BY <2>1, <2>2 DEF IInv, Paid, NoSelfWaking
<1> QED BY Invariance, <1>1, PTL
=============================================================================
