--------------------------- MODULE NodeTreeProofs ---------------------------
(***************************************************************************)
(* Proofs about NodeTree, for any number of nodes, any catalogue of         *)
(* requests and any policy.                                                 *)
(*                                                                          *)
(* Every request leaves the tree Laid: a listed node exists and has a       *)
(* Parent.  That is enough to show that a Set never goes beyond its plan    *)
(* (IsWork: what it changed, and what its undo lists remember, was          *)
(* planned), whatever its edits do to each other.  That the tree stays      *)
(* Sound (Children and Parent agree, and the Parents have ranks, so that    *)
(* no walk up is endless) needs more: several edits of one Set are planned  *)
(* against the tree before it, and can then relink backwards, tie a cycle   *)
(* or be rolled back in the wrong order.  Steady is what the Sets that do   *)
(* none of this have in common; OnePointer is the further restriction       *)
(* under which the delete check of a relink covers what it drops.  A Set    *)
(* of one edit that relinks no next sibling to a node is always steady.     *)
(*                                                                          *)
(* The other sessions lie behind a wall: the nodes that no policy lets this *)
(* session write or delete (Walled), whose child lists a steady request     *)
(* therefore leaves as they are (Shelter, Apart).                           *)
(*                                                                          *)
(* The walks and applications of NodeTree are recursive functions.  Each    *)
(* is shown to exist by induction (a step operator, then ...Exists), and    *)
(* is then used by its recursive equation only.                             *)
(***************************************************************************)
EXTENDS NodeTree, DataLemmas, TLAPS

-----------------------------------------------------------------------------
(* Child lists.                                                             *)

\* The two names for the elements of a list agree.
LEMMA ToSetElements == \A s : ToSet(s) = Elements(s)
BY DEF ToSet, Elements

\* indexOfChild finds an element that is there.
LEMMA IndexOfSpec ==
    ASSUME NEW S, NEW s \in Seq(S), NEW e
    PROVE  /\ IndexOf(s, e) \in 0..Len(s)
           /\ IndexOf(s, e) = 0 <=> e \notin ToSet(s)
           /\ IndexOf(s, e) # 0 => s[IndexOf(s, e)] = e
<1> DEFINE I == {i \in 1..Len(s) : s[i] = e}
<1>1. Len(s) \in Nat /\ DOMAIN s = 1..Len(s)
  BY LenProperties
<1>2. IndexOf(s, e) = IF I # {} THEN Min(I) ELSE 0
  BY DEF IndexOf, SelectInSeq
<1>3. e \in ToSet(s) <=> I # {}
  BY <1>1 DEF ToSet
<1>4. I # {} => Min(I) \in I
  <2> SUFFICES ASSUME I # {} PROVE Min(I) \in I
    OBVIOUS
  <2>1. I \subseteq Nat
    BY <1>1
  <2> HIDE DEF I
  <2>2. \E m \in I : \A x \in I : m <= x
    BY <2>1, NatSetMin
  <2> QED BY <2>2 DEF Min
<1> QED BY <1>1, <1>2, <1>3, <1>4

\* What is found is in the list, at that position.
LEMMA IndexFound ==
    ASSUME NEW S, NEW s \in Seq(S), NEW e, NEW i, i = IndexOf(s, e), i # 0
    PROVE  /\ i \in 1..Len(s) /\ i \in DOMAIN s /\ s[i] = e /\ e \in ToSet(s)
<1>1. i \in 0..Len(s) /\ s[i] = e /\ e \in ToSet(s)
  BY IndexOfSpec
<1>2. Len(s) \in Nat /\ DOMAIN s = 1..Len(s)
  BY LenProperties
<1> QED BY <1>1, <1>2

-----------------------------------------------------------------------------
(* Trees.                                                                   *)

\* The domains of a tree's fields.
LEMMA TreeFields ==
    ASSUME NEW t, IsTree(t)
    PROVE  /\ DOMAIN t = {"kids", "up", "val", "key"}
           /\ DOMAIN t.kids = Nodes /\ DOMAIN t.up = Nodes
           /\ DOMAIN t.val = Nodes /\ DOMAIN t.key = Nodes
           /\ \A n \in Nodes : t.kids[n] \in Seq(Nodes) /\ t.up[n] \in Nodes \cup {NoNode}
<1>1. DOMAIN t = {"kids", "up", "val", "key"}
  BY DEF IsTree
<1>2. t.val = [n \in Nodes |-> t.val[n]] /\ t.key = [n \in Nodes |-> t.key[n]]
  BY DEF IsTree
<1>3. DOMAIN t.val = Nodes /\ DOMAIN t.key = Nodes
  BY <1>2
<1>4. /\ DOMAIN t.kids = Nodes /\ DOMAIN t.up = Nodes
      /\ \A n \in Nodes : t.kids[n] \in Seq(Nodes) /\ t.up[n] \in Nodes \cup {NoNode}
  BY DEF IsTree
<1> QED BY <1>1, <1>3, <1>4

\* Parents rank lower.
Ranks(t, r) ==
    /\ r \in [Nodes -> Nat]
    /\ \A n \in Nodes : t.up[n] # NoNode => r[t.up[n]] < r[n]
Acyclic(t) == \E r : Ranks(t, r)

\* The number of nodes of a lower rank is a rank as well, and bounded.
LEMMA BoundedRanks ==
    ASSUME NEW t, IsTree(t), Acyclic(t)
    PROVE  \E r : Ranks(t, r) /\ \A n \in Nodes : r[n] < Cardinality(Nodes)
<1>1. PICK q : Ranks(t, q)
  BY DEF Acyclic
<1> DEFINE Lower(n) == {x \in Nodes : q[x] < q[n]}
           r == [n \in Nodes |-> Cardinality(Lower(n))]
<1>2. IsFiniteSet(Nodes)
  BY NodesAssumption
<1>3. \A n \in Nodes : IsFiniteSet(Lower(n)) /\ Cardinality(Lower(n)) \in Nat
  BY <1>2, FS_Subset, FS_CardinalityType
<1>4. Cardinality(Nodes) \in Nat
  BY <1>2, FS_CardinalityType
<1>5. ASSUME NEW n \in Nodes PROVE Cardinality(Lower(n)) < Cardinality(Nodes)
  <2>1. n \notin Lower(n)
    BY <1>1 DEF Ranks
  <2>2. Lower(n) \in SUBSET Nodes /\ Lower(n) # Nodes
    BY <2>1
  <2> HIDE DEF Lower
  <2>3. /\ Cardinality(Lower(n)) <= Cardinality(Nodes)
        /\ Cardinality(Nodes) = Cardinality(Lower(n)) => Nodes = Lower(n)
    BY <1>2, <2>2, FS_Subset
  <2> QED BY <1>3, <1>4, <2>2, <2>3
<1>6. ASSUME NEW n \in Nodes, t.up[n] # NoNode
      PROVE  Cardinality(Lower(t.up[n])) < Cardinality(Lower(n))
  <2> DEFINE p == t.up[n]
  <2>1. p \in Nodes /\ q[p] < q[n] /\ \A x \in Nodes : q[x] \in Nat
    BY <1>1, <1>6 DEF IsTree, Ranks
  <2>2. Lower(p) \in SUBSET Lower(n) /\ p \in Lower(n) /\ p \notin Lower(p)
    BY <2>1
  <2> HIDE DEF Lower, p
  <2>3. /\ Cardinality(Lower(p)) <= Cardinality(Lower(n))
        /\ Cardinality(Lower(n)) = Cardinality(Lower(p)) => Lower(n) = Lower(p)
    BY <1>3, <2>2, FS_Subset
  <2>4. Cardinality(Lower(p)) < Cardinality(Lower(n))
    BY <1>3, <2>1, <2>2, <2>3
  <2> QED BY <2>4 DEF p
<1> HIDE DEF Lower
<1>7. Ranks(t, r)
  <2>1. r \in [Nodes -> Nat]
    BY <1>3
  <2>2. \A n \in Nodes : t.up[n] # NoNode => t.up[n] \in Nodes
    BY DEF IsTree
  <2> QED BY <1>6, <2>1, <2>2 DEF Ranks
<1> QED BY <1>5, <1>7

-----------------------------------------------------------------------------
(* The walk up the Parent pointers.                                         *)

\* What the walk computes for the nodes of D, by recursion.
ChainStep(t, D, f) ==
    [m \in D |-> IF t.up[m] = NoNode THEN <<m>> ELSE Append(f[t.up[m]], m)]

\* The recursion of Chain ends on a tree without a cycle, so that it defines
\* a function.
LEMMA ChainExists ==
    ASSUME NEW t, IsTree(t), Acyclic(t)
    PROVE  \E f : f = ChainStep(t, Nodes, f)
<1>1. PICK r : Ranks(t, r) /\ \A n \in Nodes : r[n] < Cardinality(Nodes)
  BY BoundedRanks
<1> DEFINE D(k) == {m \in Nodes : r[m] < k}
           P == {k \in Nat : \E f : f = ChainStep(t, D(k), f)}
<1>2. 0 \in P
  <2>1. D(0) = {}
    BY <1>1 DEF Ranks
  <2> DEFINE f == [m \in {} |-> <<>>]
  <2>2. f = ChainStep(t, {}, f)
    BY DEF ChainStep
  <2> QED BY <2>1, <2>2
<1>3. ASSUME NEW k \in Nat, k \in P PROVE k + 1 \in P
  <2>1. PICK f : f = ChainStep(t, D(k), f)
    BY <1>3
  <2> DEFINE g == [m \in D(k+1) |->
                    IF t.up[m] = NoNode THEN <<m>> ELSE Append(f[t.up[m]], m)]
  <2>2. \A m \in D(k+1) : t.up[m] # NoNode => t.up[m] \in D(k)
    BY <1>1 DEF Ranks, IsTree
  <2>3. D(k) \subseteq D(k+1)
    BY <1>1 DEF Ranks
  <2>4. \A m \in D(k) : g[m] = f[m]
    BY <2>1, <2>3 DEF ChainStep
  <2>5. \A m \in D(k+1) :
          g[m] = IF t.up[m] = NoNode THEN <<m>> ELSE Append(g[t.up[m]], m)
    BY <2>2, <2>4
  <2> HIDE DEF D
  <2>6. g = ChainStep(t, D(k+1), g)
    BY <2>5 DEF ChainStep
  <2> QED BY <2>6
<1>4. Cardinality(Nodes) \in Nat
  BY NodesAssumption, FS_CardinalityType
<1> HIDE DEF P
<1>5. Cardinality(Nodes) \in P
  BY <1>2, <1>3, <1>4, NatSetInduction
<1>6. D(Cardinality(Nodes)) = Nodes
  BY <1>1
<1> HIDE DEF D
<1> QED BY <1>5, <1>6 DEF P

\* The recursive equation of Chain.
LEMMA ChainSpec ==
    ASSUME NEW t, IsTree(t), Acyclic(t), NEW n \in Nodes
    PROVE  /\ Chain(t, n) = IF t.up[n] = NoNode THEN <<n>>
                            ELSE Append(Chain(t, t.up[n]), n)
           /\ t.up[n] # NoNode => t.up[n] \in Nodes
<1> DEFINE f == CHOOSE f : f = ChainStep(t, Nodes, f)
<1>1. f = ChainStep(t, Nodes, f)
  BY ChainExists
<1>2. \A m : Chain(t, m) = f[m]
  BY DEF Chain, ChainStep
<1> HIDE DEF f
<1>3. t.up[n] \in Nodes \cup {NoNode}
  BY TreeFields
<1> QED BY <1>1, <1>2, <1>3 DEF ChainStep

\* What holds of a node if it holds of its Parent holds of every node.
LEMMA UpInduction ==
    ASSUME NEW t, IsTree(t), Acyclic(t), NEW P,
           \A n \in Nodes : (t.up[n] # NoNode => t.up[n] \in P) => n \in P
    PROVE  Nodes \subseteq P
<1>1. PICK r : Ranks(t, r)
  BY DEF Acyclic
<1> DEFINE Q == {k \in Nat : \A n \in Nodes : r[n] = k => n \in P}
<1>2. ASSUME NEW k \in Nat, 0..(k-1) \subseteq Q PROVE k \in Q
  <2> SUFFICES ASSUME NEW n \in Nodes, r[n] = k PROVE n \in P
    OBVIOUS
  <2>1. ASSUME t.up[n] # NoNode PROVE t.up[n] \in P
    <3>1. t.up[n] \in Nodes /\ r[t.up[n]] \in 0..(k-1)
      BY <1>1, <2>1 DEF IsTree, Ranks
    <3> QED BY <1>2, <3>1
  <2> QED BY <2>1
<1> HIDE DEF Q
<1>3. Nat \subseteq Q
  BY <1>2, NatSetStrongInduction
<1> QED BY <1>1, <1>3 DEF Q, Ranks

\* A chain is a list of nodes and ends in the node it starts from.
LEMMA ChainShape ==
    ASSUME NEW t, IsTree(t), Acyclic(t)
    PROVE  \A n \in Nodes : /\ Chain(t, n) \in Seq(Nodes)
                            /\ Len(Chain(t, n)) \in Nat \ {0}
                            /\ Chain(t, n)[Len(Chain(t, n))] = n
<1> DEFINE P == {n \in Nodes : /\ Chain(t, n) \in Seq(Nodes)
                               /\ Len(Chain(t, n)) \in Nat \ {0}
                               /\ Chain(t, n)[Len(Chain(t, n))] = n}
<1>1. ASSUME NEW n \in Nodes, t.up[n] # NoNode => t.up[n] \in P PROVE n \in P
  <2>1. CASE t.up[n] = NoNode
    <3>1. Chain(t, n) = <<n>>
      BY <2>1, ChainSpec
    <3>2. <<n>> \in Seq(Nodes) /\ Len(<<n>>) = 1 /\ <<n>>[1] = n
      OBVIOUS
    <3>3. Chain(t, n) \in Seq(Nodes) /\ Len(Chain(t, n)) = 1 /\ Chain(t, n)[1] = n
      BY <3>1, <3>2
    <3>4. Len(Chain(t, n)) \in Nat \ {0} /\ Chain(t, n)[Len(Chain(t, n))] = n
      BY <3>3
    <3> QED BY <3>3, <3>4
  <2>2. CASE t.up[n] # NoNode
    <3> DEFINE c == Chain(t, t.up[n])
    <3>1. c \in Seq(Nodes) /\ Len(c) \in Nat /\ Chain(t, n) = Append(c, n)
      BY <1>1, <2>2, ChainSpec
    <3> HIDE DEF c
    <3>2. /\ Append(c, n) \in Seq(Nodes) /\ Len(Append(c, n)) = Len(c) + 1
          /\ Append(c, n)[Len(c) + 1] = n
      BY <3>1, AppendProperties
    <3> QED BY <3>1, <3>2
  <2> QED BY <2>1, <2>2
<1> HIDE DEF P
<1>2. Nodes \subseteq P
  BY <1>1, UpInduction
<1> QED BY <1>2 DEF P

\* isDescendant goes on from the Parent.
LEMMA DescendantSpec ==
    ASSUME NEW t, IsTree(t), Acyclic(t), NEW n \in Nodes, NEW a
    PROVE  IsDescendant(t, a, n) <=>
              t.up[n] # NoNode /\ (t.up[n] = a \/ IsDescendant(t, a, t.up[n]))
<1>1. CASE t.up[n] = NoNode
  <2>1. Chain(t, n) = <<n>>
    BY <1>1, ChainSpec
  <2>2. Len(Front(Chain(t, n))) = 0
    BY <2>1 DEF Front
  <2> QED BY <1>1, <2>2 DEF IsDescendant, Contains
<1>2. CASE t.up[n] # NoNode
  <2> DEFINE p == t.up[n]
             c == Chain(t, p)
             d == Append(c, n)
             k == Len(c)
  <2>1. p \in Nodes /\ Chain(t, n) = d
    BY <1>2, ChainSpec
  <2>2. c \in Seq(Nodes) /\ k \in Nat \ {0} /\ c[k] = p
    BY <2>1, ChainShape
  <2> HIDE DEF c
  <2>3. /\ d \in Seq(Nodes) /\ Len(d) = k + 1 /\ \A i \in 1..k : d[i] = c[i]
    BY <2>2, AppendProperties
  <2> HIDE DEF d
  \* The front of a list that is not empty.
  <2>4. ASSUME NEW s \in Seq(Nodes), NEW m \in Nat, Len(s) = m + 1
        PROVE  Len(Front(s)) = m /\ \A i \in 1..m : Front(s)[i] = s[i]
    <3>1. \A i \in 1..m : s[i] \in Nodes
      BY <2>4
    <3>2. /\ Len(SubSeq(s, 1, m)) = IF 1 <= m THEN m - 1 + 1 ELSE 0
          /\ \A i \in 1..(m - 1 + 1) : SubSeq(s, 1, m)[i] = s[1 + i - 1]
      BY <2>4, <3>1, SubSeqProperties
    <3>3. Len(s) - 1 = m
      BY <2>4
    <3> QED BY <3>2, <3>3 DEF Front
  <2>5. Len(Front(d)) = k /\ \A i \in 1..k : Front(d)[i] = c[i]
    BY <2>2, <2>3, <2>4
  <2>6. Len(Front(c)) = k - 1 /\ \A i \in 1..(k-1) : Front(c)[i] = c[i]
    <3>1. k - 1 \in Nat /\ k = (k - 1) + 1
      BY <2>2
    <3> QED BY <2>2, <2>4, <3>1
  <2>7. IsDescendant(t, a, n) <=> \E i \in 1..k : c[i] = a
    BY <2>1, <2>5 DEF IsDescendant, Contains
  <2>8. IsDescendant(t, a, p) <=> \E i \in 1..(k-1) : c[i] = a
    BY <2>6 DEF IsDescendant, Contains, c
  <2>9. \A i \in 1..k : i = k \/ i \in 1..(k-1)
    BY <2>2
  <2>10. k \in 1..k /\ 1..(k-1) \subseteq 1..k
    BY <2>2
  <2>11. (\E i \in 1..k : c[i] = a) <=> p = a \/ \E i \in 1..(k-1) : c[i] = a
    BY <2>2, <2>9, <2>10
  <2> QED BY <1>2, <2>7, <2>8, <2>11
<1> QED BY <1>1, <1>2

\* IsReachable walks on from the Parent.
LEMMA ReachableSpec ==
    ASSUME NEW t, IsTree(t), Acyclic(t), NEW n \in Nodes
    PROVE  IsReachable(t, n) <=>
              IF t.up[n] = NoNode THEN n = Root
              ELSE IsReachable(t, t.up[n]) /\ n \in ToSet(t.kids[t.up[n]])
<1>1. CASE t.up[n] = NoNode
  <2>1. Chain(t, n) = <<n>>
    BY <1>1, ChainSpec
  <2> QED BY <1>1, <2>1 DEF IsReachable
<1>2. CASE t.up[n] # NoNode
  <2> DEFINE p == t.up[n]
             c == Chain(t, p)
             d == Append(c, n)
             k == Len(c)
             Listed(u, v) == IndexOf(t.kids[u], v) # 0
  <2>1. p \in Nodes /\ Chain(t, n) = d
    BY <1>2, ChainSpec
  <2>2. c \in Seq(Nodes) /\ k \in Nat \ {0} /\ c[k] = p
    BY <2>1, ChainShape
  <2>3. IsReachable(t, n) <=> d[1] = Root /\ \A i \in 2..Len(d) : Listed(d[i-1], d[i])
    BY <2>1 DEF IsReachable
  <2>4. IsReachable(t, p) <=> c[1] = Root /\ \A i \in 2..k : Listed(c[i-1], c[i])
    BY DEF IsReachable
  <2> HIDE DEF c, Listed
  <2>5. Len(d) = k + 1 /\ d[k+1] = n /\ \A i \in 1..k : d[i] = c[i]
    BY <2>2, AppendProperties
  <2> HIDE DEF d, p
  <2>6. d[1] = c[1] /\ 1 \in 1..k
    BY <2>2, <2>5
  <2>7. \A i \in 2..k : i \in 1..k /\ i - 1 \in 1..k
    BY <2>2
  <2>8. (\A i \in 2..(k+1) : Listed(d[i-1], d[i]))
          <=> (\A i \in 2..k : Listed(c[i-1], c[i])) /\ Listed(p, n)
    <3>1. k + 1 \in 2..(k+1) /\ (k + 1) - 1 = k /\ k \in 1..k
      BY <2>2
    <3>2. \A i \in 2..(k+1) : i \in 2..k \/ i = k + 1
      BY <2>2
    <3>3. 2..k \subseteq 2..(k+1)
      BY <2>2
    <3>4. \A i \in 2..k : Listed(d[i-1], d[i]) <=> Listed(c[i-1], c[i])
      BY <2>5, <2>7
    <3>5. Listed(d[(k+1)-1], d[k+1]) <=> Listed(p, n)
      BY <2>2, <2>5, <3>1
    <3> QED BY <3>1, <3>2, <3>3, <3>4, <3>5
  <2>9. Listed(p, n) <=> n \in ToSet(t.kids[p])
    BY <2>1, IndexOfSpec DEF IsTree, Listed
  <2> QED BY <1>2, <2>3, <2>4, <2>5, <2>6, <2>8, <2>9 DEF p
<1> QED BY <1>1, <1>2

-----------------------------------------------------------------------------
(* EndsWithin and ranks.                                                    *)

\* What the walk of EndsWithin computes, by recursion.
AboveStep(t, n, k, f) ==
    [i \in 0..k |->
        IF i = 0 THEN n
        ELSE LET m == f[i-1] IN IF m = NoNode THEN NoNode ELSE t.up[m]]

\* The recursion of EndsWithin defines a function.
LEMMA AboveExists ==
    ASSUME NEW t, NEW n, NEW k \in Nat
    PROVE  \E f : f = AboveStep(t, n, k, f)
<1> DEFINE P == {j \in Nat : \E f : f = AboveStep(t, n, j, f)}
<1>1. 0 \in P
  <2> DEFINE f == [i \in 0..0 |-> n]
  <2>1. f = AboveStep(t, n, 0, f)
    BY DEF AboveStep
  <2> QED BY <2>1
<1>2. ASSUME NEW j \in Nat, j \in P PROVE j + 1 \in P
  <2>1. PICK f : f = AboveStep(t, n, j, f)
    BY <1>2
  <2> DEFINE up(m) == IF m = NoNode THEN NoNode ELSE t.up[m]
             g == [i \in 0..(j+1) |-> IF i \in 0..j THEN f[i] ELSE up(f[j])]
  <2>2. \A i \in 0..j : f[i] = IF i = 0 THEN n ELSE up(f[i-1])
    BY <2>1 DEF AboveStep
  <2>3. \A i \in 0..j : g[i] = f[i]
    OBVIOUS
  <2>4. ASSUME NEW i \in 0..(j+1) PROVE g[i] = IF i = 0 THEN n ELSE up(g[i-1])
    <3>1. CASE i \in 0..j
      <4>1. i # 0 => i - 1 \in 0..j
        BY <3>1
      <4> QED BY <2>2, <2>3, <3>1, <4>1
    <3>2. CASE i \notin 0..j
      <4>1. i = j + 1 /\ i - 1 = j /\ j \in 0..j
        BY <3>2
      <4> QED BY <2>3, <3>2, <4>1
    <3> QED BY <3>1, <3>2
  <2> HIDE DEF g
  <2>5. g = [i \in 0..(j+1) |-> IF i = 0 THEN n ELSE up(g[i-1])]
    <3>1. g = [i \in 0..(j+1) |-> g[i]]
      BY DEF g
    <3> QED BY <2>4, <3>1
  <2>6. g = AboveStep(t, n, j + 1, g)
    BY <2>5 DEF AboveStep
  <2> QED BY <2>6
<1> HIDE DEF P
<1>3. k \in P
  BY <1>1, <1>2, NatSetInduction
<1> QED BY <1>3 DEF P

\* A walk ends within k + 1 steps if it ends within k from the Parent.
LEMMA EndsStep ==
    ASSUME NEW t, NEW n, n # NoNode, NEW k \in Nat
    PROVE  /\ ~ EndsWithin(t, n, 0)
           /\ EndsWithin(t, NoNode, k)
           /\ EndsWithin(t, n, k + 1) <=> EndsWithin(t, t.up[n], k)
<1> DEFINE up(m) == IF m = NoNode THEN NoNode ELSE t.up[m]
           f(m, j) == CHOOSE a : a = AboveStep(t, m, j, a)
<1>1. ASSUME NEW m, NEW j \in Nat
      PROVE  /\ EndsWithin(t, m, j) <=> f(m, j)[j] = NoNode
             /\ f(m, j)[0] = m
             /\ \A i \in 0..j : i # 0 => f(m, j)[i] = up(f(m, j)[i-1])
  <2>1. f(m, j) = AboveStep(t, m, j, f(m, j))
    BY AboveExists
  <2>2. EndsWithin(t, m, j) <=> f(m, j)[j] = NoNode
    BY DEF EndsWithin, AboveStep
  <2> DEFINE a == f(m, j)
  <2> HIDE DEF f
  <2>3. a = AboveStep(t, m, j, a)
    BY <2>1
  <2> HIDE DEF a
  <2>4. \A i \in 0..j : a[i] = IF i = 0 THEN m ELSE up(a[i-1])
    BY <2>3 DEF AboveStep
  <2>5. 0 \in 0..j
    OBVIOUS
  <2>6. a[0] = m /\ \A i \in 0..j : i # 0 => a[i] = up(a[i-1])
    BY <2>4, <2>5
  <2> QED BY <2>2, <2>6 DEF a
<1> HIDE DEF f
<1>2. ~ EndsWithin(t, n, 0)
  BY <1>1
<1>3. EndsWithin(t, NoNode, k)
  <2> DEFINE a == f(NoNode, k)
             Q == {i \in Nat : i <= k => a[i] = NoNode}
  <2>1. a[0] = NoNode /\ \A i \in 0..k : i # 0 => a[i] = up(a[i-1])
    BY <1>1
  <2> HIDE DEF a
  <2>2. ASSUME NEW i \in Nat, i \in Q PROVE i + 1 \in Q
    <3>1. i + 1 <= k => i + 1 \in 0..k /\ i + 1 # 0 /\ (i + 1) - 1 = i /\ i <= k
      OBVIOUS
    <3> QED BY <2>1, <2>2, <3>1
  <2>3. 0 \in Q
    BY <2>1
  <2> HIDE DEF Q
  <2>4. k \in Q
    BY <2>2, <2>3, NatSetInduction
  <2> QED BY <1>1, <2>4 DEF a, Q
<1>4. EndsWithin(t, n, k + 1) <=> EndsWithin(t, t.up[n], k)
  <2> DEFINE a == f(n, k + 1)
             b == f(t.up[n], k)
             Q == {i \in Nat : i <= k => a[i+1] = b[i]}
  <2>1. /\ EndsWithin(t, n, k + 1) <=> a[k+1] = NoNode
        /\ a[0] = n /\ \A i \in 0..(k+1) : i # 0 => a[i] = up(a[i-1])
    BY <1>1
  <2>2. /\ EndsWithin(t, t.up[n], k) <=> b[k] = NoNode
        /\ b[0] = t.up[n] /\ \A i \in 0..k : i # 0 => b[i] = up(b[i-1])
    BY <1>1
  <2> HIDE DEF a, b
  <2>3. 0 \in Q
    <3>1. 1 \in 0..(k+1) /\ 1 # 0 /\ 1 - 1 = 0 /\ 0 + 1 = 1
      OBVIOUS
    <3> QED BY <2>1, <2>2, <3>1
  <2>4. ASSUME NEW i \in Nat, i \in Q PROVE i + 1 \in Q
    <3> SUFFICES ASSUME i + 1 <= k PROVE a[(i+1)+1] = b[i+1]
      OBVIOUS
    <3>1. (i+1)+1 \in 0..(k+1) /\ (i+1)+1 # 0 /\ ((i+1)+1)-1 = i+1
      OBVIOUS
    <3>2. i+1 \in 0..k /\ i+1 # 0 /\ (i+1)-1 = i /\ i <= k
      OBVIOUS
    <3>3. a[i+1] = b[i]
      BY <2>4, <3>2
    <3>4. a[(i+1)+1] = up(a[i+1])
      BY <2>1, <3>1
    <3>5. b[i+1] = up(b[i])
      BY <2>2, <3>2
    <3> QED BY <3>3, <3>4, <3>5
  <2> HIDE DEF Q
  <2>5. k \in Q
    BY <2>3, <2>4, NatSetInduction
  <2> QED BY <2>1, <2>2, <2>5 DEF Q
<1> QED BY <1>2, <1>3, <1>4

\* The Parent pointers have no cycle exactly if every walk ends in time.
LEMMA EndsIsAcyclic ==
    ASSUME NEW t, IsTree(t)
    PROVE  (\A n \in Nodes : EndsWithin(t, n, Cardinality(Nodes))) <=> Acyclic(t)
<1>1. Cardinality(Nodes) \in Nat
  BY NodesAssumption, FS_CardinalityType
<1>2. \A n \in Nodes : n # NoNode /\ t.up[n] \in Nodes \cup {NoNode}
  BY NodesAssumption DEF IsTree
<1>3. ASSUME \A n \in Nodes : EndsWithin(t, n, Cardinality(Nodes))
      PROVE  Acyclic(t)
  <2> DEFINE Ends(n) == {k \in Nat : EndsWithin(t, n, k)}
             r == [n \in Nodes |-> CHOOSE k \in Ends(n) : \A j \in Ends(n) : k <= j]
  <2>1. ASSUME NEW n \in Nodes
        PROVE  r[n] \in Ends(n) /\ \A j \in Ends(n) : r[n] <= j
    <3>1. Ends(n) \in SUBSET Nat /\ Ends(n) # {}
      BY <1>1, <1>3
    <3> HIDE DEF Ends
    <3>2. \E k \in Ends(n) : \A j \in Ends(n) : k <= j
      BY <3>1, NatSetMin
    <3> QED BY <3>2
  <2> HIDE DEF r
  <2>2. ASSUME NEW n \in Nodes, t.up[n] # NoNode PROVE r[t.up[n]] < r[n]
    <3> DEFINE k == r[n] - 1
    <3>1. t.up[n] \in Nodes
      BY <1>2, <2>2
    <3>2. r[n] \in Nat /\ EndsWithin(t, n, r[n])
      BY <2>1
    <3>3. r[n] # 0
      BY <1>2, <3>2, EndsStep
    <3>4. k \in Nat /\ r[n] = k + 1
      BY <3>2, <3>3
    <3> HIDE DEF k
    <3>5. EndsWithin(t, t.up[n], k)
      BY <1>2, <3>2, <3>4, EndsStep
    <3>6. r[t.up[n]] \in Nat /\ r[t.up[n]] <= k
      BY <2>1, <3>1, <3>4, <3>5
    <3> QED BY <3>4, <3>6
  <2>3. r \in [Nodes -> Nat]
    <3>1. \A n \in Nodes : r[n] \in Nat
      BY <2>1
    <3>2. r = [n \in Nodes |-> r[n]]
      BY DEF r
    <3> QED BY <3>1, <3>2
  <2> QED BY <2>2, <2>3 DEF Acyclic, Ranks
<1>4. ASSUME Acyclic(t)
      PROVE  \A n \in Nodes : EndsWithin(t, n, Cardinality(Nodes))
  <2>1. PICK r : Ranks(t, r) /\ \A n \in Nodes : r[n] < Cardinality(Nodes)
    BY <1>4, BoundedRanks
  <2> DEFINE Q == {k \in Nat : \A n \in Nodes : r[n] < k => EndsWithin(t, n, k)}
  <2>2. 0 \in Q
    BY <2>1 DEF Ranks
  <2>3. ASSUME NEW k \in Nat, k \in Q PROVE k + 1 \in Q
    <3> SUFFICES ASSUME NEW n \in Nodes, r[n] < k + 1 PROVE EndsWithin(t, n, k + 1)
      OBVIOUS
    <3>1. EndsWithin(t, t.up[n], k)
      <4>1. CASE t.up[n] = NoNode
        BY <1>2, <4>1, EndsStep
      <4>2. CASE t.up[n] # NoNode
        <5>1. t.up[n] \in Nodes
          BY <1>2, <4>2
        <5>2. r[t.up[n]] < k
          BY <2>1, <4>2, <5>1 DEF Ranks
        <5> QED BY <2>3, <5>1, <5>2
      <4> QED BY <4>1, <4>2
    <3> QED BY <1>2, <3>1, EndsStep
  <2> HIDE DEF Q
  <2>4. Cardinality(Nodes) \in Q
    BY <1>1, <2>2, <2>3, NatSetInduction
  <2> QED BY <2>1, <2>4 DEF Q
<1> QED BY <1>3, <1>4

-----------------------------------------------------------------------------
(* What lies below.                                                         *)

Closed(t, C) == \A n \in C : ToSet(t.kids[n]) \subseteq C

\* What Below computes for the sets of D, by recursion.
BelowStep(t, D, f) ==
    [X \in D |-> LET more == Children(t, X) \ X
                 IN  IF more = {} THEN X ELSE f[X \cup more]]

\* A child list is a list of nodes.
LEMMA KidsAreNodes ==
    ASSUME NEW t, IsTree(t), NEW n \in Nodes
    PROVE  /\ t.kids[n] \in Seq(Nodes) /\ ToSet(t.kids[n]) \subseteq Nodes
           /\ ToSet(t.kids[n]) = Elements(t.kids[n])
<1>1. t.kids[n] \in Seq(Nodes)
  BY DEF IsTree
<1>2. \A i \in DOMAIN t.kids[n] : t.kids[n][i] \in Nodes
  BY <1>1
<1> QED BY <1>1, <1>2, ToSetElements DEF ToSet

\* Each round of Below leaves fewer nodes to find.
LEMMA BelowGrows ==
    ASSUME NEW t, IsTree(t), NEW X \in SUBSET Nodes,
           NEW more, more = Children(t, X) \ X, more # {}
    PROVE  /\ X \cup more \in SUBSET Nodes
           /\ Cardinality(Nodes \ X) \in Nat
           /\ Cardinality(Nodes \ (X \cup more)) \in Nat
           /\ Cardinality(Nodes \ (X \cup more)) < Cardinality(Nodes \ X)
<1>1. more \in SUBSET Nodes
  BY KidsAreNodes DEF Children
<1> DEFINE A == Nodes \ (X \cup more)
           B == Nodes \ X
<1>2. A \in SUBSET B /\ A # B
  <2>1. PICK x : x \in more
    OBVIOUS
  <2>2. x \notin X
    BY <2>1
  <2> QED BY <1>1, <2>1, <2>2
<1>3. IsFiniteSet(B)
  BY NodesAssumption, FS_Subset
<1>4. IsFiniteSet(A) /\ Cardinality(A) <= Cardinality(B)
      /\ (Cardinality(A) = Cardinality(B) => A = B)
  <2> HIDE DEF A, B
  <2> QED BY <1>2, <1>3, FS_Subset
<1>5. Cardinality(A) \in Nat /\ Cardinality(B) \in Nat
  BY <1>3, <1>4, FS_CardinalityType
<1>6. Cardinality(A) < Cardinality(B)
  <2> HIDE DEF A, B
  <2> QED BY <1>2, <1>4, <1>5
<1> QED BY <1>1, <1>5, <1>6

\* The recursion of Below ends, so that it defines a function.
LEMMA BelowExists ==
    ASSUME NEW t, IsTree(t)
    PROVE  \E f : f = BelowStep(t, SUBSET Nodes, f)
<1> DEFINE D(k) == {X \in SUBSET Nodes : Cardinality(Nodes \ X) < k}
           P == {k \in Nat : \E f : f = BelowStep(t, D(k), f)}
           Kids(X) == Children(t, X) \ X
<1>0. \A X \in SUBSET Nodes : Cardinality(Nodes \ X) \in Nat
  <2> TAKE X \in SUBSET Nodes
  <2>1. IsFiniteSet(Nodes \ X)
    BY NodesAssumption, FS_Subset
  <2> QED BY <2>1, FS_CardinalityType
<1>1. 0 \in P
  <2>1. D(0) = {}
    BY <1>0
  <2> DEFINE f == [X \in {} |-> X]
  <2>2. f = BelowStep(t, {}, f)
    BY DEF BelowStep
  <2> QED BY <2>1, <2>2
<1>2. ASSUME NEW k \in Nat, k \in P PROVE k + 1 \in P
  <2>1. PICK f : f = BelowStep(t, D(k), f)
    BY <1>2
  <2> DEFINE G(h, X) == IF Kids(X) = {} THEN X ELSE h[X \cup Kids(X)]
             g == [X \in D(k+1) |-> G(f, X)]
  <2>2. \A X \in D(k+1) : Kids(X) # {} => X \cup Kids(X) \in D(k)
    <3> SUFFICES ASSUME NEW X \in D(k+1), Kids(X) # {}
                 PROVE  X \cup Kids(X) \in D(k)
      OBVIOUS
    <3> DEFINE more == Kids(X)
    <3>1. /\ X \cup more \in SUBSET Nodes
          /\ Cardinality(Nodes \ X) \in Nat
          /\ Cardinality(Nodes \ (X \cup more)) \in Nat
          /\ Cardinality(Nodes \ (X \cup more)) < Cardinality(Nodes \ X)
      BY BelowGrows
    <3>2. Cardinality(Nodes \ X) < k + 1
      OBVIOUS
    <3> HIDE DEF more
    <3> QED BY <3>1, <3>2 DEF more
  <2>3. D(k) \subseteq D(k+1)
    BY <1>0
  <2>4. \A X \in D(k) : f[X] = G(f, X)
    BY <2>1 DEF BelowStep
  <2> HIDE DEF D
  <2>5. \A X \in D(k) : g[X] = f[X]
    BY <2>3, <2>4
  <2> HIDE DEF Kids
  <2>6. \A X \in D(k+1) : g[X] = G(g, X)
    BY <2>2, <2>5
  <2>7. g = [X \in D(k+1) |-> G(g, X)]
    <3> HIDE DEF G
    <3>1. g = [X \in D(k+1) |-> g[X]]
      OBVIOUS
    <3> HIDE DEF g
    <3> QED BY <2>6, <3>1
  <2> HIDE DEF g
  <2>8. g = BelowStep(t, D(k+1), g)
    BY <2>7 DEF BelowStep, Kids
  <2>9. \E h : h = BelowStep(t, D(k+1), h)
    BY <2>8
  <2> QED BY <2>9
<1> HIDE DEF P
<1> DEFINE N == Cardinality(Nodes) + 1
<1>3. Cardinality(Nodes) \in Nat
  BY NodesAssumption, FS_CardinalityType
<1>4. N \in P
  BY <1>1, <1>2, <1>3, NatSetInduction
<1>5. D(N) = SUBSET Nodes
  <2>1. ASSUME NEW X \in SUBSET Nodes PROVE Cardinality(Nodes \ X) < N
    <3>1. Cardinality(Nodes \ X) <= Cardinality(Nodes)
      <4>1. Nodes \ X \in SUBSET Nodes
        OBVIOUS
      <4> QED BY <4>1, NodesAssumption, FS_Subset
    <3> QED BY <1>0, <1>3, <3>1
  <2> QED BY <2>1
<1> HIDE DEF D, N
<1> QED BY <1>4, <1>5 DEF P

\* The least set that has S and the children of each of its nodes.
LEMMA BelowSpec ==
    ASSUME NEW t, IsTree(t), NEW S \in SUBSET Nodes
    PROVE  /\ S \subseteq Below(t, S) /\ Below(t, S) \subseteq Nodes
           /\ Closed(t, Below(t, S))
           /\ \A C \in SUBSET Nodes :
                 S \subseteq C /\ Closed(t, C) => Below(t, S) \subseteq C
<1> DEFINE f == CHOOSE f : f = BelowStep(t, SUBSET Nodes, f)
           Kids(X) == Children(t, X) \ X
           Good(X) == /\ X \subseteq f[X] /\ f[X] \subseteq Nodes
                      /\ Closed(t, f[X])
                      /\ \A C \in SUBSET Nodes :
                            X \subseteq C /\ Closed(t, C) => f[X] \subseteq C
           P == {k \in Nat : \A X \in SUBSET Nodes :
                                Cardinality(Nodes \ X) = k => Good(X)}
<1>1. f = BelowStep(t, SUBSET Nodes, f)
  BY BelowExists
<1>2. Below(t, S) = f[S]
  BY DEF Below, BelowStep
<1> HIDE DEF f
<1>3. \A X \in SUBSET Nodes : f[X] = IF Kids(X) = {} THEN X ELSE f[X \cup Kids(X)]
  BY <1>1 DEF BelowStep
<1>4. \A X \in SUBSET Nodes : Cardinality(Nodes \ X) \in Nat
  <2> TAKE X \in SUBSET Nodes
  <2>1. IsFiniteSet(Nodes \ X)
    BY NodesAssumption, FS_Subset
  <2> QED BY <2>1, FS_CardinalityType
<1>5. ASSUME NEW k \in Nat, 0..(k-1) \subseteq P PROVE k \in P
  <2> SUFFICES ASSUME NEW X \in SUBSET Nodes, Cardinality(Nodes \ X) = k
               PROVE  Good(X)
    OBVIOUS
  <2>1. CASE Kids(X) = {}
    <3>1. f[X] = X
      BY <1>3, <2>1
    <3>2. \A n \in X : \A m \in ToSet(t.kids[n]) : m \in X
      BY <2>1 DEF Children
    <3>3. Closed(t, X)
      BY <3>2 DEF Closed
    <3> QED BY <3>1, <3>3
  <2>2. CASE Kids(X) # {}
    <3> DEFINE more == Kids(X)
               Y == X \cup more
    <3>0. more = Children(t, X) \ X /\ more # {}
      BY <2>2
    <3> HIDE DEF more
    <3>1. /\ Y \in SUBSET Nodes /\ Cardinality(Nodes \ Y) \in Nat
          /\ Cardinality(Nodes \ Y) < Cardinality(Nodes \ X)
      BY <3>0, BelowGrows
    <3>2. f[X] = f[Y]
      BY <1>3, <2>2 DEF more
    <3>3. \A C \in SUBSET Nodes : X \subseteq C /\ Closed(t, C) => Y \subseteq C
      BY <3>0 DEF Closed, Children
    <3>4. X \subseteq Y
      OBVIOUS
    <3> HIDE DEF Y
    <3>5. Good(Y)
      <4>1. Cardinality(Nodes \ Y) \in 0..(k-1)
        BY <3>1
      <4> QED BY <1>5, <3>1, <4>1
    <3> QED BY <3>2, <3>3, <3>4, <3>5
  <2> QED BY <2>1, <2>2
<1> HIDE DEF P, Good
<1>6. Nat \subseteq P
  BY <1>5, NatSetStrongInduction
<1>7. Good(S)
  BY <1>4, <1>6 DEF P
<1> QED BY <1>2, <1>7 DEF Good

\* The live nodes are the least set with the root and all children.
LEMMA LiveSpec ==
    ASSUME NEW t, IsTree(t)
    PROVE  /\ Root \in Live(t) /\ Live(t) \subseteq Nodes
           /\ Closed(t, Live(t))
           /\ \A C \in SUBSET Nodes : Root \in C /\ Closed(t, C) => Live(t) \subseteq C
           /\ \A n \in Live(t) : n # Root => \E p \in Live(t) : n \in ToSet(t.kids[p])
<1>1. {Root} \in SUBSET Nodes
  BY NodesAssumption
<1>2. /\ Root \in Live(t) /\ Live(t) \subseteq Nodes /\ Closed(t, Live(t))
      /\ \A C \in SUBSET Nodes : Root \in C /\ Closed(t, C) => Live(t) \subseteq C
  BY <1>1, BelowSpec DEF Live
<1> DEFINE C == {n \in Live(t) : n # Root => \E p \in Live(t) : n \in ToSet(t.kids[p])}
<1>3. Closed(t, C)
  BY <1>2 DEF Closed
<1>4. Root \in C /\ C \in SUBSET Nodes
  BY <1>2
<1> HIDE DEF C
<1>5. Live(t) \subseteq C
  BY <1>2, <1>3, <1>4
<1> QED BY <1>2, <1>5 DEF C

\* A live node stays live, unless a link on the way to it is cut.
LEMMA LiveEscape ==
    ASSUME NEW t, IsTree(t), NEW u, IsTree(u), NEW D \in SUBSET Nodes,
           Closed(t, D),
           \A p \in Nodes : ToSet(t.kids[p]) \subseteq ToSet(u.kids[p]) \cup D \cup Live(u)
    PROVE  Live(t) \subseteq Live(u) \cup D
<1> DEFINE C == Live(u) \cup D
<1>1. /\ Root \in Live(u) /\ Live(u) \subseteq Nodes /\ Closed(u, Live(u))
  BY LiveSpec
<1>2. C \in SUBSET Nodes /\ Root \in C
  BY <1>1
<1>3. Closed(t, C)
  BY <1>1 DEF Closed
<1> HIDE DEF C
<1> QED BY <1>2, <1>3, LiveSpec DEF C

-----------------------------------------------------------------------------
(* Expressions.                                                             *)

\* The children of a node that match a segment.
MatchingKids(t, n, seg) ==
    Picked(t.kids[n], {i \in DOMAIN t.kids[n] : Matches(t, seg, t.kids[n][i])})

\* What Matching computes, by recursion.
MatchingStep(t, current, seg, k, f) ==
    [i \in 0..k |->
        IF i = 0 THEN <<>> ELSE f[i-1] \o MatchingKids(t, current[i], seg)]

\* The recursion of Matching defines a function.
LEMMA MatchingExists ==
    ASSUME NEW t, NEW current, NEW seg, NEW k \in Nat
    PROVE  \E f : f = MatchingStep(t, current, seg, k, f)
<1> DEFINE X(i, v) == v \o MatchingKids(t, current[i], seg)
           Val(f, i) == IF i = 0 THEN <<>> ELSE X(i, f[i-1])
           P == {j \in Nat : \E f : f = [i \in 0..j |-> Val(f, i)]}
<1> HIDE DEF X
<1>1. 0 \in P
  <2> DEFINE f == [i \in 0..0 |-> <<>>]
  <2>1. f = [i \in 0..0 |-> Val(f, i)]
    OBVIOUS
  <2> QED BY <2>1
<1>2. ASSUME NEW j \in Nat, j \in P PROVE j + 1 \in P
  <2>1. PICK f : f = [i \in 0..j |-> Val(f, i)]
    BY <1>2
  <2> DEFINE g == [i \in 0..(j+1) |-> IF i \in 0..j THEN f[i] ELSE X(i, f[j])]
  <2>2. \A i \in 0..j : g[i] = f[i] /\ f[i] = Val(f, i)
    BY <2>1
  <2>3. g[j+1] = X(j+1, f[j])
    OBVIOUS
  <2> HIDE DEF g
  <2>4. ASSUME NEW i \in 0..(j+1) PROVE g[i] = Val(g, i)
    <3>1. CASE i \in 0..j
      <4>1. i # 0 => i - 1 \in 0..j
        BY <3>1
      <4> QED BY <2>2, <3>1, <4>1
    <3>2. CASE i \notin 0..j
      <4>1. i = j + 1 /\ i - 1 = j /\ j \in 0..j /\ i # 0
        BY <3>2
      <4> QED BY <2>2, <2>3, <4>1
    <3> QED BY <3>1, <3>2
  <2>5. g = [i \in 0..(j+1) |-> g[i]]
    BY DEF g
  <2>6. g = [i \in 0..(j+1) |-> Val(g, i)]
    <3> HIDE DEF Val
    <3> QED BY <2>4, <2>5
  <2> QED BY <2>6
<1> HIDE DEF P
<1>3. k \in P
  BY <1>1, <1>2, NatSetInduction
<1> QED BY <1>3 DEF P, MatchingStep, X

\* The matches of a segment are children of the nodes it starts from.
LEMMA MatchingSpec ==
    ASSUME NEW t, IsTree(t), NEW current \in Seq(Nodes), NEW seg
    PROVE  /\ Matching(t, current, seg) \in Seq(Nodes)
           /\ Elements(Matching(t, current, seg)) \subseteq Children(t, Elements(current))
<1> DEFINE n == Len(current)
           f == CHOOSE f : f = MatchingStep(t, current, seg, n, f)
           C == Children(t, Elements(current))
           P == {i \in Nat : i <= n => f[i] \in Seq(Nodes) /\ Elements(f[i]) \subseteq C}
<1>0. n \in Nat /\ DOMAIN current = 1..n
  BY LenProperties
<1>1. f = MatchingStep(t, current, seg, n, f)
  BY <1>0, MatchingExists
<1>2. Matching(t, current, seg) = f[n]
  BY DEF Matching, MatchingStep, MatchingKids
<1> HIDE DEF f, n
<1>3. f[0] = <<>> /\ \A i \in 1..n : f[i] = f[i-1] \o MatchingKids(t, current[i], seg)
  BY <1>0, <1>1 DEF MatchingStep
<1>4. 0 \in P
  <2>1. <<>> \in Seq(Nodes) /\ Elements(<<>>) = {}
    BY DEF Elements
  <2> QED BY <1>3, <2>1
<1>5. ASSUME NEW i \in Nat, i \in P PROVE i + 1 \in P
  <2> SUFFICES ASSUME i + 1 <= n
               PROVE  f[i+1] \in Seq(Nodes) /\ Elements(f[i+1]) \subseteq C
    OBVIOUS
  <2> DEFINE m == current[i+1]
             a == f[i]
             b == MatchingKids(t, m, seg)
  <2>1. m \in Nodes /\ m \in Elements(current)
    BY <1>0 DEF Elements
  <2>2. a \in Seq(Nodes) /\ Elements(a) \subseteq C
    BY <1>0, <1>5
  <2>3. f[i+1] = a \o b
    <3>1. i + 1 \in 1..n /\ (i + 1) - 1 = i
      BY <1>0
    <3> QED BY <1>3, <3>1
  <2>4. b \in Seq(Nodes) /\ Elements(b) \subseteq Elements(t.kids[m])
    <3>1. t.kids[m] \in Seq(Nodes)
      BY <2>1, KidsAreNodes
    <3> DEFINE I == {x \in DOMAIN t.kids[m] : Matches(t, seg, t.kids[m][x])}
    <3>2. b = Picked(t.kids[m], I)
      BY DEF MatchingKids
    <3> HIDE DEF I, b
    <3>3. b \in Seq(Nodes) /\ Elements(b) = {t.kids[m][x] : x \in I \cap DOMAIN t.kids[m]}
      BY <3>1, <3>2, PickSpec
    <3> QED BY <3>3 DEF Elements
  <2>5. Elements(t.kids[m]) \subseteq C
    BY <2>1, KidsAreNodes DEF Children
  <2> HIDE DEF a, b, C
  <2>6. /\ a \o b \in Seq(Nodes)
        /\ Elements(a \o b) \subseteq Elements(a) \cup Elements(b)
    BY <2>2, <2>4, ConcatElements
  <2> QED BY <2>2, <2>3, <2>4, <2>5, <2>6
<1> HIDE DEF P
<1>6. n \in P
  BY <1>0, <1>4, <1>5, NatSetInduction
<1> QED BY <1>0, <1>2, <1>6 DEF P

\* What Evaluate computes segment by segment, by recursion.
LevelStep(t, expr, k, f) ==
    [i \in 0..k |-> IF i = 0 THEN <<Root>> ELSE Matching(t, f[i-1], expr[i])]

\* The recursion of Evaluate defines a function.
LEMMA LevelsExist ==
    ASSUME NEW t, NEW expr, NEW k \in Nat
    PROVE  \E f : f = LevelStep(t, expr, k, f)
<1> DEFINE X(i, v) == Matching(t, v, expr[i])
           Val(f, i) == IF i = 0 THEN <<Root>> ELSE X(i, f[i-1])
           P == {j \in Nat : \E f : f = [i \in 0..j |-> Val(f, i)]}
<1> HIDE DEF X
<1>1. 0 \in P
  <2> DEFINE f == [i \in 0..0 |-> <<Root>>]
  <2>1. f = [i \in 0..0 |-> Val(f, i)]
    OBVIOUS
  <2> QED BY <2>1
<1>2. ASSUME NEW j \in Nat, j \in P PROVE j + 1 \in P
  <2>1. PICK f : f = [i \in 0..j |-> Val(f, i)]
    BY <1>2
  <2> DEFINE g == [i \in 0..(j+1) |-> IF i \in 0..j THEN f[i] ELSE X(i, f[j])]
  <2>2. \A i \in 0..j : g[i] = f[i] /\ f[i] = Val(f, i)
    BY <2>1
  <2>3. g[j+1] = X(j+1, f[j])
    OBVIOUS
  <2> HIDE DEF g
  <2>4. ASSUME NEW i \in 0..(j+1) PROVE g[i] = Val(g, i)
    <3>1. CASE i \in 0..j
      <4>1. i # 0 => i - 1 \in 0..j
        BY <3>1
      <4> QED BY <2>2, <3>1, <4>1
    <3>2. CASE i \notin 0..j
      <4>1. i = j + 1 /\ i - 1 = j /\ j \in 0..j /\ i # 0
        BY <3>2
      <4> QED BY <2>2, <2>3, <4>1
    <3> QED BY <3>1, <3>2
  <2>5. g = [i \in 0..(j+1) |-> g[i]]
    BY DEF g
  <2>6. g = [i \in 0..(j+1) |-> Val(g, i)]
    <3> HIDE DEF Val
    <3> QED BY <2>4, <2>5
  <2> QED BY <2>6
<1> HIDE DEF P
<1>3. k \in P
  BY <1>1, <1>2, NatSetInduction
<1> QED BY <1>3 DEF P, LevelStep, X

\* An expression finds live nodes, each below another: never the root itself.
LEMMA EvaluateSpec ==
    ASSUME NEW t, IsTree(t), NEW expr, IsExpression(expr)
    PROVE  /\ Evaluate(t, expr) \in Seq(Nodes)
           /\ Len(Evaluate(t, expr)) \in Nat
           /\ ToSet(Evaluate(t, expr)) \subseteq Children(t, Live(t))
           /\ Len(Evaluate(t, expr)) = 1 =>
                 Evaluate(t, expr)[1] \in ToSet(Evaluate(t, expr))
<1> DEFINE n == Len(expr)
           f == CHOOSE f : f = LevelStep(t, expr, n, f)
           L == Live(t)
           C == Children(t, L)
           P == {i \in Nat : i <= n => /\ f[i] \in Seq(Nodes) /\ Elements(f[i]) \subseteq L
                                       /\ i # 0 => Elements(f[i]) \subseteq C}
           I == {i \in DOMAIN f[n] : May(t, "read", f[n][i])}
<1>0. n \in Nat /\ n # 0
  BY DEF IsExpression
<1>1. f = LevelStep(t, expr, n, f)
  BY <1>0, LevelsExist
<1>2. Evaluate(t, expr) = Picked(f[n], I)
  BY DEF Evaluate, LevelStep
<1> HIDE DEF f, n, I
<1>3. f[0] = <<Root>> /\ \A i \in 1..n : f[i] = Matching(t, f[i-1], expr[i])
  BY <1>0, <1>1 DEF LevelStep
<1>4. Root \in L /\ L \subseteq Nodes /\ C \subseteq L
  BY LiveSpec DEF Closed, Children
<1> HIDE DEF L
<1>5. 0 \in P
  <2>1. <<Root>> \in Seq(Nodes)
    BY NodesAssumption
  <2>2. Elements(<<Root>>) \subseteq {Root}
    BY DEF Elements
  <2> QED BY <1>3, <1>4, <2>1, <2>2
<1>6. ASSUME NEW i \in Nat, i \in P PROVE i + 1 \in P
  <2> SUFFICES ASSUME i + 1 <= n
               PROVE  f[i+1] \in Seq(Nodes) /\ Elements(f[i+1]) \subseteq C
    BY <1>4
  <2> DEFINE v == f[i]
             m == Matching(t, v, expr[i+1])
  <2>1. f[i+1] = m
    <3>1. i + 1 \in 1..n /\ (i + 1) - 1 = i
      BY <1>0
    <3> QED BY <1>3, <3>1
  <2>2. v \in Seq(Nodes) /\ Elements(v) \subseteq L
    BY <1>0, <1>6
  <2> HIDE DEF v
  <2>3. m \in Seq(Nodes) /\ Elements(m) \subseteq Children(t, Elements(v))
    BY <2>2, MatchingSpec
  <2>4. Children(t, Elements(v)) \subseteq C
    BY <2>2 DEF Children
  <2> HIDE DEF m, C
  <2> QED BY <2>1, <2>3, <2>4
<1> HIDE DEF P, C
<1>7. n \in P
  BY <1>0, <1>5, <1>6, NatSetInduction
<1>8. f[n] \in Seq(Nodes) /\ Elements(f[n]) \subseteq C
  BY <1>0, <1>7 DEF P
<1> DEFINE e == Picked(f[n], I)
<1>9. e \in Seq(Nodes) /\ Elements(e) = {f[n][i] : i \in I \cap DOMAIN f[n]}
  BY <1>8, PickSpec
<1>10. ToSet(e) \subseteq C
  BY <1>8, <1>9, ToSetElements DEF Elements
<1> HIDE DEF e
<1>11. Len(e) \in Nat /\ (Len(e) = 1 => e[1] \in ToSet(e))
  <2>1. Len(e) \in Nat /\ DOMAIN e = 1..Len(e)
    BY <1>9, LenProperties
  <2> QED BY <2>1, ToSetElements DEF Elements
<1> QED BY <1>2, <1>9, <1>10, <1>11 DEF C, L, e

-----------------------------------------------------------------------------
(* What a step does to a tree.  F is the set of the nodes not created yet.  *)

\* The structure that every request leaves: a listed node exists and has a
\* Parent.
Laid(t, F) ==
    /\ IsTree(t)
    /\ \A p \in Nodes : \A c \in ToSet(t.kids[p]) : c \notin F /\ t.up[c] # NoNode

\* The structure that requests leave if no Set ties a knot.
Sound(t, F) ==
    /\ Laid(t, F) /\ Tied(t) /\ Acyclic(t)
    /\ t.up[Root] = NoNode
    /\ \A n \in Nodes : t.up[n] \notin F

\* Links are cut.
Pruned(t, u) ==
    /\ IsTree(u)
    /\ u.up = t.up /\ u.key = t.key
    /\ \A q \in Nodes : ToSet(u.kids[q]) \subseteq ToSet(t.kids[q])
Neat(t, u) == \A q \in Nodes : Once(t.kids[q]) => Once(u.kids[q])
InOrder(t, u) ==
    \A q \in Nodes : \A c, d : Earlier(u.kids[q], c, d) => Earlier(t.kids[q], c, d)

\* Cutting links leaves a laid tree laid.
LEMMA PrunedLaid ==
    ASSUME NEW t, NEW u, NEW F, Laid(t, F), Pruned(t, u)
    PROVE  Laid(u, F)
BY DEF Laid, Pruned

\* Cutting links leaves a sound tree sound, if no list repeats a node.
LEMMA PrunedSound ==
    ASSUME NEW t, NEW u, NEW F, Sound(t, F), Pruned(t, u), Neat(t, u)
    PROVE  Sound(u, F)
<1>1. Laid(u, F)
  BY PrunedLaid DEF Sound
<1>2. Tied(u)
  BY DEF Sound, Tied, Pruned, Neat
<1>3. Acyclic(u)
  BY DEF Sound, Acyclic, Ranks, Pruned
<1>4. u.up[Root] = NoNode /\ \A n \in Nodes : u.up[n] \notin F
  BY DEF Sound, Pruned
<1> QED BY <1>1, <1>2, <1>3, <1>4 DEF Sound

\* A node moves below p.
Relocated(t, u, n, p) ==
    /\ IsTree(u)
    /\ u.up = [t.up EXCEPT ![n] = p] /\ u.key = t.key
    /\ \A q \in Nodes :
          /\ ToSet(u.kids[q]) \subseteq ToSet(t.kids[q]) \cup {n}
          /\ ToSet(t.kids[q]) \ {n} \subseteq ToSet(u.kids[q])
    /\ n \in ToSet(u.kids[p])
    /\ Tied(t) => \A q \in Nodes : Once(u.kids[q]) /\ (n \in ToSet(u.kids[q]) => q = p)
    /\ \A q \in Nodes : q # p /\ n \notin ToSet(t.kids[q]) => u.kids[q] = t.kids[q]
    /\ \A q \in Nodes : q # p =>
          \A c, d : Earlier(u.kids[q], c, d) => Earlier(t.kids[q], c, d)

\* A move leaves a laid tree laid.
LEMMA RelocatedLaid ==
    ASSUME NEW t, NEW u, NEW F, Laid(t, F),
           NEW n \in Nodes \ F, NEW p \in Nodes, Relocated(t, u, n, p)
    PROVE  Laid(u, F)
<1>1. ASSUME NEW q \in Nodes, NEW c \in ToSet(u.kids[q])
      PROVE  c \notin F /\ u.up[c] # NoNode
  <2>1. c \in ToSet(t.kids[q]) \/ c = n
    BY DEF Relocated
  <2>2. IsTree(t) /\ IsTree(u) /\ NoNode \notin Nodes
    BY NodesAssumption DEF Laid, Relocated
  <2>3. c \in Nodes /\ DOMAIN t.up = Nodes
    BY <2>1, <2>2, KidsAreNodes, TreeFields
  <2>4. u.up[c] = IF c = n THEN p ELSE t.up[c]
    BY <2>3 DEF Relocated
  <2> QED BY <2>1, <2>2, <2>4 DEF Laid
<1>2. IsTree(u)
  BY DEF Relocated
<1> QED BY <1>1, <1>2 DEF Laid

\* A move leaves a sound tree sound, if it is not to below the node itself.
LEMMA RelocatedSound ==
    ASSUME NEW t, NEW u, NEW F, Root \notin F, Sound(t, F),
           NEW n \in Nodes \ F, NEW p \in Nodes \ F, Relocated(t, u, n, p),
           t.up[n] # NoNode, p # n, ~ IsDescendant(t, n, p)
    PROVE  Sound(u, F)
<1>1. Laid(u, F)
  BY RelocatedLaid DEF Sound
<1>2. IsTree(t) /\ IsTree(u) /\ Acyclic(t) /\ Root \in Nodes
  BY NodesAssumption DEF Sound, Laid, Relocated
<1>3. \A x \in Nodes : u.up[x] = IF x = n THEN p ELSE t.up[x]
  BY <1>2, TreeFields DEF Relocated
<1>4. Tied(u)
  <2>1. ASSUME NEW q \in Nodes, NEW c \in ToSet(u.kids[q]) PROVE u.up[c] = q
    <3>1. c \in Nodes
      BY <1>2, KidsAreNodes
    <3>2. CASE c = n
      BY <1>3, <3>2 DEF Sound, Relocated
    <3>3. CASE c # n
      BY <1>3, <3>1, <3>3 DEF Sound, Tied, Relocated
    <3> QED BY <3>2, <3>3
  <2> QED BY <2>1 DEF Tied, Sound, Relocated
<1>5. Acyclic(u)
  <2>1. PICK r : Ranks(t, r)
    BY <1>2 DEF Acyclic
  <2> DEFINE Sub(x) == x = n \/ IsDescendant(t, n, x)
             s == [x \in Nodes |-> IF Sub(x) THEN r[x] + r[p] + 1 ELSE r[x]]
  <2>2. \A x \in Nodes : r[x] \in Nat
    BY <2>1 DEF Ranks
  <2>3. ASSUME NEW x \in Nodes, u.up[x] # NoNode PROVE s[u.up[x]] < s[x]
    <3>1. CASE x = n
      <4>1. u.up[x] = p /\ ~ Sub(p) /\ Sub(x)
        BY <1>3, <3>1
      <4>2. s[p] = r[p] /\ s[x] = r[x] + r[p] + 1
        BY <4>1
      <4> HIDE DEF s
      <4> QED BY <2>2, <4>1, <4>2
    <3>2. CASE x # n
      <4>1. u.up[x] = t.up[x]
        BY <1>3, <3>2
      <4>2. t.up[x] \in Nodes /\ r[t.up[x]] < r[x]
        BY <1>2, <2>1, <2>3, <4>1, TreeFields DEF Ranks
      <4>3. Sub(x) <=> Sub(t.up[x])
        BY <1>2, <2>3, <3>2, <4>1, DescendantSpec
      <4> HIDE DEF Sub
      <4>4. s[t.up[x]] < s[x]
        BY <2>2, <4>2, <4>3
      <4> QED BY <4>1, <4>4
    <3> QED BY <3>1, <3>2
  <2>4. s \in [Nodes -> Nat]
    BY <2>2
  <2> HIDE DEF s
  <2> QED BY <2>3, <2>4 DEF Acyclic, Ranks
<1>6. u.up[Root] = NoNode /\ \A x \in Nodes : u.up[x] \notin F
  BY <1>2, <1>3 DEF Sound
<1> QED BY <1>1, <1>4, <1>5, <1>6 DEF Sound

\* A new node is appended.
Grown(t, u, n, par) ==
    /\ IsTree(u)
    /\ u.up = [t.up EXCEPT ![n] = par]
    /\ \A m \in Nodes \ {n} : u.val[m] = t.val[m] /\ u.key[m] = t.key[m]
    /\ \A q \in Nodes : q # par => u.kids[q] = t.kids[q]
    /\ ToSet(u.kids[par]) = ToSet(t.kids[par]) \cup {n}
    /\ Once(t.kids[par]) => Once(u.kids[par])

\* A new node leaves a laid tree laid.
LEMMA GrownLaid ==
    ASSUME NEW t, NEW F, F \subseteq Nodes, Laid(t, F),
           NEW n \in F, NEW par \in Nodes \ F, NEW key, NEW val,
           NEW u, u = WithChild(t, par, n, key, val)
    PROVE  Laid(u, F \ {n}) /\ Grown(t, u, n, par)
<1> DEFINE ks == Append(t.kids[par], n)
<1>1. IsTree(t) /\ n \in Nodes /\ par \in Nodes
  BY DEF Laid
<1>2. /\ DOMAIN t = {"kids", "up", "val", "key"}
      /\ DOMAIN t.kids = Nodes /\ DOMAIN t.up = Nodes
      /\ t.kids[par] \in Seq(Nodes)
  BY <1>1, TreeFields
<1>3. /\ u = [kids |-> u.kids, up |-> u.up, val |-> u.val, key |-> u.key]
      /\ u.kids = [t.kids EXCEPT ![par] = ks]
      /\ u.up = [t.up EXCEPT ![n] = par]
      /\ u.val = [t.val EXCEPT ![n] = val]
      /\ u.key = [t.key EXCEPT ![n] = key]
  <2>1. u = [t EXCEPT !.kids = [t.kids EXCEPT ![par] = ks],
                      !.up   = [t.up EXCEPT ![n] = par],
                      !.key  = [t.key EXCEPT ![n] = key],
                      !.val  = [t.val EXCEPT ![n] = val]]
    BY DEF WithChild
  <2> HIDE DEF ks
  <2>2. /\ u.kids = [t.kids EXCEPT ![par] = ks]
        /\ u.up = [t.up EXCEPT ![n] = par]
        /\ u.val = [t.val EXCEPT ![n] = val]
        /\ u.key = [t.key EXCEPT ![n] = key]
    BY <1>2, <2>1
  <2>3. u = [kids |-> u.kids, up |-> u.up, val |-> u.val, key |-> u.key]
    BY <1>2, <2>1
  <2> QED BY <2>2, <2>3
<1>4. /\ ks \in Seq(Nodes) /\ ToSet(ks) = ToSet(t.kids[par]) \cup {n}
      /\ Once(t.kids[par]) => Once(ks)
  <2>1. /\ ks \in Seq(Nodes) /\ Elements(ks) = Elements(t.kids[par]) \cup {n}
        /\ Once(t.kids[par]) /\ n \notin Elements(t.kids[par]) => Once(ks)
    BY <1>1, <1>2, AppendOnce
  <2>2. n \notin ToSet(t.kids[par])
    BY <1>1 DEF Laid
  <2> HIDE DEF ks
  <2> QED BY <2>1, <2>2, ToSetElements
<1> HIDE DEF ks
<1>5. IsTree(u)
  <2>1. u.kids \in [Nodes -> Seq(Nodes)] /\ u.up \in [Nodes -> Nodes \cup {NoNode}]
    BY <1>1, <1>3, <1>4 DEF IsTree
  <2>2. /\ t.val = [m \in Nodes |-> t.val[m]] /\ t.key = [m \in Nodes |-> t.key[m]]
    BY <1>1 DEF IsTree
  <2>3. u.val = [m \in Nodes |-> u.val[m]] /\ u.key = [m \in Nodes |-> u.key[m]]
    BY <1>3, <2>2
  <2> QED BY <1>3, <2>1, <2>3 DEF IsTree
<1>6. ASSUME NEW q \in Nodes, NEW c \in ToSet(u.kids[q])
      PROVE  c \notin F \ {n} /\ u.up[c] # NoNode
  <2>1. c \in ToSet(t.kids[q]) \/ c = n
    BY <1>2, <1>3, <1>4
  <2>2. c \in Nodes
    BY <1>5, KidsAreNodes
  <2>3. u.up[c] = IF c = n THEN par ELSE t.up[c]
    BY <1>2, <1>3, <2>2
  <2> QED BY <1>1, <2>1, <2>3, NodesAssumption DEF Laid
<1>7. \A q \in Nodes : q # par => u.kids[q] = t.kids[q]
  BY <1>2, <1>3
<1>8. u.kids[par] = ks
  BY <1>1, <1>2, <1>3
<1>9. Laid(u, F \ {n})
  BY <1>5, <1>6 DEF Laid
<1>10. \A m \in Nodes \ {n} : u.val[m] = t.val[m] /\ u.key[m] = t.key[m]
  <2>1. DOMAIN t.val = Nodes /\ DOMAIN t.key = Nodes
    BY <1>1, TreeFields
  <2> QED BY <1>3, <2>1
<1>11. Grown(t, u, n, par)
  BY <1>3, <1>4, <1>5, <1>7, <1>8, <1>10 DEF Grown
<1> QED BY <1>9, <1>11

\* A new node leaves a sound tree sound.
LEMMA GrownSound ==
    ASSUME NEW t, NEW F, F \subseteq Nodes, Root \notin F, Sound(t, F),
           NEW n \in F, NEW par \in Nodes \ F, NEW u,
           Laid(u, F \ {n}), Grown(t, u, n, par)
    PROVE  Sound(u, F \ {n})
<1>1. /\ u.up = [t.up EXCEPT ![n] = par]
      /\ \A q \in Nodes : q # par => u.kids[q] = t.kids[q]
      /\ ToSet(u.kids[par]) = ToSet(t.kids[par]) \cup {n}
      /\ Once(t.kids[par]) => Once(u.kids[par])
  BY DEF Grown
<1>2. IsTree(t) /\ IsTree(u) /\ n \in Nodes /\ Root \in Nodes /\ NoNode \notin Nodes
  BY NodesAssumption DEF Sound, Laid
<1>3. \A x \in Nodes : u.up[x] = IF x = n THEN par ELSE t.up[x]
  BY <1>1, <1>2, TreeFields
\* Nobody's Parent is a node still to come.
<1>4. \A x \in Nodes : t.up[x] # n
  BY DEF Sound
<1>5. Tied(u)
  <2>1. ASSUME NEW q \in Nodes PROVE Once(u.kids[q])
    BY <1>1 DEF Sound, Tied
  <2>2. ASSUME NEW q \in Nodes, NEW c \in ToSet(u.kids[q]) PROVE u.up[c] = q
    <3>1. c \in Nodes
      BY <1>2, KidsAreNodes
    <3>2. CASE c \in ToSet(t.kids[q])
      <4>1. t.up[c] = q /\ c # n
        BY <3>2 DEF Sound, Tied, Laid
      <4> QED BY <1>3, <3>1, <4>1
    <3>3. CASE c \notin ToSet(t.kids[q])
      BY <1>1, <1>3, <3>1, <3>3
    <3> QED BY <3>2, <3>3
  <2> QED BY <2>1, <2>2 DEF Tied
<1>6. Acyclic(u)
  <2>1. PICK r : Ranks(t, r)
    BY DEF Sound, Acyclic
  <2> DEFINE s == [r EXCEPT ![n] = r[par] + 1]
  <2>2. r \in [Nodes -> Nat] /\ s \in [Nodes -> Nat]
    BY <2>1 DEF Ranks
  <2>3. ASSUME NEW x \in Nodes, u.up[x] # NoNode PROVE s[u.up[x]] < s[x]
    <3>1. CASE x = n
      BY <1>2, <1>3, <2>2, <3>1
    <3>2. CASE x # n
      <4>1. u.up[x] = t.up[x] /\ t.up[x] \in Nodes /\ t.up[x] # n
        BY <1>2, <1>3, <1>4, <2>3, <3>2, TreeFields
      <4>2. r[t.up[x]] < r[x]
        BY <2>1, <2>3, <4>1 DEF Ranks
      <4> QED BY <2>2, <3>2, <4>1, <4>2
    <3> QED BY <3>1, <3>2
  <2> HIDE DEF s
  <2> QED BY <2>2, <2>3 DEF Acyclic, Ranks
<1>7. u.up[Root] = NoNode /\ \A x \in Nodes : u.up[x] \notin F \ {n}
  BY <1>2, <1>3 DEF Sound
<1> QED BY <1>5, <1>6, <1>7 DEF Sound

-----------------------------------------------------------------------------
(* What a sound tree is good for.                                           *)

\* In a sound tree Children and Parent agree.
LEMMA SoundWellFormed ==
    ASSUME Sound(tree, fresh)
    PROVE  WellFormed
<1> SUFFICES ASSUME NEW n \in Live(tree) \ {Root}
             PROVE  /\ tree.up[n] \in Live(tree)
                    /\ \A p \in Live(tree) :
                          Cardinality({i \in DOMAIN tree.kids[p] : tree.kids[p][i] = n})
                            = IF p = tree.up[n] THEN 1 ELSE 0
  BY DEF WellFormed
<1>1. IsTree(tree) /\ Tied(tree)
  BY DEF Sound, Laid
<1>2. Live(tree) \subseteq Nodes
  BY <1>1, LiveSpec
<1>3. PICK q \in Live(tree) : n \in ToSet(tree.kids[q])
  BY <1>1, LiveSpec
<1>4. tree.up[n] = q
  BY <1>1, <1>2, <1>3 DEF Tied
<1>5. ASSUME NEW p \in Live(tree)
      PROVE  Cardinality({i \in DOMAIN tree.kids[p] : tree.kids[p][i] = n})
               = IF p = q THEN 1 ELSE 0
  <2> DEFINE I == {i \in DOMAIN tree.kids[p] : tree.kids[p][i] = n}
  <2>1. CASE p = q
    <3>1. PICK j \in DOMAIN tree.kids[p] : tree.kids[p][j] = n
      BY <1>3, <2>1 DEF ToSet
    <3>2. I = {j}
      BY <1>1, <1>2, <3>1 DEF Tied, Once
    <3> QED BY <2>1, <3>2, FS_Singleton
  <2>2. CASE p # q
    <3>1. n \notin ToSet(tree.kids[p])
      BY <1>1, <1>2, <1>4, <2>2 DEF Tied
    <3>2. I = {}
      BY <3>1 DEF ToSet
    <3> QED BY <2>2, <3>2, FS_EmptySet
  <2> QED BY <2>1, <2>2
<1> QED BY <1>3, <1>4, <1>5

\* In a sound tree the Parent pointers lead to the root from the live nodes.
LEMMA SoundReachable ==
    ASSUME NEW t, NEW F, Sound(t, F)
    PROVE  \A n \in Nodes : IsReachable(t, n) <=> n \in Live(t)
<1>1. IsTree(t) /\ Tied(t) /\ Acyclic(t) /\ t.up[Root] = NoNode /\ Root \in Nodes
  BY NodesAssumption DEF Sound, Laid
<1>2. /\ Root \in Live(t) /\ Live(t) \subseteq Nodes /\ Closed(t, Live(t))
  BY <1>1, LiveSpec
<1> DEFINE P == {n \in Nodes : IsReachable(t, n) => n \in Live(t)}
           C == {n \in Nodes : IsReachable(t, n)}
<1>3. ASSUME NEW n \in Nodes, t.up[n] # NoNode => t.up[n] \in P PROVE n \in P
  BY <1>1, <1>2, <1>3, ReachableSpec DEF Closed
<1>4. Closed(t, C)
  <2>1. ASSUME NEW n \in C, NEW c \in ToSet(t.kids[n]) PROVE c \in C
    <3>1. c \in Nodes /\ t.up[c] = n /\ n # NoNode
      BY <1>1, KidsAreNodes, NodesAssumption DEF Tied
    <3> QED BY <1>1, <3>1, ReachableSpec
  <2> HIDE DEF C
  <2> QED BY <2>1 DEF Closed
<1>5. Root \in C
  BY <1>1, ReachableSpec
<1>6. Live(t) \subseteq C
  <2> HIDE DEF C
  <2>1. C \in SUBSET Nodes
    BY DEF C
  <2> QED BY <1>1, <1>4, <1>5, <2>1, LiveSpec
<1> HIDE DEF P
<1>7. Nodes \subseteq P
  BY <1>1, <1>3, UpInduction
<1> QED BY <1>6, <1>7 DEF P

-----------------------------------------------------------------------------
(* The undo lists of a Set.                                                 *)

\* What Undone computes, by recursion.
UndoneStep(f0, L, k, f) ==
    [i \in 0..k |-> IF i = 0 THEN f0 ELSE [f[i-1] EXCEPT ![L[i].node] = L[i].old]]

\* The recursion of Undone defines a function.
LEMMA UndoneExists ==
    ASSUME NEW f0, NEW L, NEW k \in Nat
    PROVE  \E f : f = UndoneStep(f0, L, k, f)
<1> DEFINE X(i, v) == [v EXCEPT ![L[i].node] = L[i].old]
           Val(f, i) == IF i = 0 THEN f0 ELSE X(i, f[i-1])
           P == {j \in Nat : \E f : f = [i \in 0..j |-> Val(f, i)]}
<1> HIDE DEF X
<1>1. 0 \in P
  <2> DEFINE f == [i \in 0..0 |-> f0]
  <2>1. f = [i \in 0..0 |-> Val(f, i)]
    OBVIOUS
  <2> QED BY <2>1
<1>2. ASSUME NEW j \in Nat, j \in P PROVE j + 1 \in P
  <2>1. PICK f : f = [i \in 0..j |-> Val(f, i)]
    BY <1>2
  <2> DEFINE g == [i \in 0..(j+1) |-> IF i \in 0..j THEN f[i] ELSE X(i, f[j])]
  <2>2. \A i \in 0..j : g[i] = f[i] /\ f[i] = Val(f, i)
    BY <2>1
  <2>3. g[j+1] = X(j+1, f[j])
    OBVIOUS
  <2> HIDE DEF g
  <2>4. ASSUME NEW i \in 0..(j+1) PROVE g[i] = Val(g, i)
    <3>1. CASE i \in 0..j
      <4>1. i # 0 => i - 1 \in 0..j
        BY <3>1
      <4> QED BY <2>2, <3>1, <4>1
    <3>2. CASE i \notin 0..j
      <4>1. i = j + 1 /\ i - 1 = j /\ j \in 0..j /\ i # 0
        BY <3>2
      <4> QED BY <2>2, <2>3, <4>1
    <3> QED BY <3>1, <3>2
  <2>5. g = [i \in 0..(j+1) |-> g[i]]
    BY DEF g
  <2>6. g = [i \in 0..(j+1) |-> Val(g, i)]
    <3> HIDE DEF Val
    <3> QED BY <2>4, <2>5
  <2> QED BY <2>6
<1> HIDE DEF P
<1>3. k \in P
  BY <1>1, <1>2, NatSetInduction
<1> QED BY <1>3 DEF P, UndoneStep, X

OnNodes(f) == f = [m \in Nodes |-> f[m]]

\* The entries of a node.
Entries(L, m) == {j \in 1..Len(L) : L[j].node = m}

\* Undoing a node gives it what one of its entries remembers.
LEMMA UndoneSpec ==
    ASSUME NEW S, NEW f0, OnNodes(f0), NEW L \in Seq(S)
    PROVE  /\ OnNodes(Undone(f0, L))
           /\ \A m \in Nodes :
                 IF Entries(L, m) = {} THEN Undone(f0, L)[m] = f0[m]
                 ELSE \E j \in Entries(L, m) : Undone(f0, L)[m] = L[j].old
<1> DEFINE n == Len(L)
           f == CHOOSE f : f = UndoneStep(f0, L, n, f)
           Hit(m, i) == {j \in 1..i : L[j].node = m}
           Good(i) == /\ f[i] = [m \in Nodes |-> f[i][m]]
                      /\ \A m \in Nodes : IF Hit(m, i) = {} THEN f[i][m] = f0[m]
                                          ELSE \E j \in Hit(m, i) : f[i][m] = L[j].old
           P == {i \in Nat : i <= n => Good(i)}
<1>0. n \in Nat
  BY LenProperties
<1>1. f = UndoneStep(f0, L, n, f)
  BY <1>0, UndoneExists
<1>2. Undone(f0, L) = f[n]
  BY DEF Undone, UndoneStep
<1> HIDE DEF f, n
<1>3. /\ f[0] = f0
      /\ \A i \in 1..n : f[i] = [f[i-1] EXCEPT ![L[i].node] = L[i].old]
  <2>1. \A i \in 0..n : f[i] = IF i = 0 THEN f0
                                ELSE [f[i-1] EXCEPT ![L[i].node] = L[i].old]
    BY <1>1 DEF UndoneStep
  <2>2. 0 \in 0..n /\ \A i \in 1..n : i \in 0..n /\ i # 0
    BY <1>0
  <2>3. f[0] = f0
    BY <2>1, <2>2
  <2>4. \A i \in 1..n : f[i] = [f[i-1] EXCEPT ![L[i].node] = L[i].old]
    BY <2>1, <2>2
  <2> QED BY <2>3, <2>4
<1>4. 0 \in P
  <2>1. \A m : Hit(m, 0) = {}
    OBVIOUS
  <2> QED BY <1>3, <2>1 DEF OnNodes
<1>5. ASSUME NEW i \in Nat, i \in P PROVE i + 1 \in P
  <2> SUFFICES ASSUME i + 1 <= n PROVE Good(i + 1)
    OBVIOUS
  <2> DEFINE a == f[i]
             b == f[i+1]
             x == L[i+1].node
             old == L[i+1].old
  <2>1. a = [m \in Nodes |-> a[m]] /\ Good(i)
    BY <1>0, <1>5
  <2>2. b = [a EXCEPT ![x] = old]
    <3>1. i + 1 \in 1..n /\ (i + 1) - 1 = i
      BY <1>0
    <3> QED BY <1>3, <3>1
  <2>3. \A m : Hit(m, i + 1) = Hit(m, i) \cup (IF x = m THEN {i+1} ELSE {})
    <3>1. 1..(i+1) = 1..i \cup {i+1}
      OBVIOUS
    <3> QED BY <3>1
  <2> HIDE DEF a, b, x, old, Hit
  <2>4. DOMAIN a = Nodes
    BY <2>1
  <2>5. b = [m \in Nodes |-> b[m]]
    BY <2>2, <2>4
  <2>6. ASSUME NEW m \in Nodes
        PROVE  IF Hit(m, i+1) = {} THEN b[m] = f0[m]
               ELSE \E j \in Hit(m, i+1) : b[m] = L[j].old
    <3>1. CASE x = m
      <4>1. b[m] = old /\ i + 1 \in Hit(m, i+1)
        BY <2>2, <2>3, <2>4, <3>1
      <4> QED BY <4>1 DEF old
    <3>2. CASE x # m
      <4>1. b[m] = a[m] /\ Hit(m, i+1) = Hit(m, i)
        BY <2>2, <2>3, <2>4, <3>2
      <4>2. IF Hit(m, i) = {} THEN a[m] = f0[m] ELSE \E j \in Hit(m, i) : a[m] = L[j].old
        BY <2>1 DEF a
      <4> QED BY <4>1, <4>2
    <3> QED BY <3>1, <3>2
  <2> QED BY <2>5, <2>6 DEF b
<1> HIDE DEF P, Good
<1>6. n \in P
  BY <1>0, <1>4, <1>5, NatSetInduction
<1>7. Good(n)
  BY <1>0, <1>6 DEF P
<1>8. \A m : Entries(L, m) = Hit(m, n)
  BY DEF Entries, n
<1> HIDE DEF Hit
<1> QED BY <1>2, <1>7, <1>8 DEF Good, OnNodes

\* L remembers what f was, before it was changed: the first entry of a node
\* has its first value, and what has no entry is unchanged.
Remembers(L, f, f0) ==
    /\ \E S : L \in Seq(S)
    /\ \A m \in Nodes : (\A j \in 1..Len(L) : L[j].node # m) => f[m] = f0[m]
    /\ \A j \in 1..Len(L) :
          /\ L[j].node \in Nodes
          /\ (\A i \in 1..(j-1) : L[i].node # L[j].node) => L[j].old = f0[L[j].node]

\* No node has two entries.
Single(L) == \A i, j \in 1..Len(L) : L[i].node = L[j].node => i = j

\* An entry made before a change keeps the list's memory.
LEMMA RemembersMore ==
    ASSUME NEW L, NEW f, NEW f0, Remembers(L, f, f0), DOMAIN f = Nodes,
           NEW n \in Nodes, NEW v
    PROVE  Remembers(Append(L, [node |-> n, old |-> f[n]]), [f EXCEPT ![n] = v], f0)
<1> DEFINE e == [node |-> n, old |-> f[n]]
           M == Append(L, e)
           k == Len(L)
           g == [f EXCEPT ![n] = v]
<1>1. PICK S : L \in Seq(S)
  BY DEF Remembers
<1> DEFINE T == S \cup {e}
<1>2. L \in Seq(T) /\ e \in T /\ k \in Nat
  BY <1>1
<1>3. e.node = n /\ e.old = f[n]
  OBVIOUS
<1> HIDE DEF e, T
<1>4. M \in Seq(T) /\ Len(M) = k + 1 /\ M[k+1] = e /\ \A i \in 1..k : M[i] = L[i]
  BY <1>2, AppendProperties
<1> HIDE DEF M
<1>5. 1..(k+1) = 1..k \cup {k+1} /\ k + 1 \in 1..(k+1) /\ (k+1)-1 = k
  BY <1>2
<1>6. ASSUME NEW m \in Nodes, \A j \in 1..(k+1) : M[j].node # m
      PROVE  g[m] = f0[m]
  <2>1. m # n
    BY <1>3, <1>4, <1>5, <1>6
  <2>2. \A j \in 1..k : L[j].node # m
    BY <1>4, <1>5, <1>6
  <2> QED BY <2>1, <2>2 DEF Remembers
<1>7. ASSUME NEW j \in 1..(k+1)
      PROVE  /\ M[j].node \in Nodes
             /\ (\A i \in 1..(j-1) : M[i].node # M[j].node) => M[j].old = f0[M[j].node]
  <2>1. CASE j = k + 1
    <3>1. M[j].node = n /\ M[j].old = f[n] /\ 1..(j-1) = 1..k
      BY <1>3, <1>4, <1>5, <2>1
    <3>2. (\A i \in 1..k : L[i].node # n) => f[n] = f0[n]
      BY DEF Remembers
    <3> QED BY <1>4, <3>1, <3>2
  <2>2. CASE j # k + 1
    <3>1. j \in 1..k /\ \A i \in 1..(j-1) : i \in 1..k
      BY <1>2, <2>2
    <3>2. /\ L[j].node \in Nodes
          /\ (\A i \in 1..(j-1) : L[i].node # L[j].node) => L[j].old = f0[L[j].node]
      BY <3>1 DEF Remembers
    <3> QED BY <1>4, <3>1, <3>2
  <2> QED BY <2>1, <2>2
<1> QED BY <1>4, <1>6, <1>7 DEF Remembers, M, e

\* If no node has two entries, undoing them restores everything.
LEMMA UndoneRestores ==
    ASSUME NEW L, NEW f, NEW f0, Remembers(L, f, f0), Single(L),
           OnNodes(f), OnNodes(f0)
    PROVE  Undone(f, L) = f0
<1>1. PICK S : L \in Seq(S)
  BY DEF Remembers
<1> DEFINE g == Undone(f, L)
<1>2. /\ OnNodes(g)
      /\ \A m \in Nodes : IF Entries(L, m) = {} THEN g[m] = f[m]
                          ELSE \E j \in Entries(L, m) : g[m] = L[j].old
  BY <1>1, UndoneSpec
<1> HIDE DEF g
<1>0. Len(L) \in Nat
  BY <1>1, LenProperties
<1>3. ASSUME NEW m \in Nodes PROVE g[m] = f0[m]
  <2>1. CASE Entries(L, m) = {}
    BY <1>2, <2>1 DEF Remembers, Entries
  <2>2. CASE Entries(L, m) # {}
    <3>1. PICK j \in 1..Len(L) : L[j].node = m /\ g[m] = L[j].old
      BY <1>2, <2>2 DEF Entries
    <3>2. \A i \in 1..(j-1) : i \in 1..Len(L) /\ i # j
      BY <1>0
    <3>3. \A i \in 1..(j-1) : L[i].node # m
      BY <3>1, <3>2 DEF Single
    <3> QED BY <3>1, <3>3 DEF Remembers
  <2> QED BY <2>1, <2>2
<1>4. g = f0
  BY <1>2, <1>3 DEF OnNodes
<1> QED BY <1>4 DEF g

-----------------------------------------------------------------------------
(* Work in progress on a Set.  t0 is the tree it started from, M the moves  *)
(* <<node, new Parent>> that were planned, W the nodes that may be written. *)

WorkTypes(w, t0) ==
    /\ DOMAIN w = {"t", "vals", "parents", "kids", "ok"} /\ w.ok \in BOOLEAN
    /\ IsTree(w.t) /\ w.t.key = t0.key
\* The child lists that are not saved have not changed.
WorkKids(w, t0) ==
    /\ DOMAIN w.kids \subseteq Nodes
    /\ \A q \in Nodes : t0.kids[q] = IF q \in DOMAIN w.kids THEN w.kids[q]
                                     ELSE w.t.kids[q]
\* What moved, or moved and will be moved back, was planned to.
WorkMoves(w, t0, M) ==
    /\ Remembers(w.parents, w.t.up, t0.up)
    /\ \A q \in Nodes : w.t.up[q] = t0.up[q] \/ <<q, w.t.up[q]>> \in M
    /\ \A j \in 1..Len(w.parents) :
          \/ w.parents[j].old = t0.up[w.parents[j].node]
          \/ <<w.parents[j].node, w.parents[j].old>> \in M
WorkWrites(w, t0, W) ==
    /\ Remembers(w.vals, w.t.val, t0.val)
    /\ \A j \in 1..Len(w.vals) : w.vals[j].node \in W

IsWork(w, t0, M, W) ==
    WorkTypes(w, t0) /\ WorkKids(w, t0) /\ WorkMoves(w, t0, M) /\ WorkWrites(w, t0, W)

\* x is the work w with another child list saved, at most.
LEMMA SaveKidsSpec ==
    ASSUME NEW w, NEW t0, NEW M, NEW W, IsWork(w, t0, M, W), NEW n \in Nodes
    PROVE  /\ IsWork(SaveKids(w, n), t0, M, W)
           /\ n \in DOMAIN SaveKids(w, n).kids
           /\ DOMAIN w.kids \subseteq DOMAIN SaveKids(w, n).kids
           /\ SaveKids(w, n).t = w.t /\ SaveKids(w, n).ok = w.ok
           /\ SaveKids(w, n).parents = w.parents /\ SaveKids(w, n).vals = w.vals
<1> DEFINE saved == [m \in DOMAIN w.kids \cup {n} |->
                        IF m = n THEN w.t.kids[n] ELSE w.kids[m]]
           s == [w EXCEPT !.kids = saved]
<1>1. CASE n \in DOMAIN w.kids
  <2>1. SaveKids(w, n) = w
    BY <1>1 DEF SaveKids
  <2> QED BY <1>1, <2>1
<1>2. CASE n \notin DOMAIN w.kids
  <2>1. SaveKids(w, n) = s
    BY <1>2 DEF SaveKids
  <2>2. DOMAIN w = {"t", "vals", "parents", "kids", "ok"}
    BY DEF IsWork, WorkTypes
  <2>3. DOMAIN saved = DOMAIN w.kids \cup {n}
    OBVIOUS
  <2>4. \A q \in DOMAIN w.kids : saved[q] = w.kids[q]
    BY <1>2
  <2>5. saved[n] = w.t.kids[n]
    OBVIOUS
  <2> HIDE DEF saved
  <2>6. /\ DOMAIN s = {"t", "vals", "parents", "kids", "ok"}
        /\ s.kids = saved /\ s.t = w.t /\ s.ok = w.ok
        /\ s.parents = w.parents /\ s.vals = w.vals
    BY <2>2
  <2> HIDE DEF s
  <2>7. \A q \in Nodes : t0.kids[q] = IF q \in DOMAIN s.kids THEN s.kids[q]
                                      ELSE s.t.kids[q]
    <3> TAKE q \in Nodes
    <3>1. t0.kids[q] = IF q \in DOMAIN w.kids THEN w.kids[q] ELSE w.t.kids[q]
      BY DEF IsWork, WorkKids
    <3> QED BY <1>2, <2>3, <2>4, <2>5, <2>6, <3>1
  <2>8. DOMAIN s.kids \subseteq Nodes
    BY <2>3, <2>6 DEF IsWork, WorkKids
  <2>9. WorkTypes(s, t0)
    BY <2>6 DEF IsWork, WorkTypes
  <2>10. WorkMoves(s, t0, M) /\ WorkWrites(s, t0, W)
    BY <2>6 DEF IsWork, WorkMoves, WorkWrites
  <2>11. IsWork(s, t0, M, W)
    BY <2>7, <2>8, <2>9, <2>10 DEF IsWork, WorkKids
  <2> QED BY <2>1, <2>3, <2>6, <2>11
<1> QED BY <1>1, <1>2

\* A work with a saved child list changed.
Relisted(s, x, n, ks) ==
    /\ x.t.up = s.t.up /\ x.t.val = s.t.val /\ x.t.key = s.t.key
    /\ x.t.kids = [s.t.kids EXCEPT ![n] = ks]
    /\ x.ok = s.ok /\ x.parents = s.parents /\ x.vals = s.vals /\ x.kids = s.kids

\* Changing a child list changes nothing else.
LEMMA RelistedFields ==
    ASSUME NEW s, DOMAIN s = {"t", "vals", "parents", "kids", "ok"}, IsTree(s.t),
           NEW n \in Nodes, NEW ks \in Seq(Nodes), NEW x,
           x = [s EXCEPT !.t.kids[n] = ks]
    PROVE  Relisted(s, x, n, ks) /\ IsTree(x.t) /\ DOMAIN x = DOMAIN s
<1>1. DOMAIN s.t = {"kids", "up", "val", "key"} /\ DOMAIN s.t.kids = Nodes
  BY TreeFields
<1> DEFINE ls == [s.t.kids EXCEPT ![n] = ks]
           u == [s.t EXCEPT !.kids = ls]
<1>2. x = [s EXCEPT !.t = u]
  OBVIOUS
<1> HIDE DEF ls
<1>3. /\ u.kids = ls /\ u.up = s.t.up /\ u.val = s.t.val /\ u.key = s.t.key
      /\ u = [kids |-> u.kids, up |-> u.up, val |-> u.val, key |-> u.key]
  BY <1>1
<1> HIDE DEF u
<1>4. /\ DOMAIN x = {"t", "vals", "parents", "kids", "ok"}
      /\ x.t = u /\ x.ok = s.ok /\ x.parents = s.parents /\ x.vals = s.vals
      /\ x.kids = s.kids
  BY <1>2
<1>5. ls \in [Nodes -> Seq(Nodes)]
  BY DEF ls, IsTree
<1>6. IsTree(u)
  BY <1>3, <1>5 DEF IsTree
<1>7. Relisted(s, x, n, ks)
  BY <1>3, <1>4 DEF Relisted, ls
<1> QED BY <1>4, <1>6, <1>7

\* A saved child list may change.
LEMMA RelistedWork ==
    ASSUME NEW s, NEW t0, NEW M, NEW W, IsWork(s, t0, M, W), NEW n \in Nodes,
           n \in DOMAIN s.kids, NEW ks, NEW x,
           Relisted(s, x, n, ks), IsTree(x.t), DOMAIN x = DOMAIN s
    PROVE  IsWork(x, t0, M, W)
<1>1. /\ x.t.up = s.t.up /\ x.t.val = s.t.val /\ x.t.key = s.t.key
      /\ x.ok = s.ok /\ x.parents = s.parents /\ x.vals = s.vals /\ x.kids = s.kids
  BY DEF Relisted
<1>2. \A q \in Nodes : q # n => x.t.kids[q] = s.t.kids[q]
  <2>1. DOMAIN s.t.kids = Nodes
    BY TreeFields DEF IsWork, WorkTypes
  <2> QED BY <2>1 DEF Relisted
<1>3. \A q \in Nodes : t0.kids[q] = IF q \in DOMAIN x.kids THEN x.kids[q]
                                    ELSE x.t.kids[q]
  <2> TAKE q \in Nodes
  <2>1. t0.kids[q] = IF q \in DOMAIN s.kids THEN s.kids[q] ELSE s.t.kids[q]
    BY DEF IsWork, WorkKids
  <2> QED BY <1>1, <1>2, <2>1
<1>4. WorkTypes(x, t0)
  BY <1>1 DEF IsWork, WorkTypes
<1>5. WorkKids(x, t0)
  BY <1>1, <1>3 DEF IsWork, WorkKids
<1>6. WorkMoves(x, t0, M) /\ WorkWrites(x, t0, W)
  BY <1>1 DEF IsWork, WorkMoves, WorkWrites
<1> QED BY <1>4, <1>5, <1>6 DEF IsWork

\* A failure changes nothing but ok.
LEMMA FailSpec ==
    ASSUME NEW w, NEW t0, NEW M, NEW W, IsWork(w, t0, M, W)
    PROVE  /\ IsWork(Fail(w), t0, M, W) /\ ~ Fail(w).ok /\ Fail(w).t = w.t
           /\ Fail(w).parents = w.parents /\ Fail(w).vals = w.vals
<1>1. DOMAIN w = {"t", "vals", "parents", "kids", "ok"}
  BY DEF IsWork, WorkTypes
<1> DEFINE x == Fail(w)
<1>2. /\ DOMAIN x = DOMAIN w /\ x.ok = FALSE /\ x.t = w.t /\ x.kids = w.kids
      /\ x.parents = w.parents /\ x.vals = w.vals
  BY <1>1 DEF Fail
<1> HIDE DEF x
<1>3. IsWork(x, t0, M, W)
  <2>1. WorkTypes(x, t0)
    BY <1>2 DEF IsWork, WorkTypes
  <2>2. WorkKids(x, t0) /\ WorkMoves(x, t0, M) /\ WorkWrites(x, t0, W)
    BY <1>2 DEF IsWork, WorkKids, WorkMoves, WorkWrites
  <2> QED BY <2>1, <2>2 DEF IsWork
<1> QED BY <1>2, <1>3 DEF x

\* Rolling back restores the child lists; and all else, if nothing was
\* written twice.
LEMMA RollbackSpec ==
    ASSUME NEW w, NEW t0, NEW M, NEW W, IsTree(t0), IsWork(w, t0, M, W),
           M \subseteq Nodes \X Nodes
    PROVE  /\ IsTree(Rollback(w))
           /\ Rollback(w).kids = t0.kids /\ Rollback(w).key = t0.key
           /\ \A q \in Nodes : \/ Rollback(w).up[q] = t0.up[q]
                               \/ <<q, Rollback(w).up[q]>> \in M
           /\ \A q \in Nodes \ W : Rollback(w).val[q] = t0.val[q]
           /\ Single(w.parents) => Rollback(w).up = t0.up
           /\ Single(w.vals) => Rollback(w).val = t0.val
<1> DEFINE u == Rollback(w)
           ks == [n \in Nodes |-> IF n \in DOMAIN w.kids THEN w.kids[n] ELSE w.t.kids[n]]
           vs == Undone(w.t.val, w.vals)
           us == Undone(w.t.up, w.parents)
<1>1. IsTree(w.t) /\ w.t.key = t0.key
  BY DEF IsWork, WorkTypes
<1>2. DOMAIN w.t = {"kids", "up", "val", "key"}
  BY <1>1, TreeFields
<1>3. u = [w.t EXCEPT !.val = vs, !.up = us, !.kids = ks]
  BY DEF Rollback
<1> HIDE DEF ks, vs, us
<1>4. /\ u.kids = ks /\ u.up = us /\ u.val = vs /\ u.key = t0.key
      /\ u = [kids |-> u.kids, up |-> u.up, val |-> u.val, key |-> u.key]
  BY <1>1, <1>2, <1>3
<1> HIDE DEF u
<1>5. ks = t0.kids
  <2>1. \A n \in Nodes : ks[n] = t0.kids[n]
    BY DEF IsWork, WorkKids, ks
  <2>2. t0.kids = [n \in Nodes |-> t0.kids[n]]
    BY DEF IsTree
  <2>3. ks = [n \in Nodes |-> ks[n]]
    BY DEF ks
  <2> QED BY <2>1, <2>2, <2>3
<1>6. /\ OnNodes(w.t.val) /\ OnNodes(w.t.up) /\ OnNodes(t0.val) /\ OnNodes(t0.up)
      /\ Remembers(w.vals, w.t.val, t0.val) /\ Remembers(w.parents, w.t.up, t0.up)
  BY <1>1 DEF IsTree, OnNodes, IsWork, WorkMoves, WorkWrites
<1>7. \E S : w.vals \in Seq(S)
  BY <1>6 DEF Remembers
<1>8. \E S : w.parents \in Seq(S)
  BY <1>6 DEF Remembers
<1>9. OnNodes(vs) /\ \A q \in Nodes \ W : vs[q] = t0.val[q]
  <2>1. /\ OnNodes(vs)
        /\ \A m \in Nodes : Entries(w.vals, m) = {} => vs[m] = w.t.val[m]
    BY <1>6, <1>7, UndoneSpec DEF vs
  <2>2. ASSUME NEW q \in Nodes \ W PROVE vs[q] = t0.val[q]
    <3>1. \A j \in 1..Len(w.vals) : w.vals[j].node # q
      BY DEF IsWork, WorkWrites
    <3>2. Entries(w.vals, q) = {}
      BY <3>1 DEF Entries
    <3> QED BY <1>6, <2>1, <3>1, <3>2 DEF Remembers
  <2> QED BY <2>1, <2>2
<1>10. /\ us \in [Nodes -> Nodes \cup {NoNode}]
       /\ \A q \in Nodes : us[q] = t0.up[q] \/ <<q, us[q]>> \in M
  <2>1. /\ OnNodes(us)
        /\ \A m \in Nodes : IF Entries(w.parents, m) = {} THEN us[m] = w.t.up[m]
                            ELSE \E j \in Entries(w.parents, m) : us[m] = w.parents[j].old
    BY <1>6, <1>8, UndoneSpec DEF us
  <2>2. \A q \in Nodes : us[q] = t0.up[q] \/ <<q, us[q]>> \in M
    <3> TAKE q \in Nodes
    <3>1. CASE Entries(w.parents, q) = {}
      BY <2>1, <3>1 DEF IsWork, WorkMoves
    <3>2. CASE Entries(w.parents, q) # {}
      <4>1. PICK j \in 1..Len(w.parents) : w.parents[j].node = q /\ us[q] = w.parents[j].old
        BY <2>1, <3>2 DEF Entries
      <4> QED BY <4>1 DEF IsWork, WorkMoves
    <3> QED BY <3>1, <3>2
  <2>3. \A q \in Nodes : us[q] \in Nodes \cup {NoNode}
    BY <2>2 DEF IsTree
  <2> QED BY <2>1, <2>2, <2>3 DEF OnNodes
<1>11. Single(w.parents) => us = t0.up
  BY <1>6, UndoneRestores DEF us
<1>12. Single(w.vals) => vs = t0.val
  BY <1>6, UndoneRestores DEF vs
<1>13. IsTree(u)
  <2>1. t0.kids \in [Nodes -> Seq(Nodes)] /\ t0.key = [n \in Nodes |-> t0.key[n]]
    BY DEF IsTree
  <2> QED BY <1>4, <1>5, <1>9, <1>10, <2>1 DEF IsTree, OnNodes
<1> QED BY <1>4, <1>5, <1>9, <1>10, <1>11, <1>12, <1>13 DEF u

\* A work with values written.
Written(w, x) ==
    /\ x.t.kids = w.t.kids /\ x.t.up = w.t.up
    /\ x.ok = w.ok /\ x.parents = w.parents /\ x.kids = w.kids

\* A planned write leaves an undo entry.
LEMMA WriteSpec ==
    ASSUME NEW w, NEW t0, NEW M, NEW W, IsWork(w, t0, M, W),
           NEW n \in Nodes, n \in W, NEW value
    PROVE  IsWork(Write(w, n, value), t0, M, W) /\ Written(w, Write(w, n, value))
<1> DEFINE e == [node |-> n, old |-> w.t.val[n]]
           vs == [w.t.val EXCEPT ![n] = value]
           us == Append(w.vals, e)
           u == [w.t EXCEPT !.val = vs]
           x == Write(w, n, value)
<1>1. /\ DOMAIN w = {"t", "vals", "parents", "kids", "ok"} /\ IsTree(w.t)
      /\ w.t.key = t0.key
  BY DEF IsWork, WorkTypes
<1>2. DOMAIN w.t = {"kids", "up", "val", "key"} /\ DOMAIN w.t.val = Nodes
  BY <1>1, TreeFields
<1>3. x = [w EXCEPT !.vals = us, !.t = u]
  BY DEF Write
<1> HIDE DEF vs, us, x
<1>4. /\ u.kids = w.t.kids /\ u.up = w.t.up /\ u.val = vs /\ u.key = w.t.key
      /\ u = [kids |-> u.kids, up |-> u.up, val |-> u.val, key |-> u.key]
  BY <1>2
<1> HIDE DEF u
<1>5. /\ DOMAIN x = {"t", "vals", "parents", "kids", "ok"}
      /\ x.t = u /\ x.vals = us /\ x.ok = w.ok /\ x.parents = w.parents
      /\ x.kids = w.kids
  BY <1>1, <1>3
<1>6. vs = [m \in Nodes |-> vs[m]]
  BY <1>2 DEF vs
<1>7. IsTree(u)
  BY <1>1, <1>4, <1>6 DEF IsTree
<1>8. WorkTypes(x, t0)
  <2>1. w.ok \in BOOLEAN
    BY DEF IsWork, WorkTypes
  <2> QED BY <1>1, <1>4, <1>5, <1>7, <2>1 DEF WorkTypes
<1>9. WorkKids(x, t0) /\ WorkMoves(x, t0, M)
  BY <1>4, <1>5 DEF IsWork, WorkKids, WorkMoves
<1>10. WorkWrites(x, t0, W)
  <2>1. Remembers(w.vals, w.t.val, t0.val)
    BY DEF IsWork, WorkWrites
  <2>2. Remembers(us, vs, t0.val)
    BY <1>2, <2>1, RemembersMore DEF us, vs
  <2>3. PICK S : w.vals \in Seq(S)
    BY <2>1 DEF Remembers
  <2> DEFINE T == S \cup {e}
  <2>4. w.vals \in Seq(T) /\ e \in T /\ e.node = n
    BY <2>3
  <2> HIDE DEF e, T
  <2>5. /\ Len(us) = Len(w.vals) + 1 /\ us[Len(w.vals) + 1] = e
        /\ \A i \in 1..Len(w.vals) : us[i] = w.vals[i]
    BY <2>4, AppendProperties DEF us
  <2>6. \A i \in 1..(Len(w.vals) + 1) : i \in 1..Len(w.vals) \/ i = Len(w.vals) + 1
    BY <2>3, LenProperties
  <2>7. \A j \in 1..Len(us) : us[j].node \in W
    BY <2>4, <2>5, <2>6 DEF IsWork, WorkWrites
  <2> QED BY <1>4, <1>5, <2>2, <2>7 DEF WorkWrites
<1>11. IsWork(x, t0, M, W) /\ Written(w, x)
  BY <1>4, <1>5, <1>8, <1>9, <1>10 DEF IsWork, Written
<1> QED BY <1>11 DEF x

\* What ApplyValue computes target by target, by recursion.
WriteStep(w, targets, value, k, f) ==
    [i \in 0..k |-> IF i = 0 THEN w ELSE Write(f[i-1], targets[i], value)]

\* The recursion of ApplyValue defines a function.
LEMMA WritesExist ==
    ASSUME NEW w, NEW targets, NEW value, NEW k \in Nat
    PROVE  \E f : f = WriteStep(w, targets, value, k, f)
<1> DEFINE X(i, v) == Write(v, targets[i], value)
           Val(f, i) == IF i = 0 THEN w ELSE X(i, f[i-1])
           P == {j \in Nat : \E f : f = [i \in 0..j |-> Val(f, i)]}
<1> HIDE DEF X
<1>1. 0 \in P
  <2> DEFINE f == [i \in 0..0 |-> w]
  <2>1. f = [i \in 0..0 |-> Val(f, i)]
    OBVIOUS
  <2> QED BY <2>1
<1>2. ASSUME NEW j \in Nat, j \in P PROVE j + 1 \in P
  <2>1. PICK f : f = [i \in 0..j |-> Val(f, i)]
    BY <1>2
  <2> DEFINE g == [i \in 0..(j+1) |-> IF i \in 0..j THEN f[i] ELSE X(i, f[j])]
  <2>2. \A i \in 0..j : g[i] = f[i] /\ f[i] = Val(f, i)
    BY <2>1
  <2>3. g[j+1] = X(j+1, f[j])
    OBVIOUS
  <2> HIDE DEF g
  <2>4. ASSUME NEW i \in 0..(j+1) PROVE g[i] = Val(g, i)
    <3>1. CASE i \in 0..j
      <4>1. i # 0 => i - 1 \in 0..j
        BY <3>1
      <4> QED BY <2>2, <3>1, <4>1
    <3>2. CASE i \notin 0..j
      <4>1. i = j + 1 /\ i - 1 = j /\ j \in 0..j /\ i # 0
        BY <3>2
      <4> QED BY <2>2, <2>3, <4>1
    <3> QED BY <3>1, <3>2
  <2>5. g = [i \in 0..(j+1) |-> g[i]]
    BY DEF g
  <2>6. g = [i \in 0..(j+1) |-> Val(g, i)]
    <3> HIDE DEF Val
    <3> QED BY <2>4, <2>5
  <2> QED BY <2>6
<1> HIDE DEF P
<1>3. k \in P
  BY <1>1, <1>2, NatSetInduction
<1> QED BY <1>3 DEF P, WriteStep, X

\* The value edit writes planned targets only.
LEMMA ApplyValueSpec ==
    ASSUME NEW w, NEW t0, NEW M, NEW W, IsWork(w, t0, M, W),
           NEW p, p.targets \in Seq(Nodes),
           p.edit.value # {} => ToSet(p.targets) \subseteq W
    PROVE  IsWork(ApplyValue(w, p), t0, M, W) /\ Written(w, ApplyValue(w, p))
<1>1. CASE p.edit.value = {}
  <2>1. ApplyValue(w, p) = w
    BY <1>1 DEF ApplyValue
  <2> QED BY <2>1 DEF Written
<1>2. CASE p.edit.value # {}
  <2> DEFINE n == Len(p.targets)
             value == CHOOSE x \in p.edit.value : TRUE
             f == CHOOSE f : f = WriteStep(w, p.targets, value, n, f)
             Good(x) == IsWork(x, t0, M, W) /\ Written(w, x)
             P == {i \in Nat : i <= n => Good(f[i])}
  <2>1. n \in Nat /\ \A i \in 1..n : p.targets[i] \in Nodes /\ p.targets[i] \in W
    <3>1. n \in Nat /\ DOMAIN p.targets = 1..n
      BY LenProperties
    <3> QED BY <1>2, <3>1 DEF ToSet
  <2>2. ApplyValue(w, p) = f[n]
    BY <1>2 DEF ApplyValue, WriteStep
  <2> HIDE DEF value
  <2>3. f = WriteStep(w, p.targets, value, n, f)
    BY <2>1, WritesExist
  <2> HIDE DEF f, n
  <2>4. \A i \in 0..n : f[i] = IF i = 0 THEN w ELSE Write(f[i-1], p.targets[i], value)
    BY <2>3 DEF WriteStep
  <2>5. 0 \in P
    <3>0. 0 \in 0..n
      BY <2>1
    <3>1. f[0] = w
      BY <2>4, <3>0
    <3> QED BY <3>1 DEF Written
  <2>6. ASSUME NEW i \in Nat, i \in P PROVE i + 1 \in P
    <3> SUFFICES ASSUME i + 1 <= n PROVE Good(f[i+1])
      OBVIOUS
    <3>1. i + 1 \in 0..n /\ i + 1 # 0 /\ (i + 1) - 1 = i /\ i + 1 \in 1..n /\ i <= n
      BY <2>1
    <3>2. f[i+1] = Write(f[i], p.targets[i+1], value)
      BY <2>4, <3>1
    <3>3. Good(f[i])
      BY <2>6, <3>1
    <3>4. /\ IsWork(f[i+1], t0, M, W) /\ Written(f[i], f[i+1])
      BY <2>1, <3>1, <3>2, <3>3, WriteSpec
    <3> QED BY <3>3, <3>4 DEF Written
  <2> HIDE DEF P
  <2>7. n \in P
    BY <2>1, <2>5, <2>6, NatSetInduction
  <2> QED BY <2>1, <2>2, <2>7 DEF P
<1> QED BY <1>1, <1>2

\* What a relink drops from the child lists.
Drops(t, u, D) == \A q \in Nodes : ToSet(t.kids[q]) \subseteq ToSet(u.kids[q]) \cup D

\* relinkFirstChild cuts links of one node, those droppedByFirstChild lists.
LEMMA ApplyFirstSpec ==
    ASSUME NEW w, NEW t0, NEW M, NEW W, IsWork(w, t0, M, W),
           NEW p, p.edit.first # Keep => p.targets[1] \in Nodes,
           NEW x, x = ApplyFirst(w, p)
    PROVE  /\ IsWork(x, t0, M, W) /\ (x.ok => w.ok)
           /\ x.t.up = w.t.up /\ x.parents = w.parents /\ x.vals = w.vals
           /\ Pruned(w.t, x.t) /\ Neat(w.t, x.t)
           /\ \A q \in Nodes : q # p.targets[1] => x.t.kids[q] = w.t.kids[q]
           /\ Drops(w.t, x.t, IF p.edit.first = Keep THEN {}
                              ELSE DroppedByFirst(w.t, p.targets[1], p.first))
<1>1. IsTree(w.t)
  BY DEF IsWork, WorkTypes
<1>2. CASE ~ w.ok \/ p.edit.first = Keep
  <2>1. x = w
    BY <1>2 DEF ApplyFirst
  <2> QED BY <1>1, <2>1 DEF Pruned, Neat, Drops
<1>3. CASE w.ok /\ p.edit.first # Keep
  <2> DEFINE n == p.targets[1]
             s == SaveKids(w, n)
             ks == s.t.kids[n]
             at == IndexOf(ks, p.first)
  <2>0. n \in Nodes
    BY <1>3
  <2>1. /\ IsWork(s, t0, M, W) /\ n \in DOMAIN s.kids
        /\ s.t = w.t /\ s.ok = w.ok /\ s.parents = w.parents /\ s.vals = w.vals
    BY <2>0, SaveKidsSpec
  <2>2. x = IF p.first = NoNode THEN [s EXCEPT !.t.kids[n] = <<>>]
            ELSE IF s.t.up[p.first] # n \/ at = 0 THEN Fail(s)
            ELSE [s EXCEPT !.t.kids[n] = SubSeq(ks, at, Len(ks))]
    BY <1>3 DEF ApplyFirst
  <2>3. DOMAIN s = {"t", "vals", "parents", "kids", "ok"} /\ IsTree(s.t)
    BY <2>1 DEF IsWork, WorkTypes
  <2>4. ks \in Seq(Nodes) /\ ks = w.t.kids[n]
    BY <1>1, <2>0, <2>1, TreeFields
  <2> HIDE DEF n, s, ks
  \* Whatever shorter list replaces the child list of n.
  <2>5. ASSUME NEW new \in Seq(Nodes), x = [s EXCEPT !.t.kids[n] = new],
               ToSet(new) \subseteq ToSet(ks), Once(ks) => Once(new),
               ToSet(ks) \subseteq ToSet(new) \cup DroppedByFirst(w.t, n, p.first)
        PROVE  /\ IsWork(x, t0, M, W) /\ x.ok = w.ok
               /\ x.t.up = w.t.up /\ x.parents = w.parents /\ x.vals = w.vals
               /\ Pruned(w.t, x.t) /\ Neat(w.t, x.t)
               /\ \A q \in Nodes : q # n => x.t.kids[q] = w.t.kids[q]
               /\ Drops(w.t, x.t, DroppedByFirst(w.t, n, p.first))
    <3>1. Relisted(s, x, n, new) /\ IsTree(x.t) /\ DOMAIN x = DOMAIN s
      BY <2>0, <2>3, <2>5, RelistedFields
    <3>2. IsWork(x, t0, M, W)
      BY <2>0, <2>1, <3>1, RelistedWork
    <3>3. \A q \in Nodes : x.t.kids[q] = IF q = n THEN new ELSE w.t.kids[q]
      BY <1>1, <2>1, <3>1, TreeFields DEF Relisted
    <3> QED BY <2>0, <2>1, <2>4, <2>5, <3>1, <3>2, <3>3 DEF Relisted, Pruned, Neat, Drops
  <2>6. CASE p.first = NoNode
    <3>1. <<>> \in Seq(Nodes) /\ ToSet(<<>>) = {} /\ Once(<<>>)
      BY DEF ToSet, Once
    <3>2. DroppedByFirst(w.t, n, p.first) = ToSet(ks)
      BY <2>4, <2>6 DEF DroppedByFirst
    <3> QED BY <1>3, <2>2, <2>5, <2>6, <3>1, <3>2 DEF n
  <2>7. CASE p.first # NoNode /\ (s.t.up[p.first] # n \/ at = 0)
    <3>1. x = Fail(s)
      BY <2>2, <2>7
    <3>2. /\ IsWork(x, t0, M, W) /\ ~ x.ok /\ x.t = w.t
          /\ x.parents = w.parents /\ x.vals = w.vals
      BY <2>1, <3>1, FailSpec
    <3> QED BY <1>1, <3>2 DEF Pruned, Neat, Drops
  <2>8. CASE p.first # NoNode /\ ~ (s.t.up[p.first] # n \/ at = 0)
    <3> DEFINE new == SubSeq(ks, at, Len(ks))
    <3>1. Len(ks) \in Nat /\ DOMAIN ks = 1..Len(ks) /\ at \in 1..Len(ks)
      BY <2>4, <2>8, IndexOfSpec, LenProperties
    <3>2. /\ new \in Seq(Nodes) /\ (Once(ks) => Once(new))
          /\ ToSet(new) = {ks[i] : i \in at..Len(ks)}
      BY <2>4, <3>1, SliceOnce, ToSetElements
    <3>3. DroppedByFirst(w.t, n, p.first) = {ks[i] : i \in 1..(at - 1)}
      BY <2>4, <2>8 DEF DroppedByFirst
    <3>4. ToSet(ks) = {ks[i] : i \in 1..Len(ks)}
      BY <3>1 DEF ToSet
    <3>5. \A i \in 1..Len(ks) : i \in at..Len(ks) \/ i \in 1..(at - 1)
      BY <3>1
    <3>6. ToSet(new) \subseteq ToSet(ks)
      BY <3>1, <3>2, <3>4
    <3>7. ToSet(ks) \subseteq ToSet(new) \cup DroppedByFirst(w.t, n, p.first)
      BY <3>2, <3>3, <3>4, <3>5
    <3>8. x = [s EXCEPT !.t.kids[n] = new]
      BY <2>2, <2>8
    <3> HIDE DEF new
    <3> QED BY <1>3, <2>5, <3>2, <3>6, <3>7, <3>8 DEF n
  <2> QED BY <2>6, <2>7, <2>8
<1> QED BY <1>2, <1>3, <1>1 DEF IsWork, WorkTypes

\* What is left of a list without the elements after one position and before
\* another.
CutOut(ks, at, next) == SubSeq(ks, 1, at) \o SubSeq(ks, next, Len(ks))

\* It has all elements but those between, in the old order if it leads forwards.
LEMMA CutList ==
    ASSUME NEW S, NEW ks \in Seq(S), NEW at \in 1..Len(ks), NEW next \in 1..Len(ks)
    PROVE  LET h == CutOut(ks, at, next)
           IN  /\ h \in Seq(S) /\ ToSet(h) \subseteq ToSet(ks)
               /\ \A e \in ToSet(ks) :
                     e \in ToSet(h) \/ \E i \in (at + 1)..(next - 1) : ks[i] = e
               /\ next \notin 1..at =>
                     /\ Once(ks) => Once(h)
                     /\ \A c, d : Earlier(h, c, d) => Earlier(ks, c, d)
<1> DEFINE a == SubSeq(ks, 1, at)
           b == SubSeq(ks, next, Len(ks))
           h == CutOut(ks, at, next)
<1>1. /\ Len(ks) \in Nat /\ DOMAIN ks = 1..Len(ks)
      /\ at \in 0..Len(ks) /\ next \in 1..(Len(ks) + 1)
      /\ 1 \in 1..(Len(ks) + 1) /\ Len(ks) \in 0..Len(ks)
  BY LenProperties
<1>2. a \in Seq(S) /\ Elements(a) = {ks[i] : i \in 1..at}
  BY <1>1, SliceOnce
<1>3. b \in Seq(S) /\ Elements(b) = {ks[i] : i \in next..Len(ks)}
  BY <1>1, SliceOnce
<1>4. next \notin 1..at =>
         /\ Once(ks) => Once(h)
         /\ \A c, d : Earlier(h, c, d) => Earlier(ks, c, d)
  <2> SUFFICES ASSUME next \notin 1..at
               PROVE  /\ Once(ks) => Once(h)
                      /\ \A c, d : Earlier(h, c, d) => Earlier(ks, c, d)
    OBVIOUS
  <2>1. next \in (at + 1)..(Len(ks) + 1)
    BY <1>1
  <2> QED BY <1>1, <2>1, CutOnce DEF CutOut
<1> HIDE DEF a, b, h
<1>5. h \in Seq(S) /\ ToSet(h) = ToSet(a) \cup ToSet(b)
  BY <1>2, <1>3, ConcatElements, ToSetElements DEF a, b, h, CutOut
<1>6. ToSet(ks) = {ks[i] : i \in 1..Len(ks)}
  BY <1>1 DEF ToSet
<1>7. 1..at \subseteq 1..Len(ks) /\ next..Len(ks) \subseteq 1..Len(ks)
  BY <1>1
<1>8. ToSet(a) \subseteq ToSet(ks) /\ ToSet(b) \subseteq ToSet(ks)
  BY <1>2, <1>3, <1>6, <1>7, ToSetElements
<1>9. \A i \in 1..Len(ks) : i \in 1..at \/ i \in (at + 1)..(next - 1) \/ i \in next..Len(ks)
  BY <1>1
<1>10. ASSUME NEW e \in ToSet(ks)
       PROVE  e \in ToSet(h) \/ \E i \in (at + 1)..(next - 1) : ks[i] = e
  <2>1. PICK i \in 1..Len(ks) : e = ks[i]
    BY <1>6
  <2>2. i \in 1..at => e \in ToSet(a)
    BY <1>2, <2>1, ToSetElements
  <2>3. i \in next..Len(ks) => e \in ToSet(b)
    BY <1>3, <2>1, ToSetElements
  <2> QED BY <1>5, <1>9, <2>1, <2>2, <2>3
<1> QED BY <1>4, <1>5, <1>8, <1>10 DEF h

\* The last of the children that a relink to next drops.
LastDropped(ks, next) == IF next = NoNode THEN Len(ks) ELSE IndexOf(ks, next) - 1

\* What a relink of n's next sibling drops, by position.
LEMMA DroppedByNextSpec ==
    ASSUME NEW t, IsTree(t), NEW n \in Nodes, t.up[n] # NoNode, NEW next
    PROVE  LET ks == t.kids[t.up[n]]
               D == DroppedByNext(t, n, next)
           IN  /\ ks \in Seq(Nodes) /\ D \in SUBSET Nodes
               /\ LastDropped(ks, next) \in Int /\ LastDropped(ks, next) <= Len(ks)
               /\ \A c : c \in D <=>
                     /\ IndexOf(ks, n) # 0
                     /\ \E i \in (IndexOf(ks, n) + 1)..LastDropped(ks, next) : ks[i] = c
<1> DEFINE ks == t.kids[t.up[n]]
           at == IndexOf(ks, n)
           end == LastDropped(ks, next)
           D == DroppedByNext(t, n, next)
<1>1. ks \in Seq(Nodes) /\ t.up[n] \in Nodes
  BY TreeFields
<1>2. /\ at \in 0..Len(ks) /\ IndexOf(ks, next) \in 0..Len(ks)
      /\ Len(ks) \in Nat /\ DOMAIN ks = 1..Len(ks)
  BY <1>1, IndexOfSpec, LenProperties
<1>3. end <= Len(ks) /\ end \in Int
  BY <1>2 DEF LastDropped
<1>4. \A c : c \in D <=> at # 0 /\ \E i \in (at + 1)..end : ks[i] = c
  BY DEF DroppedByNext, LastDropped
<1> HIDE DEF ks, at, end, D
<1>5. \A i \in (at + 1)..end : ks[i] \in Nodes
  BY <1>1, <1>2, <1>3
<1>6. D \in SUBSET Nodes
  BY <1>4, <1>5
<1> QED BY <1>1, <1>2, <1>3, <1>4, <1>6 DEF ks, at, end, D

\* c lies between n and next, as a relink of n to next sees it.
Between(ks, n, next, c) ==
    /\ IndexOf(ks, n) # 0
    /\ \E i \in (IndexOf(ks, n) + 1)..LastDropped(ks, next) : ks[i] = c

LEMMA NextDrops ==
    ASSUME NEW t, IsTree(t), NEW n \in Nodes, t.up[n] # NoNode, NEW next,
           NEW ks, ks = t.kids[t.up[n]]
    PROVE  \A c : c \in DroppedByNext(t, n, next) <=> Between(ks, n, next, c)
BY DroppedByNextSpec DEF Between

\* The relink of n's next sibling leads forwards.
Forward(t, n, next) ==
    IndexOf(t.kids[t.up[n]], next) \notin 1..IndexOf(t.kids[t.up[n]], n)

\* relinkNextSibling cuts links below the Parent, those droppedByNextSibling
\* lists; it repeats none if it leads forwards.
LEMMA ApplyNextSpec ==
    ASSUME NEW w, NEW t0, NEW M, NEW W, IsWork(w, t0, M, W),
           NEW p, NEW n, n = p.targets[1],
           p.edit.next # Keep => n \in Nodes /\ w.t.up[n] # NoNode,
           NEW x, x = ApplyNext(w, p)
    PROVE  /\ IsWork(x, t0, M, W) /\ (x.ok => w.ok)
           /\ x.t.up = w.t.up /\ x.parents = w.parents /\ x.vals = w.vals
           /\ Pruned(w.t, x.t)
           /\ \A q \in Nodes : q # w.t.up[n] => x.t.kids[q] = w.t.kids[q]
           /\ (w.ok /\ p.edit.next # Keep => Forward(w.t, n, p.next)) =>
                 Neat(w.t, x.t) /\ InOrder(w.t, x.t)
           /\ Drops(w.t, x.t, IF p.edit.next = Keep THEN {} ELSE DroppedByNext(w.t, n, p.next))
<1>1. IsTree(w.t)
  BY DEF IsWork, WorkTypes
<1>2. CASE ~ w.ok \/ p.edit.next = Keep
  <2>1. x = w
    BY <1>2 DEF ApplyNext
  <2> QED BY <1>1, <2>1 DEF Pruned, Neat, InOrder, Drops
<1>3. CASE w.ok /\ p.edit.next # Keep
  <2> DEFINE par == w.t.up[n]
             s == SaveKids(w, par)
             ks == s.t.kids[par]
             at == IndexOf(ks, n)
             next == IndexOf(ks, p.next)
             D == DroppedByNext(w.t, n, p.next)
  <2>0. n \in Nodes /\ par \in Nodes /\ par # NoNode
    BY <1>1, <1>3, TreeFields
  <2>1. /\ IsWork(s, t0, M, W) /\ par \in DOMAIN s.kids
        /\ s.t = w.t /\ s.ok = w.ok /\ s.parents = w.parents /\ s.vals = w.vals
    BY <2>0, SaveKidsSpec
  <2>2. x = IF at = 0 THEN Fail(s)
            ELSE IF p.next = NoNode THEN [s EXCEPT !.t.kids[par] = SubSeq(ks, 1, at)]
            ELSE IF s.t.up[p.next] # par \/ next = 0 THEN Fail(s)
            ELSE [s EXCEPT !.t.kids[par] = CutOut(ks, at, next)]
    BY <1>3 DEF ApplyNext, CutOut
  <2>3. DOMAIN s = {"t", "vals", "parents", "kids", "ok"} /\ IsTree(s.t)
    BY <2>1 DEF IsWork, WorkTypes
  <2>4. ks \in Seq(Nodes) /\ ks = w.t.kids[par]
    BY <1>1, <2>0, <2>1, TreeFields
  <2>5. /\ at \in 0..Len(ks) /\ next \in 0..Len(ks)
        /\ Len(ks) \in Nat /\ DOMAIN ks = 1..Len(ks)
    BY <2>4, IndexOfSpec, LenProperties
  <2>6. Forward(w.t, n, p.next) <=> next \notin 1..at
    BY <2>4 DEF Forward
  <2> HIDE DEF s, ks
  <2>a. \A c : c \in D <=>
               at # 0 /\ \E i \in (at + 1)..LastDropped(ks, p.next) : ks[i] = c
    <3> DEFINE u == w.t
               next0 == p.next
    <3>1. IsTree(u) /\ n \in Nodes /\ u.up[n] # NoNode /\ ks = u.kids[u.up[n]]
      BY <1>1, <2>0, <2>4
    <3> HIDE DEF u, next0
    <3>2. \A c : c \in DroppedByNext(u, n, next0) <=> Between(ks, n, next0, c)
      BY <3>1, NextDrops
    <3> QED BY <3>2 DEF u, next0, Between
  <2> HIDE DEF par, D
  <2> HIDE DEF at, next
  <2>7. ToSet(ks) = {ks[i] : i \in 1..Len(ks)}
    BY <2>5 DEF ToSet
  <2>8. ASSUME NEW new \in Seq(Nodes), x = [s EXCEPT !.t.kids[par] = new],
               ToSet(new) \subseteq ToSet(ks),
               Once(ks) /\ Forward(w.t, n, p.next) => Once(new),
               Forward(w.t, n, p.next) =>
                  \A c, d : Earlier(new, c, d) => Earlier(ks, c, d),
               ToSet(ks) \subseteq ToSet(new) \cup D
        PROVE  /\ IsWork(x, t0, M, W) /\ x.ok = w.ok
               /\ x.t.up = w.t.up /\ x.parents = w.parents /\ x.vals = w.vals
               /\ Pruned(w.t, x.t) /\ Drops(w.t, x.t, D)
               /\ Forward(w.t, n, p.next) => Neat(w.t, x.t) /\ InOrder(w.t, x.t)
               /\ \A q \in Nodes : q # par => x.t.kids[q] = w.t.kids[q]
    <3>1. Relisted(s, x, par, new) /\ IsTree(x.t) /\ DOMAIN x = DOMAIN s
      BY <2>0, <2>3, <2>8, RelistedFields
    <3>2. IsWork(x, t0, M, W)
      BY <2>0, <2>1, <3>1, RelistedWork
    <3>3. \A q \in Nodes : x.t.kids[q] = IF q = par THEN new ELSE w.t.kids[q]
      BY <1>1, <2>1, <3>1, TreeFields DEF Relisted
    <3>4. Forward(w.t, n, p.next) => InOrder(w.t, x.t)
      BY <2>4, <2>8, <3>3 DEF InOrder
    <3> QED BY <2>0, <2>1, <2>4, <2>8, <3>1, <3>2, <3>3, <3>4
            DEF Relisted, Pruned, Neat, Drops
  <2>9. ASSUME NEW y, x = Fail(y), y = s
        PROVE  /\ IsWork(x, t0, M, W) /\ ~ x.ok /\ x.t = w.t
               /\ x.parents = w.parents /\ x.vals = w.vals
    BY <2>1, <2>9, FailSpec
  <2>10. CASE at = 0
    <3>1. x = Fail(s)
      BY <2>2, <2>10
    <3> QED BY <1>1, <2>9, <3>1 DEF Pruned, Neat, InOrder, Drops
  <2>11. CASE at # 0 /\ p.next = NoNode
    <3> DEFINE new == SubSeq(ks, 1, at)
    <3>1. /\ new \in Seq(Nodes) /\ (Once(ks) => Once(new))
          /\ ToSet(new) = {ks[i] : i \in 1..at}
          /\ \A c, d : Earlier(new, c, d) => Earlier(ks, c, d)
      <4>1. 1 \in 1..(Len(ks) + 1) /\ at \in 0..Len(ks)
        BY <2>5
      <4>2. /\ new \in Seq(Nodes) /\ (Once(ks) => Once(new))
            /\ Elements(new) = {ks[i] : i \in 1..at}
            /\ \A c, d : Earlier(new, c, d) => Earlier(ks, c, d)
        BY <2>4, <4>1, SliceOnce
      <4> QED BY <4>2, ToSetElements
    <3>2. \A i \in (at + 1)..Len(ks) : ks[i] \in D
      BY <2>11, <2>a DEF LastDropped
    <3>3. \A i \in 1..Len(ks) : i \in 1..at \/ i \in (at + 1)..Len(ks)
      BY <2>5
    <3>4. ToSet(new) \subseteq ToSet(ks)
      BY <2>5, <2>7, <3>1
    <3>5. ToSet(ks) \subseteq ToSet(new) \cup D
      BY <2>7, <3>1, <3>2, <3>3
    <3>6. x = [s EXCEPT !.t.kids[par] = new]
      BY <2>2, <2>11
    <3> HIDE DEF new
    <3> QED BY <1>3, <2>8, <3>1, <3>4, <3>5, <3>6 DEF D, par
  <2>12. CASE at # 0 /\ p.next # NoNode /\ (s.t.up[p.next] # par \/ next = 0)
    <3>1. x = Fail(s)
      BY <2>2, <2>12
    <3> QED BY <1>1, <2>9, <3>1 DEF Pruned, Neat, InOrder, Drops
  <2>13. CASE at # 0 /\ p.next # NoNode /\ ~ (s.t.up[p.next] # par \/ next = 0)
    <3> DEFINE new == CutOut(ks, at, next)
    <3>1. at \in 1..Len(ks) /\ next \in 1..Len(ks)
      BY <2>5, <2>13
    <3>2. /\ new \in Seq(Nodes) /\ ToSet(new) \subseteq ToSet(ks)
          /\ \A e \in ToSet(ks) :
                e \in ToSet(new) \/ \E i \in (at + 1)..(next - 1) : ks[i] = e
          /\ next \notin 1..at =>
                /\ Once(ks) => Once(new)
                /\ \A c, d : Earlier(new, c, d) => Earlier(ks, c, d)
      BY <2>4, <3>1, CutList
    <3>3. LastDropped(ks, p.next) = next - 1
      BY <2>13 DEF LastDropped, next
    <3>4. \A i \in (at + 1)..(next - 1) : ks[i] \in D
      BY <2>13, <2>a, <3>3
    <3>8. x = [s EXCEPT !.t.kids[par] = new]
      BY <2>2, <2>13
    <3> HIDE DEF new
    <3>9. ToSet(ks) \subseteq ToSet(new) \cup D
      BY <3>2, <3>4
    <3>10. /\ Once(ks) /\ Forward(w.t, n, p.next) => Once(new)
           /\ Forward(w.t, n, p.next) =>
                 \A c, d : Earlier(new, c, d) => Earlier(ks, c, d)
      BY <2>6, <3>2
    <3> QED BY <1>3, <2>8, <3>2, <3>8, <3>9, <3>10 DEF D, par
  <2> QED BY <2>10, <2>11, <2>12, <2>13
<1> QED BY <1>2, <1>3

\* Removing one element of a list.
LEMMA RemoveAtSpec ==
    ASSUME NEW S, NEW s \in Seq(S), NEW at \in 1..Len(s)
    PROVE  /\ RemoveAt(s, at) \in Seq(S)
           /\ ToSet(RemoveAt(s, at)) \subseteq ToSet(s)
           /\ ToSet(s) \ {s[at]} \subseteq ToSet(RemoveAt(s, at))
           /\ Once(s) => Once(RemoveAt(s, at)) /\ s[at] \notin ToSet(RemoveAt(s, at))
           /\ \A c, d : Earlier(RemoveAt(s, at), c, d) => Earlier(s, c, d)
<1> DEFINE k == Len(s)
           h == RemoveAt(s, at)
           I == 1..(at - 1) \cup (at + 1)..k
<1>1. k \in Nat /\ DOMAIN s = 1..k /\ at \in 1..k
  BY LenProperties
<1> DEFINE a == at - 1
           b == at + 1
<1>2. a \in 0..Len(s) /\ b \in (a + 1)..(Len(s) + 1)
  BY <1>1
<1>3. h = SubSeq(s, 1, a) \o SubSeq(s, b, Len(s)) /\ I = 1..a \cup b..Len(s)
  BY DEF RemoveAt
<1> HIDE DEF a, b, h, I, k
<1>4. /\ h \in Seq(S) /\ Elements(h) = {s[i] : i \in I} /\ (Once(s) => Once(h))
      /\ \A c, d : Earlier(h, c, d) => Earlier(s, c, d)
  BY <1>2, <1>3, CutOnce
<1> USE DEF I, k
<1>5. \A i \in 1..k : i \in I <=> i # at
  BY <1>1
<1>6. I \subseteq 1..k
  BY <1>1
<1> HIDE DEF I, k
<1>7. ToSet(h) = {s[i] : i \in I} /\ ToSet(s) = {s[i] : i \in 1..k}
  BY <1>1, <1>4, ToSetElements DEF Elements
<1>8. ToSet(h) \subseteq ToSet(s) /\ ToSet(s) \ {s[at]} \subseteq ToSet(h)
  BY <1>5, <1>6, <1>7
<1>9. Once(s) => s[at] \notin ToSet(h)
  <2> SUFFICES ASSUME Once(s), s[at] \in ToSet(h) PROVE FALSE
    OBVIOUS
  <2>1. PICK i \in I : s[i] = s[at]
    BY <1>7
  <2>2. i = at
    BY <1>1, <1>6, <2>1 DEF Once
  <2> QED BY <1>1, <1>5, <1>6, <2>1, <2>2
<1> QED BY <1>4, <1>8, <1>9 DEF h

\* The node n at position at below old moves to the end of p's list.
Moved(t, u, n, old, p, at) ==
    /\ u.kids = [[t.kids EXCEPT ![old] = RemoveAt(@, at)] EXCEPT ![p] = Append(@, n)]
    /\ u.up = [t.up EXCEPT ![n] = p] /\ u.key = t.key

\* Removed there and appended here: the node has moved.
LEMMA MovedKids ==
    ASSUME NEW t, IsTree(t), NEW u, IsTree(u), NEW n \in Nodes, NEW old \in Nodes,
           NEW p \in Nodes, NEW at \in 1..Len(t.kids[old]), t.kids[old][at] = n,
           Moved(t, u, n, old, p, at)
    PROVE  Relocated(t, u, n, p)
<1> DEFINE cut == [t.kids EXCEPT ![old] = RemoveAt(@, at)]
<1>0. /\ u.kids = [cut EXCEPT ![p] = Append(@, n)]
      /\ u.up = [t.up EXCEPT ![n] = p] /\ u.key = t.key
  BY DEF Moved
<1>1. /\ DOMAIN t.kids = Nodes /\ \A q \in Nodes : t.kids[q] \in Seq(Nodes)
  BY TreeFields
<1> DEFINE rest == RemoveAt(t.kids[old], at)
<1>2. /\ rest \in Seq(Nodes) /\ ToSet(rest) \subseteq ToSet(t.kids[old])
      /\ ToSet(t.kids[old]) \ {n} \subseteq ToSet(rest)
      /\ Once(t.kids[old]) => Once(rest) /\ n \notin ToSet(rest)
      /\ \A c, d : Earlier(rest, c, d) => Earlier(t.kids[old], c, d)
  BY <1>1, RemoveAtSpec
<1>3. DOMAIN cut = Nodes /\ \A q \in Nodes : cut[q] = IF q = old THEN rest ELSE t.kids[q]
  BY <1>1
<1>12. n \in ToSet(t.kids[old])
  <2>1. at \in DOMAIN t.kids[old]
    BY <1>1, LenProperties
  <2> QED BY <2>1 DEF ToSet
<1> HIDE DEF rest, cut
<1>4. \A q \in Nodes : /\ cut[q] \in Seq(Nodes) /\ ToSet(cut[q]) \subseteq ToSet(t.kids[q])
                       /\ ToSet(t.kids[q]) \ {n} \subseteq ToSet(cut[q])
  BY <1>1, <1>2, <1>3
<1>5. \A q \in Nodes : u.kids[q] = IF q = p THEN Append(cut[p], n) ELSE cut[q]
  BY <1>0, <1>3
<1>6. /\ ToSet(Append(cut[p], n)) = ToSet(cut[p]) \cup {n}
      /\ Once(cut[p]) /\ n \notin ToSet(cut[p]) => Once(Append(cut[p], n))
  BY <1>4, AppendOnce, ToSetElements
<1>7. \A q \in Nodes : /\ ToSet(u.kids[q]) \subseteq ToSet(t.kids[q]) \cup {n}
                       /\ ToSet(t.kids[q]) \ {n} \subseteq ToSet(u.kids[q])
  BY <1>4, <1>5, <1>6
<1>8. n \in ToSet(u.kids[p])
  BY <1>5, <1>6
<1>9. ASSUME Tied(t), NEW q \in Nodes
      PROVE  Once(u.kids[q]) /\ (n \in ToSet(u.kids[q]) => q = p)
  <2>2. t.up[n] = old
    BY <1>9, <1>12 DEF Tied
  <2>3. \A r \in Nodes : Once(cut[r]) /\ n \notin ToSet(cut[r])
    BY <1>2, <1>3, <1>9, <2>2 DEF Tied
  <2> QED BY <1>5, <1>6, <2>3
<1>10. \A q \in Nodes : q # p /\ n \notin ToSet(t.kids[q]) => u.kids[q] = t.kids[q]
  BY <1>3, <1>5, <1>12
<1>11. \A q \in Nodes : q # p =>
          \A c, d : Earlier(u.kids[q], c, d) => Earlier(t.kids[q], c, d)
  BY <1>2, <1>3, <1>5
<1> QED BY <1>0, <1>7, <1>8, <1>9, <1>10, <1>11 DEF Relocated

\* newParent moves the node as planned or does nothing.
LEMMA ApplyParentSpec ==
    ASSUME NEW w, NEW t0, NEW M, NEW W, IsWork(w, t0, M, W),
           M \subseteq Nodes \X Nodes,
           NEW p,
           p.edit.parent # Keep => p.targets[1] \in Nodes /\ w.t.up[p.targets[1]] # NoNode
                                   /\ p.parent \in Nodes
                                   /\ <<p.targets[1], p.parent>> \in M,
           NEW x, x = ApplyParent(w, p)
    PROVE  /\ IsWork(x, t0, M, W) /\ (x.ok => w.ok) /\ x.vals = w.vals
           /\ \/ x.t = w.t
              \/ w.ok /\ p.edit.parent # Keep /\ Relocated(w.t, x.t, p.targets[1], p.parent)
<1>1. IsTree(w.t) /\ w.ok \in BOOLEAN
  BY DEF IsWork, WorkTypes
<1>2. CASE ~ w.ok \/ p.edit.parent = Keep
  <2>1. x = w
    BY <1>2 DEF ApplyParent
  <2> QED BY <2>1
<1>3. CASE w.ok /\ p.edit.parent # Keep
  <2> DEFINE n == p.targets[1]
             old == w.t.up[n]
             pp == p.parent
             r == SaveKids(w, old)
             s == SaveKids(r, pp)
             at == IndexOf(s.t.kids[old], n)
             cut == [s.t.kids EXCEPT ![old] = RemoveAt(@, at)]
             e == [node |-> n, old |-> old]
             ps == Append(s.parents, e)
             ls == [cut EXCEPT ![pp] = Append(@, n)]
             us == [s.t.up EXCEPT ![n] = pp]
             u == [s.t EXCEPT !.up = us, !.kids = ls]
  <2>a. x = IF at = 0 THEN Fail(r)
            ELSE [s EXCEPT !.parents = Append(@, [node |-> n, old |-> old]),
                           !.t.up[n] = pp,
                           !.t.kids = [cut EXCEPT ![pp] = Append(@, n)]]
    BY <1>3 DEF ApplyParent
  <2>3. x = IF at = 0 THEN Fail(r)
            ELSE [s EXCEPT !.parents = ps, !.t.up[n] = pp, !.t.kids = ls]
    BY <2>a
  <2> HIDE DEF n
  <2>0. n \in Nodes /\ old \in Nodes /\ pp \in Nodes /\ <<n, pp>> \in M
    BY <1>1, <1>3, TreeFields DEF n
  <2>1. /\ IsWork(r, t0, M, W) /\ old \in DOMAIN r.kids /\ r.t = w.t
        /\ r.ok = w.ok /\ r.parents = w.parents /\ r.vals = w.vals
    BY <2>0, SaveKidsSpec
  <2> HIDE DEF r
  <2>2. /\ IsWork(s, t0, M, W) /\ old \in DOMAIN s.kids /\ pp \in DOMAIN s.kids
        /\ s.t = w.t /\ s.ok = w.ok /\ s.parents = w.parents /\ s.vals = w.vals
    <3>1. /\ IsWork(s, t0, M, W) /\ pp \in DOMAIN s.kids
          /\ DOMAIN r.kids \subseteq DOMAIN s.kids
      BY <2>0, <2>1, SaveKidsSpec
    <3>2. s.t = r.t /\ s.ok = r.ok /\ s.parents = r.parents /\ s.vals = r.vals
      BY <2>0, <2>1, SaveKidsSpec
    <3> HIDE DEF s
    <3> QED BY <2>1, <3>1, <3>2
  <2> HIDE DEF s
  <2>4. CASE at = 0
    <3>1. x = Fail(r)
      BY <2>3, <2>4
    <3> QED BY <1>3, <2>1, <3>1, FailSpec
  <2>5. CASE at # 0
    <3> HIDE DEF ls, ps
    <3>0. x = [s EXCEPT !.parents = ps, !.t.up[n] = pp, !.t.kids = ls]
      BY <2>3, <2>5
    <3>2. /\ DOMAIN s = {"t", "vals", "parents", "kids", "ok"} /\ s.ok \in BOOLEAN
          /\ IsTree(s.t) /\ s.t.key = t0.key
      BY <2>2 DEF IsWork, WorkTypes
    <3>3. DOMAIN s.t = {"kids", "up", "val", "key"}
      BY <3>2, TreeFields
    <3>1. x = [s EXCEPT !.parents = ps, !.t = u]
      BY <3>0, <3>2, <3>3
    <3> HIDE DEF us
    <3>a. u = [s.t EXCEPT !.up = us, !.kids = ls]
      OBVIOUS
    <3> HIDE DEF u
    <3>4. /\ u.kids = ls /\ u.up = us /\ u.val = s.t.val /\ u.key = s.t.key
          /\ u = [kids |-> u.kids, up |-> u.up, val |-> u.val, key |-> u.key]
      BY <3>3, <3>a
    <3>5. /\ DOMAIN x = {"t", "vals", "parents", "kids", "ok"}
          /\ x.t = u /\ x.ok = s.ok /\ x.parents = ps /\ x.vals = s.vals
          /\ x.kids = s.kids
      BY <3>1, <3>2
    <3>6. at \in 1..Len(s.t.kids[old]) /\ s.t.kids[old][at] = n
      <4> DEFINE l == s.t.kids[old]
      <4>1. l \in Seq(Nodes)
        BY <2>0, <3>2, TreeFields
      <4>2. at = IndexOf(l, n) /\ at # 0
        BY <2>5
      <4> HIDE DEF l, at
      <4>3. at \in 1..Len(l) /\ l[at] = n
        BY <4>1, <4>2, IndexFound
      <4> QED BY <4>3 DEF l
    <3> HIDE DEF at
    <3>7. IsTree(u)
      <4>1. /\ DOMAIN s.t.kids = Nodes /\ DOMAIN s.t.up = Nodes
            /\ \A q \in Nodes : s.t.kids[q] \in Seq(Nodes)
            /\ \A q \in Nodes : s.t.up[q] \in Nodes \cup {NoNode}
        BY <3>2, TreeFields
      <4>2. RemoveAt(s.t.kids[old], at) \in Seq(Nodes)
        <5> DEFINE l == s.t.kids[old]
        <5>1. l \in Seq(Nodes) /\ at \in 1..Len(l)
          BY <2>0, <3>6, <4>1
        <5> HIDE DEF l
        <5>2. RemoveAt(l, at) \in Seq(Nodes)
          BY <5>1, RemoveAtSpec
        <5> QED BY <5>2 DEF l
      <4>3. cut \in [Nodes -> Seq(Nodes)]
        BY <3>2, <4>2 DEF IsTree
      <4>4. ls \in [Nodes -> Seq(Nodes)]
        <5>1. Append(cut[pp], n) \in Seq(Nodes)
          BY <2>0, <4>3, AppendProperties
        <5> QED BY <4>3, <5>1 DEF ls
      <4>5. us \in [Nodes -> Nodes \cup {NoNode}]
        BY <2>0, <3>2 DEF us, IsTree
      <4> QED BY <3>2, <3>4, <4>4, <4>5 DEF IsTree
    <3> HIDE DEF cut
    <3>8. Relocated(w.t, u, n, pp)
      <4>1. Moved(w.t, u, n, old, pp, at)
        BY <2>2, <3>4 DEF Moved, us, ls, cut
      <4>2. at \in 1..Len(w.t.kids[old]) /\ w.t.kids[old][at] = n
        BY <2>2, <3>6
      <4> HIDE DEF old, pp
      <4> QED BY <1>1, <2>0, <3>7, <4>1, <4>2, MovedKids
    <3>9. \A q \in Nodes : us[q] = IF q = n THEN pp ELSE s.t.up[q]
      BY <3>2, TreeFields DEF us
    <3>10. \A q \in Nodes : q # old /\ q # pp => ls[q] = s.t.kids[q]
      BY <3>2, TreeFields DEF ls, cut
    <3>11. WorkTypes(x, t0)
      BY <3>2, <3>4, <3>5, <3>7 DEF WorkTypes
    <3>12. WorkKids(x, t0)
      <4>1. DOMAIN s.kids \subseteq Nodes
        BY <2>2 DEF IsWork, WorkKids
      <4>2. ASSUME NEW q \in Nodes
            PROVE t0.kids[q] = IF q \in DOMAIN s.kids THEN s.kids[q] ELSE ls[q]
        <5>1. t0.kids[q] = IF q \in DOMAIN s.kids THEN s.kids[q] ELSE s.t.kids[q]
          BY <2>2 DEF IsWork, WorkKids
        <5> QED BY <2>2, <3>10, <5>1
      <4> QED BY <3>4, <3>5, <4>1, <4>2 DEF WorkKids
    <3>13. WorkWrites(x, t0, W)
      BY <2>2, <3>4, <3>5 DEF IsWork, WorkWrites
    <3>14. /\ Remembers(s.parents, s.t.up, t0.up)
           /\ \A q \in Nodes : s.t.up[q] = t0.up[q] \/ <<q, s.t.up[q]>> \in M
           /\ \A j \in 1..Len(s.parents) :
                 \/ s.parents[j].old = t0.up[s.parents[j].node]
                 \/ <<s.parents[j].node, s.parents[j].old>> \in M
      BY <2>2 DEF IsWork, WorkMoves
    <3>15. Remembers(ps, us, t0.up)
      <4>1. DOMAIN s.t.up = Nodes /\ e = [node |-> n, old |-> s.t.up[n]]
        BY <2>2, <3>2, TreeFields
      <4> HIDE DEF e
      <4> QED BY <2>0, <3>14, <4>1, RemembersMore DEF ps, us
    <3>16. \A j \in 1..Len(ps) : \/ ps[j].old = t0.up[ps[j].node]
                                 \/ <<ps[j].node, ps[j].old>> \in M
      <4>1. PICK S : s.parents \in Seq(S)
        BY <3>14 DEF Remembers
      <4> DEFINE T == S \cup {e}
      <4>2. s.parents \in Seq(T) /\ e \in T /\ e.node = n /\ e.old = s.t.up[n]
        BY <2>2, <4>1
      <4> HIDE DEF e, T
      <4>3. /\ Len(ps) = Len(s.parents) + 1 /\ ps[Len(s.parents) + 1] = e
            /\ \A i \in 1..Len(s.parents) : ps[i] = s.parents[i]
        BY <4>2, AppendProperties DEF ps
      <4>4. \A i \in 1..(Len(s.parents) + 1) :
               i \in 1..Len(s.parents) \/ i = Len(s.parents) + 1
        BY <4>1, LenProperties
      <4> QED BY <2>0, <3>14, <4>2, <4>3, <4>4
    <3>17. WorkMoves(x, t0, M)
      BY <2>0, <3>4, <3>5, <3>9, <3>14, <3>15, <3>16 DEF WorkMoves
    <3>18. IsWork(x, t0, M, W)
      BY <3>11, <3>12, <3>13, <3>17 DEF IsWork
    <3> QED BY <1>3, <2>2, <3>5, <3>8, <3>18 DEF n
  <2> QED BY <2>4, <2>5
<1> QED BY <1>1, <1>2, <1>3

\* What the planning of an edit against t0 establishes.
PlanFits(t0, p, F, M, W) ==
    /\ p.targets \in Seq(Nodes)
    /\ p.edit.value # {} => ToSet(p.targets) \subseteq W
    /\ IsStructural(p.edit) =>
          p.targets[1] \in Nodes \ F /\ t0.up[p.targets[1]] # NoNode
    /\ p.edit.parent # Keep => p.parent \in Nodes \ F /\ <<p.targets[1], p.parent>> \in M

\* When the edit is applied, to t, it ties no knot.
SteadyEdit(t, p) ==
    /\ p.edit.next # Keep => Forward(t, p.targets[1], p.next)
    /\ p.edit.parent # Keep => /\ p.parent # p.targets[1]
                               /\ ~ IsDescendant(t, p.targets[1], p.parent)

\* A whole edit keeps the tree laid, and if it is steady, sound.
LEMMA ApplyPlanSpec ==
    ASSUME NEW w, NEW t0, NEW M, NEW W, NEW F, IsWork(w, t0, M, W),
           M \subseteq Nodes \X Nodes, Root \notin F,
           NEW p, PlanFits(t0, p, F, M, W), Laid(w.t, F),
           NEW x, x = ApplyPlan(w, p)
    PROVE  /\ IsWork(x, t0, M, W) /\ Laid(x.t, F)
           /\ Sound(w.t, F) /\ (w.ok => SteadyEdit(w.t, p)) => Sound(x.t, F)
<1>1. CASE ~ w.ok
  <2>1. x = w
    BY <1>1 DEF ApplyPlan
  <2> QED BY <2>1
<1>2. CASE w.ok
  <2> DEFINE n == p.targets[1]
             a == ApplyValue(w, p)
             b == ApplyFirst(a, p)
             c == ApplyNext(b, p)
             d == ApplyParent(c, p)
  <2>1. x = d
    BY <1>2 DEF ApplyPlan
  <2>2. IsWork(a, t0, M, W) /\ Written(w, a)
    BY ApplyValueSpec DEF PlanFits
  <2> HIDE DEF a
  <2>3. IsStructural(p.edit) => n \in Nodes /\ n \notin F /\ w.t.up[n] # NoNode
    <3> SUFFICES ASSUME IsStructural(p.edit)
                 PROVE  n \in Nodes /\ n \notin F /\ w.t.up[n] # NoNode
      OBVIOUS
    <3>1. n \in Nodes /\ n \notin F /\ t0.up[n] # NoNode
      BY DEF PlanFits
    <3>2. w.t.up[n] = t0.up[n] \/ <<n, w.t.up[n]>> \in M
      BY <3>1 DEF IsWork, WorkMoves
    <3> QED BY <3>1, <3>2, NodesAssumption
  <2>4. /\ IsWork(b, t0, M, W) /\ b.t.up = a.t.up /\ (b.ok => a.ok)
        /\ Pruned(a.t, b.t) /\ Neat(a.t, b.t)
        /\ \A q \in Nodes : q # n => b.t.kids[q] = a.t.kids[q]
    BY <2>2, <2>3, ApplyFirstSpec DEF IsStructural
  <2> HIDE DEF b
  <2>5. b.t.up = w.t.up
    BY <2>2, <2>4 DEF Written
  <2>6. /\ IsWork(c, t0, M, W) /\ c.t.up = b.t.up /\ (c.ok => b.ok)
        /\ Pruned(b.t, c.t)
        /\ (b.ok /\ p.edit.next # Keep => Forward(b.t, n, p.next)) => Neat(b.t, c.t)
    BY <2>3, <2>4, <2>5, ApplyNextSpec DEF IsStructural
  <2> HIDE DEF c
  <2>7. c.t.up = w.t.up
    BY <2>5, <2>6
  <2>8. p.edit.parent # Keep => /\ n \in Nodes /\ n \notin F /\ w.t.up[n] # NoNode
                                /\ p.parent \in Nodes /\ p.parent \notin F
                                /\ <<n, p.parent>> \in M
    BY <2>3 DEF PlanFits, IsStructural
  <2>9. /\ IsWork(d, t0, M, W)
        /\ \/ d.t = c.t
           \/ c.ok /\ p.edit.parent # Keep /\ Relocated(c.t, d.t, n, p.parent)
    BY <2>6, <2>7, <2>8, ApplyParentSpec
  <2> HIDE DEF d
  <2>10. Laid(c.t, F)
    <3>1. IsTree(a.t)
      BY <2>2 DEF IsWork, WorkTypes
    <3>2. Laid(a.t, F)
      BY <2>2, <3>1 DEF Laid, Written
    <3> QED BY <2>4, <2>6, <3>2, PrunedLaid
  <2>11. Laid(d.t, F)
    BY <2>8, <2>9, <2>10, RelocatedLaid
  <2>12. ASSUME Sound(w.t, F), SteadyEdit(w.t, p) PROVE Sound(d.t, F)
    <3>1. IsTree(a.t) /\ a.t.kids = w.t.kids /\ a.t.up = w.t.up
      BY <2>2 DEF IsWork, WorkTypes, Written
    <3>2. Sound(a.t, F)
      <4>1. Laid(a.t, F) /\ Tied(a.t)
        BY <2>12, <3>1 DEF Sound, Laid, Tied
      <4>2. Acyclic(a.t) /\ a.t.up[Root] = NoNode /\ \A m \in Nodes : a.t.up[m] \notin F
        BY <2>12, <3>1 DEF Sound, Acyclic, Ranks
      <4> QED BY <4>1, <4>2 DEF Sound
    <3>3. Sound(b.t, F)
      BY <2>4, <3>2, PrunedSound
    <3>4. p.edit.next # Keep => Forward(b.t, n, p.next)
      <4> SUFFICES ASSUME p.edit.next # Keep PROVE Forward(b.t, n, p.next)
        OBVIOUS
      <4>1. Forward(w.t, n, p.next)
        BY <2>12 DEF SteadyEdit
      <4>2. n \in Nodes /\ w.t.up[n] # NoNode
        BY <2>3 DEF IsStructural
      <4>3. IsTree(w.t) /\ Acyclic(w.t)
        BY <2>12 DEF Sound, Laid
      <4>4. w.t.up[n] \in Nodes
        BY <4>2, <4>3, TreeFields
      <4>5. w.t.up[n] # n
        BY <4>2, <4>3 DEF Acyclic, Ranks
      <4> QED BY <2>4, <2>5, <3>1, <4>1, <4>4, <4>5 DEF Forward
    <3>5. Sound(c.t, F)
      BY <2>6, <3>3, <3>4, PrunedSound
    <3>6. CASE d.t = c.t
      BY <3>5, <3>6
    <3>7. CASE c.ok /\ p.edit.parent # Keep /\ Relocated(c.t, d.t, n, p.parent)
      <4>1. IsDescendant(c.t, n, p.parent) = IsDescendant(w.t, n, p.parent)
        BY <2>7 DEF IsDescendant, Chain
      <4>2. p.parent # n /\ ~ IsDescendant(c.t, n, p.parent)
        BY <2>12, <3>7, <4>1 DEF SteadyEdit
      <4> HIDE DEF n
      <4> QED BY <2>7, <2>8, <3>5, <3>7, <4>2, RelocatedSound
    <3> QED BY <2>9, <3>6, <3>7
  <2> QED BY <1>2, <2>1, <2>9, <2>11, <2>12
<1> QED BY <1>1, <1>2 DEF IsWork, WorkTypes

-----------------------------------------------------------------------------
(* A Set.                                                                   *)

\* What a request finds in the tree: nodes that exist, with a Parent.
LEMMA FoundSpec ==
    ASSUME NEW t, NEW F, Laid(t, F), NEW expr, IsExpression(expr)
    PROVE  /\ Evaluate(t, expr) \in Seq(Nodes) /\ Len(Evaluate(t, expr)) \in Nat
           /\ \A c \in ToSet(Evaluate(t, expr)) : c \in Nodes /\ c \notin F /\ t.up[c] # NoNode
           /\ Len(Evaluate(t, expr)) = 1 =>
                 Evaluate(t, expr)[1] \in ToSet(Evaluate(t, expr))
<1>1. IsTree(t)
  BY DEF Laid
<1>2. Live(t) \subseteq Nodes
  BY <1>1, LiveSpec
<1>3. \A c \in Children(t, Live(t)) : c \in Nodes /\ c \notin F /\ t.up[c] # NoNode
  BY <1>1, <1>2, KidsAreNodes DEF Children, Laid
<1> QED BY <1>1, <1>3, EvaluateSpec

\* The moves and the writes that the rules allow in a tree.
Movable(t) ==
    {m \in Nodes \X Nodes : /\ IsDescendant(t, NewNodes, m[1])
                           /\ May(t, "write", m[2]) /\ t.up[m[2]] # NoNode}
Writable(t) == {n \in Nodes : May(t, "write", n)}

\* What the planning phase of SetAs accepts fits.
LEMMA PlanOfFits ==
    ASSUME NEW t, NEW F, Laid(t, F), NEW edits \in Sets, NEW i \in DOMAIN edits,
           PlanAccepted(t, edits[i])
    PROVE  PlanFits(t, PlanOf(t, edits[i]), F, Movable(t), Writable(t))
<1> DEFINE e == edits[i]
           p == PlanOf(t, e)
           targets == Evaluate(t, e.target)
           to == Evaluate(t, e.parent.expr)
<1>1. IsExpression(e.target) /\ (e.parent = Keep \/ Names(e.parent))
  BY RequestsAssumption
<1>2. p.edit = e /\ p.targets = targets /\ p.parent = Resolve(t, e.parent)
  BY DEF PlanOf
<1> HIDE DEF p
<1>3. /\ targets \in Seq(Nodes)
      /\ \A c \in ToSet(targets) : c \in Nodes /\ c \notin F /\ t.up[c] # NoNode
      /\ Len(targets) = 1 => targets[1] \in ToSet(targets)
  BY <1>1, FoundSpec
<1>4. /\ e.value # {} => \A m \in ToSet(targets) : May(t, "write", m)
      /\ IsStructural(e) => Len(targets) = 1 /\ Resolves(t, e.parent)
      /\ e.parent # Keep => ParentAccepted(t, targets[1], Resolve(t, e.parent))
  BY DEF PlanAccepted, IsStructural
<1> HIDE DEF e, targets
<1>5. e.value # {} => ToSet(targets) \subseteq Writable(t)
  BY <1>3, <1>4 DEF Writable
<1>6. IsStructural(e) => targets[1] \in Nodes \ F /\ t.up[targets[1]] # NoNode
  BY <1>3, <1>4
<1>7. ASSUME e.parent # Keep
      PROVE  p.parent \in Nodes \ F /\ <<targets[1], p.parent>> \in Movable(t)
  <2>1. e.parent.kind = "to" /\ IsExpression(e.parent.expr) /\ IsStructural(e)
    BY <1>1, <1>7 DEF Names, IsStructural
  <2>2. Len(to) = 1 /\ p.parent = to[1]
    BY <1>2, <1>4, <2>1 DEF Resolves, Resolve
  <2>3. p.parent \in Nodes \ F /\ t.up[p.parent] # NoNode
    BY <2>1, <2>2, FoundSpec
  <2> HIDE DEF to
  <2> QED BY <1>2, <1>4, <1>6, <1>7, <2>1, <2>3 DEF Movable, ParentAccepted
<1>8. PlanFits(t, p, F, Movable(t), Writable(t))
  BY <1>2, <1>3, <1>5, <1>6, <1>7 DEF PlanFits
<1> QED BY <1>8 DEF p, e

\* What Progress computes, by recursion.
ProgressStep(t, edits, k, f) ==
    [i \in 0..k |-> IF i = 0 THEN StartWork(t)
                    ELSE ApplyPlan(f[i-1], PlanOf(t, edits[i]))]

\* The recursion of Progress defines a function.
LEMMA ProgressExists ==
    ASSUME NEW t, NEW edits, NEW k \in Nat
    PROVE  \E f : f = ProgressStep(t, edits, k, f)
<1> DEFINE X(i, v) == ApplyPlan(v, PlanOf(t, edits[i]))
           Val(f, i) == IF i = 0 THEN StartWork(t) ELSE X(i, f[i-1])
           P == {j \in Nat : \E f : f = [i \in 0..j |-> Val(f, i)]}
<1> HIDE DEF X
<1>1. 0 \in P
  <2> DEFINE f == [i \in 0..0 |-> StartWork(t)]
  <2>1. f = [i \in 0..0 |-> Val(f, i)]
    OBVIOUS
  <2> QED BY <2>1
<1>2. ASSUME NEW j \in Nat, j \in P PROVE j + 1 \in P
  <2>1. PICK f : f = [i \in 0..j |-> Val(f, i)]
    BY <1>2
  <2> DEFINE g == [i \in 0..(j+1) |-> IF i \in 0..j THEN f[i] ELSE X(i, f[j])]
  <2>2. \A i \in 0..j : g[i] = f[i] /\ f[i] = Val(f, i)
    BY <2>1
  <2>3. g[j+1] = X(j+1, f[j])
    OBVIOUS
  <2> HIDE DEF g
  <2>4. ASSUME NEW i \in 0..(j+1) PROVE g[i] = Val(g, i)
    <3>1. CASE i \in 0..j
      <4>1. i # 0 => i - 1 \in 0..j
        BY <3>1
      <4> QED BY <2>2, <3>1, <4>1
    <3>2. CASE i \notin 0..j
      <4>1. i = j + 1 /\ i - 1 = j /\ j \in 0..j /\ i # 0
        BY <3>2
      <4> QED BY <2>2, <2>3, <4>1
    <3> QED BY <3>1, <3>2
  <2>5. g = [i \in 0..(j+1) |-> g[i]]
    BY DEF g
  <2>6. g = [i \in 0..(j+1) |-> Val(g, i)]
    <3> HIDE DEF Val
    <3> QED BY <2>4, <2>5
  <2> QED BY <2>6
<1> HIDE DEF P
<1>3. k \in P
  BY <1>1, <1>2, NatSetInduction
<1> QED BY <1>3 DEF P, ProgressStep, X

\* The recursive equation of Progress.
LEMMA ProgressSpec ==
    ASSUME NEW t, NEW edits, Len(edits) \in Nat
    PROVE  /\ Progress(t, edits)[0] = StartWork(t)
           /\ \A i \in 1..Len(edits) :
                 Progress(t, edits)[i] = ApplyPlan(Progress(t, edits)[i-1], PlanOf(t, edits[i]))
<1> DEFINE n == Len(edits)
           f == CHOOSE f : f = ProgressStep(t, edits, n, f)
<1>1. f = ProgressStep(t, edits, n, f)
  BY ProgressExists
<1>2. Progress(t, edits) = f
  BY DEF Progress, ProgressStep
<1> HIDE DEF f
<1>3. \A i \in 0..n : f[i] = IF i = 0 THEN StartWork(t)
                             ELSE ApplyPlan(f[i-1], PlanOf(t, edits[i]))
  BY <1>1 DEF ProgressStep
<1>4. 0 \in 0..n /\ \A i \in 1..n : i \in 0..n /\ i # 0
  OBVIOUS
<1>5. f[0] = StartWork(t)
  BY <1>3, <1>4
<1>6. \A i \in 1..n : f[i] = ApplyPlan(f[i-1], PlanOf(t, edits[i]))
  BY <1>3, <1>4
<1> QED BY <1>2, <1>5, <1>6

\* The work before the first edit.
LEMMA StartSpec ==
    ASSUME NEW t, IsTree(t), NEW M, NEW W
    PROVE  IsWork(StartWork(t), t, M, W) /\ StartWork(t).t = t
<1> DEFINE w == StartWork(t)
<1>1. /\ DOMAIN w = {"t", "vals", "parents", "kids", "ok"} /\ w.ok = TRUE
      /\ w.t = t /\ w.vals = <<>> /\ w.parents = <<>> /\ w.kids = <<>>
  BY DEF StartWork
<1> HIDE DEF w
<1>2. <<>> \in Seq({}) /\ Len(<<>>) = 0 /\ DOMAIN <<>> = {} /\ 1..0 = {}
  OBVIOUS
<1>3. WorkTypes(w, t)
  BY <1>1 DEF WorkTypes
<1>4. WorkKids(w, t)
  BY <1>1, <1>2 DEF WorkKids
<1>5. \A f : Remembers(<<>>, f, f)
  BY <1>2 DEF Remembers
<1>6. WorkMoves(w, t, M) /\ WorkWrites(w, t, W)
  BY <1>1, <1>2, <1>5 DEF WorkMoves, WorkWrites
<1> QED BY <1>1, <1>3, <1>4, <1>6 DEF IsWork, w

\* A Set that ties no knot: each edit is steady when its turn comes, and a Set
\* that fails half-way has not changed the same field of a node twice.
Steady(t, edits) ==
    Accepted(t, edits) =>
       /\ \A i \in 1..Len(edits) :
             Progress(t, edits)[i-1].ok =>
                SteadyEdit(Progress(t, edits)[i-1].t, PlanOf(t, edits[i]))
       /\ ~ Progress(t, edits)[Len(edits)].ok =>
             /\ Single(Progress(t, edits)[Len(edits)].parents)
             /\ Single(Progress(t, edits)[Len(edits)].vals)

\* After each edit of an accepted Set: a work within the plan.
LEMMA ProgressWorks ==
    ASSUME NEW t, NEW F, Root \notin F, Laid(t, F), NEW edits \in Sets,
           Accepted(t, edits), NEW k, k = Len(edits)
    PROVE  /\ k \in Nat
           /\ \A i \in 0..k :
                 /\ IsWork(Progress(t, edits)[i], t, Movable(t), Writable(t))
                 /\ Laid(Progress(t, edits)[i].t, F)
                 /\ Sound(t, F) /\ Steady(t, edits) => Sound(Progress(t, edits)[i].t, F)
<1> DEFINE f == Progress(t, edits)
           M == Movable(t)
           W == Writable(t)
           Calm == Sound(t, F) /\ Steady(t, edits)
           Good(i) == /\ IsWork(f[i], t, M, W) /\ Laid(f[i].t, F)
                      /\ Calm => Sound(f[i].t, F)
           P == {i \in Nat : i <= k => Good(i)}
<1>1. k \in Nat /\ DOMAIN edits = 1..k
  BY RequestsAssumption
<1>2. /\ f[0] = StartWork(t)
      /\ \A i \in 1..k : f[i] = ApplyPlan(f[i-1], PlanOf(t, edits[i]))
  BY <1>1, ProgressSpec
<1>3. M \subseteq Nodes \X Nodes
  BY DEF Movable
<1>4. \A i \in 1..k : PlanFits(t, PlanOf(t, edits[i]), F, M, W)
  BY <1>1, PlanOfFits DEF Accepted
<1>5. Calm => \A i \in 1..k : f[i-1].ok => SteadyEdit(f[i-1].t, PlanOf(t, edits[i]))
  BY DEF Steady
<1> HIDE DEF f, M, W
<1>6. 0 \in P
  <2>1. IsWork(f[0], t, M, W) /\ f[0].t = t
    BY <1>2, StartSpec DEF Laid
  <2> QED BY <2>1
<1>7. ASSUME NEW i \in Nat, i \in P PROVE i + 1 \in P
  <2> SUFFICES ASSUME i + 1 <= k PROVE Good(i + 1)
    OBVIOUS
  <2>1. i + 1 \in 1..k /\ (i + 1) - 1 = i /\ i <= k
    BY <1>1
  <2> DEFINE p == PlanOf(t, edits[i + 1])
  <2>2. f[i + 1] = ApplyPlan(f[i], p) /\ PlanFits(t, p, F, M, W)
    BY <1>2, <1>4, <2>1
  <2>3. Calm => (f[i].ok => SteadyEdit(f[i].t, p))
    BY <1>5, <2>1
  <2>4. Good(i)
    BY <1>7, <2>1
  <2> HIDE DEF p, Calm
  <2>5. /\ IsWork(f[i+1], t, M, W) /\ Laid(f[i+1].t, F)
        /\ Sound(f[i].t, F) /\ (f[i].ok => SteadyEdit(f[i].t, p)) => Sound(f[i+1].t, F)
    BY <1>3, <2>2, <2>4, ApplyPlanSpec
  <2> QED BY <2>3, <2>4, <2>5
<1> HIDE DEF P, Good, Calm
<1>8. Nat \subseteq P
  BY <1>6, <1>7, NatSetInduction
<1>9. \A i \in 0..k : Good(i)
  BY <1>1, <1>8 DEF P
<1> QED BY <1>1, <1>9 DEF Good, Calm, f, M, W

\* What a Set does: the tree stays laid, and if the Set ties no knot, sound,
\* and if it is refused, as it was.
LEMMA SetOutcomeSpec ==
    ASSUME NEW t, NEW F, Root \notin F, Laid(t, F), NEW edits \in Sets,
           NEW out, out = SetOutcome(t, edits)
    PROVE  /\ out.ok \in BOOLEAN /\ Laid(out.tree, F) /\ out.tree.key = t.key
           /\ \A q \in Nodes : \/ out.tree.up[q] = t.up[q]
                               \/ <<q, out.tree.up[q]>> \in Movable(t)
           /\ \A q \in Nodes \ Writable(t) : out.tree.val[q] = t.val[q]
           /\ Sound(t, F) /\ Steady(t, edits) =>
                 Sound(out.tree, F) /\ (~ out.ok => out.tree = t)
<1>1. CASE ~ Accepted(t, edits)
  <2>1. out.ok = FALSE /\ out.tree = t
    BY <1>1 DEF SetOutcome
  <2> QED BY <2>1
<1>2. CASE Accepted(t, edits)
  <2> DEFINE k == Len(edits)
             w == Progress(t, edits)[k]
             u == Rollback(w)
             M == Movable(t)
             W == Writable(t)
             Calm == Sound(t, F) /\ Steady(t, edits)
  <2>1. out = [ok |-> w.ok, tree |-> IF w.ok THEN w.t ELSE u]
    BY <1>2 DEF SetOutcome, Settle
  <2>2. k \in Nat
    BY <1>2, ProgressWorks
  <2>3. k \in 0..k
    BY <2>2
  <2>4. IsWork(w, t, M, W) /\ Laid(w.t, F) /\ (Calm => Sound(w.t, F))
    BY <1>2, <2>3, ProgressWorks
  <2>5. Calm /\ ~ w.ok => Single(w.parents) /\ Single(w.vals)
    BY <1>2 DEF Steady
  <2>6. M \subseteq Nodes \X Nodes /\ IsTree(t) /\ NoNode \notin Nodes
    BY NodesAssumption DEF Movable, Laid
  <2> HIDE DEF w, u, M, W, Calm
  <2>7. CASE w.ok
    <3>1. out.ok = TRUE /\ out.tree = w.t
      BY <2>1, <2>7
    <3>2. /\ w.t.key = t.key
          /\ \A q \in Nodes : w.t.up[q] = t.up[q] \/ <<q, w.t.up[q]>> \in M
      BY <2>4 DEF IsWork, WorkMoves, WorkTypes
    <3>3. ASSUME NEW q \in Nodes \ W PROVE w.t.val[q] = t.val[q]
      <4>1. \A j \in 1..Len(w.vals) : w.vals[j].node # q
        BY <2>4 DEF IsWork, WorkWrites
      <4> QED BY <2>4, <4>1 DEF IsWork, WorkWrites, Remembers
    <3> QED BY <2>4, <3>1, <3>2, <3>3 DEF M, W, Calm
  <2>8. CASE ~ w.ok
    <3>1. out.ok = w.ok /\ out.tree = u
      BY <2>1, <2>8
    <3>2. w.ok \in BOOLEAN
      BY <2>4 DEF IsWork, WorkTypes
    <3>3. /\ IsTree(u) /\ u.kids = t.kids /\ u.key = t.key
          /\ \A q \in Nodes : u.up[q] = t.up[q] \/ <<q, u.up[q]>> \in M
          /\ \A q \in Nodes \ W : u.val[q] = t.val[q]
          /\ Single(w.parents) => u.up = t.up
          /\ Single(w.vals) => u.val = t.val
      BY <2>4, <2>6, RollbackSpec DEF u
    <3>4. Laid(u, F)
      <4>1. ASSUME NEW q \in Nodes, NEW c \in ToSet(u.kids[q])
            PROVE  c \notin F /\ u.up[c] # NoNode
        <5>1. c \in Nodes /\ c \notin F /\ t.up[c] # NoNode
          BY <2>6, <3>3, KidsAreNodes DEF Laid
        <5> QED BY <2>6, <3>3, <5>1
      <4> QED BY <3>3, <4>1 DEF Laid
    <3>5. Calm => u = t
      <4> SUFFICES ASSUME Calm PROVE u = t
        OBVIOUS
      <4>1. u.up = t.up /\ u.val = t.val
        BY <2>5, <2>8, <3>3
      <4> QED BY <2>6, <3>3, <4>1 DEF IsTree
    <3> QED BY <2>8, <3>1, <3>2, <3>3, <3>4, <3>5 DEF M, W, Calm
  <2> QED BY <2>4, <2>7, <2>8 DEF IsWork, WorkTypes
<1> QED BY <1>1, <1>2

-----------------------------------------------------------------------------
(* The requests.                                                            *)

\* What every request leaves.
Standing ==
    /\ Laid(tree, fresh) /\ fresh \subseteq Nodes
    /\ Root \notin fresh /\ Containers \cap fresh = {}

\* What a step does to a node that stays: the moves and writes it may make.
Touched ==
    \A n \in Live(tree) \cap Live(tree') :
       /\ tree.up[n] # tree'.up[n] =>
             /\ IsDescendant(tree, NewNodes, n)
             /\ May(tree, "write", tree'.up[n])
       /\ tree.val[n] # tree'.val[n] => May(tree, "write", n)

\* The tree the server starts with is sound.
LEMMA InitSound ==
    Init => Standing /\ Sound(tree, fresh) /\ reply.gone = {}
<1> SUFFICES ASSUME Init PROVE Standing /\ Sound(tree, fresh) /\ reply.gone = {}
  OBVIOUS
<1> DEFINE t == InitialTree
           blank == {n \in Nodes : InitialTree.key[n] = NoNode}
<1>1. tree = t /\ fresh = blank /\ reply.gone = {}
  BY DEF Init
<1>2. /\ IsTree(t) /\ Tied(t) /\ t.up[Root] = NoNode
      /\ \A n \in Nodes : EndsWithin(t, n, Cardinality(Nodes))
      /\ blank \cap ({Root} \cup Containers) = {}
      /\ \A n \in Nodes : t.up[n] \notin blank /\ ToSet(t.kids[n]) \cap blank = {}
  BY InitialTreeAssumption
<1>3. blank \subseteq Nodes
  OBVIOUS
<1> HIDE DEF t, blank
<1>4. Acyclic(t)
  BY <1>2, EndsIsAcyclic
<1>5. Laid(t, blank)
  <2>1. ASSUME NEW p \in Nodes, NEW c \in ToSet(t.kids[p])
        PROVE  c \notin blank /\ t.up[c] # NoNode
    BY <1>2, NodesAssumption DEF Tied
  <2> QED BY <1>2, <2>1 DEF Laid
<1>6. Sound(t, blank)
  BY <1>2, <1>4, <1>5 DEF Sound
<1> QED BY <1>1, <1>2, <1>3, <1>5, <1>6 DEF Standing

\* What is there keeps its key, and unless it is staged, its place.
Steadfast(t, u, F) ==
    \A m \in Nodes \ F : /\ u.key[m] = t.key[m]
                         /\ u.up[m] = t.up[m] \/ IsDescendant(t, NewNodes, m)

\* A new node below par.
LEMMA GrowStep ==
    ASSUME Standing, NEW n \in fresh, NEW par \in Nodes \ fresh, NEW key, NEW val,
           tree' = WithChild(tree, par, n, key, val), fresh' = fresh \ {n}
    PROVE  /\ Standing' /\ Touched
           /\ Sound(tree, fresh) => Sound(tree, fresh)'
<1>1. Laid(tree', fresh') /\ Grown(tree, tree', n, par)
  BY GrownLaid DEF Standing
<1>2. Standing'
  BY <1>1 DEF Standing
<1>3. ASSUME NEW m \in Live(tree)
      PROVE  tree'.up[m] = tree.up[m] /\ tree'.val[m] = tree.val[m]
  <2>1. IsTree(tree) /\ n \in Nodes /\ n # Root
    BY DEF Standing, Laid
  <2>2. m \in Nodes /\ m # n
    <3>1. Live(tree) \subseteq Nodes
      BY <2>1, LiveSpec
    <3>2. m # Root => \E p \in Nodes : m \in ToSet(tree.kids[p])
      BY <2>1, <3>1, LiveSpec
    <3> QED BY <2>1, <3>1, <3>2 DEF Standing, Laid
  <2>3. DOMAIN tree.up = Nodes
    BY <2>1, TreeFields
  <2> QED BY <1>1, <2>2, <2>3 DEF Grown
<1>4. Touched
  BY <1>3 DEF Touched
<1>5. Sound(tree, fresh) => Sound(tree', fresh')
  BY <1>1, GrownSound DEF Standing
<1> QED BY <1>2, <1>4, <1>5

\* CreateStagedAs appends below a node that exists.
LEMMA CreateParentsExist ==
    ASSUME Standing, NEW req \in Creates
    PROVE  CreateParents(tree, req.parent) \subseteq Nodes \ fresh
<1>1. CASE req.parent = <<>>
  BY <1>1, NodesAssumption DEF CreateParents, Standing, Containers
<1>2. CASE req.parent # <<>>
  <2>1. IsExpression(req.parent)
    BY <1>2, RequestsAssumption
  <2>2. \A c \in ToSet(Evaluate(tree, req.parent)) : c \in Nodes /\ c \notin fresh
    BY <2>1, FoundSpec DEF Standing
  <2>3. CreateParents(tree, req.parent) \subseteq ToSet(Evaluate(tree, req.parent))
    BY <1>2 DEF CreateParents
  <2> QED BY <2>2, <2>3
<1> QED BY <1>1, <1>2

\* A Create.
LEMMA CreateStep ==
    ASSUME Standing, NEW req \in Creates, Create(req)
    PROVE  /\ Standing' /\ Touched
           /\ Sound(tree, fresh) => Sound(tree, fresh)'
           /\ reply'.gone = {} /\ (~ reply'.ok => tree' = tree)
<1> DEFINE n == CHOOSE m \in fresh : TRUE
           parents == CreateParents(tree, req.parent)
<1>1. n \in fresh
  BY DEF Create
<1>2. parents \subseteq Nodes \ fresh
  BY CreateParentsExist
<1>3. \/ reply' = [ok |-> FALSE, gone |-> {}] /\ UNCHANGED <<tree, fresh>>
      \/ /\ \E p \in parents : tree' = WithChild(tree, p, n, req.key, req.val)
         /\ fresh' = fresh \ {n} /\ reply' = [ok |-> TRUE, gone |-> {}]
  BY DEF Create
<1> HIDE DEF n, parents
<1>4. CASE reply' = [ok |-> FALSE, gone |-> {}] /\ UNCHANGED <<tree, fresh>>
  <2>1. tree' = tree /\ fresh' = fresh /\ reply'.gone = {}
    BY <1>4
  <2> QED BY <2>1 DEF Standing, Touched
<1>5. CASE /\ \E p \in parents : tree' = WithChild(tree, p, n, req.key, req.val)
           /\ fresh' = fresh \ {n} /\ reply' = [ok |-> TRUE, gone |-> {}]
  <2>1. PICK p \in parents : tree' = WithChild(tree, p, n, req.key, req.val)
    BY <1>5
  <2>2. reply'.ok = TRUE /\ reply'.gone = {}
    BY <1>5
  <2> QED BY <1>1, <1>2, <1>5, <2>1, <2>2, GrowStep
<1> QED BY <1>3, <1>4, <1>5

\* The server's own appending of results and errors.
LEMMA AppendStep ==
    ASSUME Standing, NEW par \in Containers, NEW key, NEW val, AppendUnder(par, key, val)
    PROVE  /\ Standing' /\ Touched
           /\ Sound(tree, fresh) => Sound(tree, fresh)'
           /\ reply'.gone = {} /\ reply'.ok
<1> DEFINE n == CHOOSE m \in fresh : TRUE
<1>1. /\ n \in fresh /\ tree' = WithChild(tree, par, n, key, val)
      /\ fresh' = fresh \ {n} /\ reply' = [ok |-> TRUE, gone |-> {}]
  BY DEF AppendUnder
<1> HIDE DEF n
<1>2. par \in Nodes \ fresh
  BY NodesAssumption DEF Standing, Containers
<1> QED BY <1>1, <1>2, GrowStep

\* A Set.
LEMMA SetStep ==
    ASSUME Standing, NEW edits \in Sets, Set(edits)
    PROVE  /\ Standing' /\ Touched /\ reply'.gone = {}
           /\ Sound(tree, fresh) /\ Steady(tree, edits) =>
                 Sound(tree, fresh)' /\ (~ reply'.ok => tree' = tree)
<1> DEFINE out == SetOutcome(tree, edits)
<1>1. /\ tree' = out.tree /\ fresh' = fresh /\ reply'.ok = out.ok /\ reply'.gone = {}
  BY DEF Set
<1>2. Root \notin fresh /\ Laid(tree, fresh) /\ IsTree(tree)
  BY DEF Standing, Laid
<1>3. /\ Laid(out.tree, fresh)
      /\ \A q \in Nodes : \/ out.tree.up[q] = tree.up[q]
                          \/ <<q, out.tree.up[q]>> \in Movable(tree)
      /\ \A q \in Nodes \ Writable(tree) : out.tree.val[q] = tree.val[q]
      /\ Sound(tree, fresh) /\ Steady(tree, edits) =>
            Sound(out.tree, fresh) /\ (~ out.ok => out.tree = tree)
  BY <1>2, SetOutcomeSpec
<1> HIDE DEF out
<1>4. Standing'
  BY <1>1, <1>3 DEF Standing
<1>5. Touched
  <2>1. Live(tree) \subseteq Nodes
    BY <1>2, LiveSpec
  <2> QED BY <1>1, <1>3, <2>1 DEF Touched, Movable, Writable
<1> QED BY <1>1, <1>3, <1>4, <1>5

\* removeChild only cuts links, and of a sound tree every link to a node.
LEMMA RemovedSpec ==
    ASSUME NEW t, IsTree(t), NEW gone, NEW u, u = RemoveChildren(t, gone)
    PROVE  /\ Pruned(t, u) /\ Neat(t, u) /\ u.val = t.val
           /\ Tied(t) => \A q \in Nodes : ToSet(u.kids[q]) = ToSet(t.kids[q]) \ gone
           /\ \A q \in Nodes : ToSet(t.kids[q]) \cap gone = {} => u.kids[q] = t.kids[q]
<1> DEFINE Removed(p, i) == /\ t.kids[p][i] \in gone /\ t.up[t.kids[p][i]] = p
                            /\ FirstListed(t, t.kids[p], i)
           I(p) == {i \in DOMAIN t.kids[p] : ~ Removed(p, i)}
           ls == [p \in Nodes |-> Picked(t.kids[p], I(p))]
<1>1. u = [t EXCEPT !.kids = ls]
  BY DEF RemoveChildren
<1>2. DOMAIN t = {"kids", "up", "val", "key"} /\ \A q \in Nodes : t.kids[q] \in Seq(Nodes)
  BY TreeFields
<1>3. \A q \in Nodes : ls[q] = Picked(t.kids[q], I(q))
  OBVIOUS
<1>4. ls = [q \in Nodes |-> ls[q]]
  OBVIOUS
<1> HIDE DEF ls
<1>5. /\ u.kids = ls /\ u.up = t.up /\ u.val = t.val /\ u.key = t.key
      /\ u = [kids |-> u.kids, up |-> u.up, val |-> u.val, key |-> u.key]
  BY <1>1, <1>2
<1> HIDE DEF I
<1>6. ASSUME NEW q \in Nodes
      PROVE  /\ ls[q] \in Seq(Nodes)
             /\ ToSet(ls[q]) \subseteq ToSet(t.kids[q])
             /\ \A c : c \in ToSet(ls[q]) <=>
                         \E i \in DOMAIN t.kids[q] : i \in I(q) /\ t.kids[q][i] = c
             /\ Once(t.kids[q]) => Once(ls[q])
  <2> DEFINE J == I(q)
             ks == t.kids[q]
  <2>1. ks \in Seq(Nodes) /\ ls[q] = Picked(ks, J)
    BY <1>2, <1>3
  <2> HIDE DEF J, ks
  <2>2. /\ Picked(ks, J) \in Seq(Nodes) /\ Elements(Picked(ks, J)) = {ks[i] : i \in J \cap DOMAIN ks}
        /\ Once(ks) => Once(Picked(ks, J))
    BY <2>1, PickSpec
  <2>3. ToSet(ls[q]) = {ks[i] : i \in J \cap DOMAIN ks}
    BY <2>1, <2>2, ToSetElements
  <2>4. ToSet(ks) = {ks[i] : i \in DOMAIN ks}
    BY DEF ToSet
  <2>5. /\ ToSet(ls[q]) \subseteq ToSet(ks)
        /\ \A c : c \in ToSet(ls[q]) <=> \E i \in DOMAIN ks : i \in J /\ ks[i] = c
    BY <2>3, <2>4
  <2> QED BY <2>1, <2>2, <2>5 DEF J, ks
<1>7. \A q \in Nodes : ToSet(ls[q]) \subseteq ToSet(t.kids[q])
  BY <1>6
<1>8. ls \in [Nodes -> Seq(Nodes)]
  BY <1>4, <1>6
<1>9. IsTree(u)
  BY <1>5, <1>8 DEF IsTree
<1>10. ASSUME Tied(t), NEW q \in Nodes PROVE ToSet(ls[q]) = ToSet(t.kids[q]) \ gone
  <2> DEFINE ks == t.kids[q]
  <2>0. ks \in Seq(Nodes) /\ Once(ks) /\ \A c \in ToSet(ks) : t.up[c] = q
    BY <1>2, <1>10 DEF Tied
  <2>1. ASSUME NEW i \in DOMAIN ks PROVE i \in I(q) <=> ks[i] \notin gone
    <3>1. ks[i] \in ToSet(ks) /\ DOMAIN ks = 1..Len(ks) /\ Len(ks) \in Nat
      BY <2>0, LenProperties DEF ToSet
    <3>2. t.up[ks[i]] = q
      BY <2>0, <3>1
    <3>3. IndexOf(ks, ks[i]) \in DOMAIN ks /\ ks[IndexOf(ks, ks[i])] = ks[i]
      <4> DEFINE c == ks[i]
      <4>1. c \in ToSet(ks)
        BY <3>1
      <4> HIDE DEF c, ks
      <4>2. IndexOf(ks, c) \in 0..Len(ks) /\ IndexOf(ks, c) # 0 /\ ks[IndexOf(ks, c)] = c
        BY <2>0, <4>1, IndexOfSpec
      <4> QED BY <3>1, <4>2 DEF c
    <3>4. FirstListed(t, ks, i)
      BY <2>0, <3>3 DEF Once, FirstListed
    <3> QED BY <3>2, <3>4 DEF I
  <2>2. /\ ToSet(ls[q]) \subseteq ToSet(ks)
        /\ \A c : c \in ToSet(ls[q]) <=> \E i \in DOMAIN ks : i \in I(q) /\ ks[i] = c
    BY <1>6
  <2>3. \A c : c \in ToSet(ks) <=> \E i \in DOMAIN ks : ks[i] = c
    BY DEF ToSet
  <2> HIDE DEF ks
  <2>4. ToSet(ls[q]) = ToSet(ks) \ gone
    BY <2>1, <2>2, <2>3
  <2> QED BY <2>4 DEF ks
<1>11. ASSUME NEW q \in Nodes, ToSet(t.kids[q]) \cap gone = {} PROVE ls[q] = t.kids[q]
  <2> DEFINE J == I(q)
             ks == t.kids[q]
  <2>1. ks \in Seq(Nodes) /\ ls[q] = Picked(ks, J)
    BY <1>2, <1>3
  <2>2. \A i \in DOMAIN ks : ks[i] \notin gone
    BY <1>11 DEF ToSet
  <2>3. DOMAIN ks \subseteq J
    BY <2>2 DEF I
  <2>4. DOMAIN ks = 1..Len(ks)
    BY <2>1, LenProperties
  <2> HIDE DEF J, ks
  <2>5. Picked(ks, J) = ks
    BY <2>1, <2>3, <2>4, PickAll
  <2> QED BY <2>1, <2>5 DEF ks
<1> QED BY <1>5, <1>6, <1>7, <1>9, <1>10, <1>11 DEF Pruned, Neat

\* What a Delete matches exists and is not the root.
LEMMA MatchedExist ==
    ASSUME NEW t, NEW F, Laid(t, F), NEW exprs \in Deletes
    PROVE  \A c \in Matched(t, exprs) : c \in Nodes /\ t.up[c] # NoNode
<1> SUFFICES ASSUME NEW c \in Matched(t, exprs) PROVE c \in Nodes /\ t.up[c] # NoNode
  OBVIOUS
<1>1. PICK i \in DOMAIN exprs : c \in ToSet(Evaluate(t, exprs[i]))
  BY DEF Matched
<1>2. IsExpression(exprs[i])
  BY RequestsAssumption
<1> QED BY <1>1, <1>2, FoundSpec

\* A Delete.
LEMMA DeleteStep ==
    ASSUME Standing, NEW exprs \in Deletes, Delete(exprs)
    PROVE  /\ Standing' /\ Touched
           /\ Sound(tree, fresh) => Sound(tree, fresh)' /\ reply'.gone \cap Live(tree') = {}
           /\ ~ reply'.ok => tree' = tree
<1> DEFINE gone == Matched(tree, exprs)
           ok == DeleteAllowed(tree, gone)
           u == RemoveChildren(tree, gone)
<1>1. /\ tree' = IF ok THEN u ELSE tree
      /\ reply' = [ok |-> ok, gone |-> IF ok THEN gone ELSE {}] /\ fresh' = fresh
  BY DEF Delete
<1>2. \A c \in gone : c \in Nodes /\ tree.up[c] # NoNode
  BY MatchedExist DEF Standing
<1> HIDE DEF gone, ok
<1>3. CASE ~ ok
  <2>1. tree' = tree /\ fresh' = fresh /\ reply'.gone = {}
    BY <1>1, <1>3
  <2> QED BY <2>1 DEF Standing, Touched
<1>4. CASE ok
  <2>1. tree' = u /\ fresh' = fresh /\ reply'.gone = gone /\ (reply'.ok <=> ok)
    BY <1>1, <1>4
  <2>2. IsTree(tree) /\ Laid(tree, fresh)
    BY DEF Standing, Laid
  <2>3. /\ Pruned(tree, u) /\ Neat(tree, u) /\ u.val = tree.val
        /\ Tied(tree) => \A q \in Nodes : ToSet(u.kids[q]) = ToSet(tree.kids[q]) \ gone
    BY <2>2, RemovedSpec
  <2> HIDE DEF u
  <2>4. Standing'
    BY <2>1, <2>2, <2>3, PrunedLaid DEF Standing
  <2>5. Touched
    BY <2>1, <2>3 DEF Touched, Pruned
  <2>6. ASSUME Sound(tree, fresh)
        PROVE  Sound(tree, fresh)' /\ reply'.gone \cap Live(tree') = {}
    <3>1. Sound(u, fresh)
      BY <2>3, <2>6, PrunedSound
    <3>2. Root \notin gone
      BY <1>2, <2>6 DEF Sound
    <3>3. Live(u) \subseteq Nodes /\ \A n \in Live(u) : n # Root =>
                                        \E p \in Live(u) : n \in ToSet(u.kids[p])
      <4>1. IsTree(u)
        BY <3>1 DEF Sound, Laid
      <4> QED BY <4>1, LiveSpec
    <3>4. \A q \in Nodes : ToSet(u.kids[q]) \cap gone = {}
      BY <2>3, <2>6 DEF Sound
    <3>5. gone \cap Live(u) = {}
      BY <3>2, <3>3, <3>4
    <3> QED BY <2>1, <3>1, <3>5
  <2> QED BY <1>4, <2>1, <2>4, <2>5, <2>6
<1> QED BY <1>3, <1>4

-----------------------------------------------------------------------------
(* What holds of every request.                                             *)

\* Every request leaves the tree standing and touches only what it may.
LEMMA EveryStep ==
    ASSUME Standing, [Next]_vars
    PROVE  Standing' /\ Touched
<1>1. CASE UNCHANGED vars
  <2>1. tree' = tree /\ fresh' = fresh
    BY <1>1 DEF vars
  <2> QED BY <2>1 DEF Standing, Touched
<1>2. ASSUME NEW req \in Creates, Create(req) PROVE Standing' /\ Touched
  BY <1>2, CreateStep
<1>3. ASSUME NEW edits \in Sets, Set(edits) PROVE Standing' /\ Touched
  BY <1>3, SetStep
<1>4. ASSUME NEW exprs \in Deletes, Delete(exprs) PROVE Standing' /\ Touched
  BY <1>4, DeleteStep
<1>5. CASE AppendUnder(QueryResults, "Query", CHOOSE v \in Vals : TRUE)
  BY <1>5, AppendStep DEF Containers
<1>6. CASE AppendUnder(Errors, "Error", CHOOSE v \in Vals : TRUE)
  BY <1>6, AppendStep DEF Containers
<1> QED BY <1>1, <1>2, <1>3, <1>4, <1>5, <1>6 DEF Next

\* Whatever the requests, a Set with knots among them: a listed node has been
\* created and has a Parent, and the nodes the server appends to exist.
THEOREM TreeStands == Spec => []Standing
<1>1. Init => Standing
  BY InitSound
<1>2. Standing /\ [Next]_vars => Standing'
  BY EveryStep
<1> QED BY <1>1, <1>2, PTL DEF Spec

\* A node moves only out of the session's staging area and only below a node
\* that may be written, and a value changes only where writing is allowed, by
\* every request there can be: SetAs plans before it applies, and neither the
\* application of several edits nor a rollback goes beyond the plan.
THEOREM MovesAndWritesAreAuthorized == Spec => MovesAndWritesAuthorized
<1>1. Standing /\ [Next]_vars => [Touched]_vars
  BY EveryStep
<1>2. Spec => []Standing
  BY TreeStands
<1>3. Spec => [][Touched]_vars
  BY <1>1, <1>2, PTL DEF Spec
<1> QED BY <1>3, PTL DEF MovesAndWritesAuthorized, Touched

-----------------------------------------------------------------------------
(* What holds if no Set ties a knot.                                        *)

\* The requests, without the Sets that tie a knot.
SteadyNext ==
    \/ \E req \in Creates : Create(req)
    \/ \E edits \in Sets : Steady(tree, edits) /\ Set(edits)
    \/ \E exprs \in Deletes : Delete(exprs)
    \/ AppendUnder(QueryResults, "Query", CHOOSE v \in Vals : TRUE)
    \/ AppendUnder(Errors, "Error", CHOOSE v \in Vals : TRUE)

SteadySpec == Init /\ [][SteadyNext]_vars

Intact == Standing /\ Sound(tree, fresh) /\ reply.gone \cap Live(tree) = {}

\* Every request without a knot keeps the tree intact; a refused one keeps it.
LEMMA SteadyStep ==
    ASSUME Intact, [SteadyNext]_vars
    PROVE  Intact' /\ [~ reply'.ok => tree' = tree]_vars
<1> DEFINE Fine == Intact' /\ (~ reply'.ok => tree' = tree)
<1>0. Standing /\ Sound(tree, fresh)
  BY DEF Intact
<1>1. CASE UNCHANGED vars
  <2>1. tree' = tree /\ fresh' = fresh /\ reply' = reply
    BY <1>1 DEF vars
  <2>2. Intact'
    BY <2>1 DEF Intact, Standing
  <2> QED BY <1>1, <2>2
<1>2. ASSUME NEW req \in Creates, Create(req) PROVE Fine
  BY <1>0, <1>2, CreateStep DEF Intact
<1>3. ASSUME NEW edits \in Sets, Steady(tree, edits), Set(edits) PROVE Fine
  BY <1>0, <1>3, SetStep DEF Intact
<1>4. ASSUME NEW exprs \in Deletes, Delete(exprs) PROVE Fine
  BY <1>0, <1>4, DeleteStep DEF Intact
<1>5. CASE AppendUnder(QueryResults, "Query", CHOOSE v \in Vals : TRUE)
  <2>1. Fine
    BY <1>0, <1>5, AppendStep DEF Intact, Containers
  <2> QED BY <2>1
<1>6. CASE AppendUnder(Errors, "Error", CHOOSE v \in Vals : TRUE)
  <2>1. Fine
    BY <1>0, <1>6, AppendStep DEF Intact, Containers
  <2> QED BY <2>1
<1> QED BY <1>1, <1>2, <1>3, <1>4, <1>5, <1>6 DEF SteadyNext

\* Children and Parent agree, without a cycle, and what was deleted is gone,
\* as long as no Set ties a knot: the invariant the theorems below rest on.
THEOREM TreeStaysSound == SteadySpec => []Intact
<1>1. Init => Intact
  BY InitSound DEF Intact
<1>2. Intact /\ [SteadyNext]_vars => Intact'
  BY SteadyStep
<1> QED BY <1>1, <1>2, PTL DEF SteadySpec

\* Children and Parent never drift apart: a live node is listed exactly once,
\* by the node its Parent names.
THEOREM TreeIsWellFormed == SteadySpec => []WellFormed
<1>1. Intact => WellFormed
  BY SoundWellFormed DEF Intact
<1> QED BY <1>1, TreeStaysSound, PTL

\* IsReachable, which decides which queries a request cancels, is exact.
THEOREM ReachabilityIsExact == SteadySpec => []ReachableIsExact
<1>1. Intact => ReachableIsExact
  BY SoundReachable DEF Intact, ReachableIsExact, Created
<1> QED BY <1>1, TreeStaysSound, PTL

\* The walks up the Parent pointers end.
THEOREM NoNodeAboveItself == SteadySpec => []NoParentCycle
<1>1. Intact => NoParentCycle
  BY EndsIsAcyclic DEF Intact, Sound, Laid, NoParentCycle
<1> QED BY <1>1, TreeStaysSound, PTL

\* What was deleted is not linked anywhere any more.
THEOREM DeletedStaysGone == SteadySpec => []DeletedIsGone
<1>1. Intact => DeletedIsGone
  BY DEF Intact, DeletedIsGone
<1> QED BY <1>1, TreeStaysSound, PTL

\* A request that is refused leaves the tree as it was, one that fails after
\* some of its edits were applied too.
THEOREM RefusedChangesNothing == SteadySpec => AllOrNothing
<1>1. Intact /\ [SteadyNext]_vars => [~ reply'.ok => tree' = tree]_vars
  BY SteadyStep
<1> QED BY <1>1, TreeStaysSound, PTL DEF SteadySpec, AllOrNothing

-----------------------------------------------------------------------------
(* What a request may drop.                                                 *)

\* Everything that leaves the tree may be deleted.
Kept(t, u) == \A n \in Live(t) \ Live(u) : May(t, "delete", n)

\* Only the child lists matter.
LEMMA SameKids ==
    ASSUME NEW t, NEW u, u.kids = t.kids
    PROVE  Live(u) = Live(t)
BY DEF Live, Below, Children

\* Dropping what may be deleted, with all beneath it.
LEMMA DropsKeep ==
    ASSUME NEW t, IsTree(t), NEW u, IsTree(u), NEW D \in SUBSET Nodes,
           Drops(t, u, D), DeleteAllowed(t, D)
    PROVE  Kept(t, u)
<1>1. D \subseteq Below(t, D) /\ Below(t, D) \in SUBSET Nodes /\ Closed(t, Below(t, D))
  BY BelowSpec
<1>2. \A q \in Nodes : ToSet(t.kids[q]) \subseteq ToSet(u.kids[q]) \cup Below(t, D) \cup Live(u)
  BY <1>1 DEF Drops
<1>3. Live(t) \subseteq Live(u) \cup Below(t, D)
  BY <1>1, <1>2, LiveEscape
<1> QED BY <1>3 DEF Kept, DeleteAllowed

\* A move drops nothing.
LEMMA MoveKeeps ==
    ASSUME NEW t, NEW F, Sound(t, F), NEW n \in Nodes, NEW p \in Live(t),
           p # n, ~ IsDescendant(t, n, p), NEW u, Relocated(t, u, n, p)
    PROVE  Live(t) \subseteq Live(u)
<1>1. IsTree(t) /\ IsTree(u) /\ Acyclic(t) /\ Tied(t) /\ NoNode \notin Nodes
  BY NodesAssumption DEF Sound, Laid, Relocated
<1>2. Live(t) \subseteq Nodes
  BY <1>1, LiveSpec
<1> DEFINE D == {x \in Nodes : x = n \/ IsDescendant(t, n, x)}
<1>3. Closed(t, D)
  <2>1. ASSUME NEW x \in D, NEW c \in ToSet(t.kids[x]) PROVE c \in D
    <3>1. c \in Nodes /\ t.up[c] = x /\ x # NoNode
      BY <1>1, KidsAreNodes DEF Tied
    <3> QED BY <1>1, <3>1, DescendantSpec
  <2> HIDE DEF D
  <2> QED BY <2>1 DEF Closed
<1>4. n \in D /\ D \in SUBSET Nodes /\ p \notin D
  OBVIOUS
<1> HIDE DEF D
<1>5. \A q \in Nodes : ToSet(t.kids[q]) \subseteq ToSet(u.kids[q]) \cup {n}
  BY DEF Relocated
<1>6. Live(t) \subseteq Live(u) \cup D
  <2>1. \A q \in Nodes : ToSet(t.kids[q]) \subseteq ToSet(u.kids[q]) \cup D \cup Live(u)
    BY <1>4, <1>5
  <2> QED BY <1>1, <1>3, <1>4, <2>1, LiveEscape
<1>7. n \in Live(u)
  <2>1. p \in Live(u) /\ Closed(u, Live(u))
    BY <1>1, <1>4, <1>6, LiveSpec
  <2> QED BY <2>1 DEF Relocated, Closed
<1>8. Live(t) \subseteq Live(u) \cup {}
  <2>1. \A q \in Nodes : ToSet(t.kids[q]) \subseteq ToSet(u.kids[q]) \cup {} \cup Live(u)
    BY <1>5, <1>7
  <2>2. Closed(t, {})
    BY DEF Closed
  <2> QED BY <1>1, <2>1, <2>2, LiveEscape
<1> QED BY <1>8

\* What the planning of an edit establishes about the nodes it drops or moves.
PlanKeeps(t, p) ==
    LET n == p.targets[1]
    IN  /\ p.edit.first # Keep => DeleteAllowed(t, DroppedByFirst(t, n, p.first))
        /\ p.edit.next # Keep => DeleteAllowed(t, DroppedByNext(t, n, p.next))
        /\ p.edit.parent # Keep => /\ p.parent \in Live(t)
                                   /\ p.parent # n /\ ~ IsDescendant(t, n, p.parent)

\* What the planning phase of SetAs consulted about drops and moves.
LEMMA PlanOfKeeps ==
    ASSUME NEW t, NEW F, Laid(t, F), NEW edits \in Sets, NEW i \in DOMAIN edits,
           PlanAccepted(t, edits[i])
    PROVE  PlanKeeps(t, PlanOf(t, edits[i]))
<1> DEFINE e == edits[i]
           p == PlanOf(t, e)
           n == Evaluate(t, e.target)[1]
           to == Evaluate(t, e.parent.expr)
<1>1. e.parent = Keep \/ Names(e.parent)
  BY RequestsAssumption
<1>2. /\ p.edit = e /\ p.targets[1] = n /\ p.first = Resolve(t, e.first)
      /\ p.next = Resolve(t, e.next) /\ p.parent = Resolve(t, e.parent)
  BY DEF PlanOf
<1> HIDE DEF p
<1>3. /\ IsStructural(e) => Resolves(t, e.parent)
      /\ e.first # Keep => DeleteAllowed(t, DroppedByFirst(t, n, Resolve(t, e.first)))
      /\ e.next # Keep => DeleteAllowed(t, DroppedByNext(t, n, Resolve(t, e.next)))
      /\ e.parent # Keep => ParentAccepted(t, n, Resolve(t, e.parent))
  BY DEF PlanAccepted, IsStructural
<1> HIDE DEF e, n
<1>4. ASSUME e.parent # Keep PROVE p.parent \in Live(t)
  <2>1. e.parent.kind = "to" /\ IsExpression(e.parent.expr) /\ IsStructural(e)
    BY <1>1, <1>4 DEF Names, IsStructural
  <2>2. Len(to) = 1 /\ p.parent = to[1]
    BY <1>2, <1>3, <2>1 DEF Resolves, Resolve
  <2>3. IsTree(t)
    BY DEF Laid
  <2>4. p.parent \in Children(t, Live(t))
    BY <2>1, <2>2, <2>3, EvaluateSpec
  <2>5. Closed(t, Live(t))
    BY <2>3, LiveSpec
  <2> QED BY <2>4, <2>5 DEF Children, Closed
<1>5. PlanKeeps(t, p)
  BY <1>2, <1>3, <1>4 DEF PlanKeeps, ParentAccepted
<1> QED BY <1>5 DEF p, e

\* The values and the keys do not matter.
LEMMA SameSound ==
    ASSUME NEW t, NEW F, Sound(t, F), NEW u, IsTree(u), u.kids = t.kids, u.up = t.up
    PROVE  Sound(u, F)
<1>1. Laid(u, F) /\ Tied(u)
  BY DEF Sound, Laid, Tied
<1>2. Acyclic(u) /\ u.up[Root] = NoNode /\ \A m \in Nodes : u.up[m] \notin F
  BY DEF Sound, Acyclic, Ranks
<1> QED BY <1>1, <1>2 DEF Sound

\* The edit changes one pointer at most.
OneOfThree(e) ==
    /\ e.first # Keep => e.next = Keep /\ e.parent = Keep
    /\ e.next # Keep => e.parent = Keep

\* An edit without a pointer leaves the structure alone.
LEMMA ValueEditSpec ==
    ASSUME NEW w, NEW t0, NEW M, NEW W, NEW F, IsWork(w, t0, M, W),
           NEW p, PlanFits(t0, p, F, M, W), ~ IsStructural(p.edit),
           NEW x, x = ApplyPlan(w, p)
    PROVE  x.t.kids = w.t.kids /\ x.t.up = w.t.up /\ x.ok = w.ok
<1> DEFINE a == ApplyValue(w, p)
<1>1. p.edit.first = Keep /\ p.edit.next = Keep /\ p.edit.parent = Keep
  BY DEF IsStructural
<1>2. Written(w, a)
  BY ApplyValueSpec DEF PlanFits
<1> HIDE DEF a
<1>3. ApplyFirst(a, p) = a /\ ApplyNext(a, p) = a /\ ApplyParent(a, p) = a
  <2>1. ApplyFirst(a, p) = a
    BY <1>1 DEF ApplyFirst
  <2>2. ApplyNext(a, p) = a
    BY <1>1 DEF ApplyNext
  <2>3. ApplyParent(a, p) = a
    BY <1>1 DEF ApplyParent
  <2> QED BY <2>1, <2>2, <2>3
<1>4. x = IF w.ok THEN ApplyParent(ApplyNext(ApplyFirst(a, p), p), p) ELSE w
  BY DEF ApplyPlan, a
<1> QED BY <1>2, <1>3, <1>4 DEF Written

\* The one relink of a Set drops what its plan was allowed to drop.
LEMMA RelinkKeeps ==
    ASSUME NEW w, NEW t0, NEW M, NEW W, NEW F, IsWork(w, t0, M, W),
           M \subseteq Nodes \X Nodes, Sound(t0, F),
           w.t.kids = t0.kids, w.t.up = t0.up,
           NEW p, PlanFits(t0, p, F, M, W), PlanKeeps(t0, p), OneOfThree(p.edit),
           IsStructural(p.edit), NEW x, x = ApplyPlan(w, p), x.ok
    PROVE  Kept(t0, x.t)
<1> DEFINE n == p.targets[1]
           a == ApplyValue(w, p)
           b == ApplyFirst(a, p)
           c == ApplyNext(b, p)
           d == ApplyParent(c, p)
<1>1. n \in Nodes /\ t0.up[n] # NoNode /\ IsTree(t0)
  BY DEF PlanFits, Sound, Laid
<1>2. IsWork(a, t0, M, W) /\ a.t.kids = t0.kids /\ a.t.up = t0.up
  BY ApplyValueSpec DEF PlanFits, Written
<1>3. x = IF w.ok THEN d ELSE w
  BY DEF ApplyPlan
<1>4. x = d
  BY <1>3
<1>5. IsTree(a.t) /\ Live(a.t) = Live(t0)
  BY <1>2, SameKids DEF IsWork, WorkTypes
<1> HIDE DEF a
<1>6. CASE p.edit.first # Keep
  <2>1. p.edit.next = Keep /\ p.edit.parent = Keep
    BY <1>6 DEF OneOfThree
  <2>2. d = b
    BY <2>1 DEF ApplyNext, ApplyParent
  <2>3. DroppedByFirst(a.t, n, p.first) = DroppedByFirst(t0, n, p.first)
    BY <1>2 DEF DroppedByFirst
  <2> DEFINE D == DroppedByFirst(t0, n, p.first)
  <2>4. IsWork(b, t0, M, W) /\ Drops(a.t, b.t, D)
    BY <1>1, <1>2, <1>6, <2>3, ApplyFirstSpec
  <2>5. IsTree(b.t) /\ Drops(t0, b.t, D)
    BY <1>2, <2>4 DEF IsWork, WorkTypes, Drops
  <2>6. D \in SUBSET Nodes /\ DeleteAllowed(t0, D)
    <3>1. DeleteAllowed(t0, D)
      BY <1>6 DEF PlanKeeps
    <3>2. t0.kids[n] \in Seq(Nodes) /\ ToSet(t0.kids[n]) \subseteq Nodes
      BY <1>1, KidsAreNodes
    <3>3. p.first # NoNode => D \subseteq Nodes
      <4>1. IndexOf(t0.kids[n], p.first) \in 0..Len(t0.kids[n]) /\ Len(t0.kids[n]) \in Nat
        BY <3>2, IndexOfSpec, LenProperties
      <4>2. \A i \in 1..(IndexOf(t0.kids[n], p.first) - 1) : t0.kids[n][i] \in Nodes
        BY <3>2, <4>1
      <4> QED BY <4>2 DEF DroppedByFirst
    <3>4. p.first = NoNode => D \subseteq Nodes
      BY <3>2 DEF DroppedByFirst
    <3> QED BY <3>1, <3>3, <3>4
  <2> HIDE DEF D, b
  <2> QED BY <1>1, <1>4, <2>2, <2>5, <2>6, DropsKeep
<1>7. CASE p.edit.next # Keep
  <2>1. p.edit.first = Keep /\ p.edit.parent = Keep
    BY <1>7 DEF OneOfThree
  <2>2. b = a /\ d = ApplyNext(a, p)
    BY <2>1 DEF ApplyFirst, ApplyParent
  <2>3. DroppedByNext(a.t, n, p.next) = DroppedByNext(t0, n, p.next)
    BY <1>2 DEF DroppedByNext
  <2> DEFINE D == DroppedByNext(t0, n, p.next)
  <2>4. IsWork(d, t0, M, W) /\ Drops(a.t, d.t, D)
    BY <1>1, <1>2, <1>7, <2>2, <2>3, ApplyNextSpec
  <2>5. IsTree(d.t) /\ Drops(t0, d.t, D)
    BY <1>2, <2>4 DEF IsWork, WorkTypes, Drops
  <2>6. D \in SUBSET Nodes /\ DeleteAllowed(t0, D)
    <3>1. DeleteAllowed(t0, D)
      BY <1>7 DEF PlanKeeps
    <3>2. D \in SUBSET Nodes
      <4>1. CASE t0.up[n] = NoNode
        BY <4>1 DEF DroppedByNext
      <4>2. CASE t0.up[n] # NoNode
        BY <1>1, <4>2, DroppedByNextSpec
      <4> QED BY <4>1, <4>2
    <3> QED BY <3>1, <3>2
  <2> HIDE DEF D, d
  <2> QED BY <1>1, <1>4, <2>5, <2>6, DropsKeep
<1>8. CASE p.edit.first = Keep /\ p.edit.next = Keep /\ p.edit.parent # Keep
  <2>1. c = a
    BY <1>8 DEF ApplyFirst, ApplyNext
  <2>2. d = ApplyParent(a, p)
    BY <2>1
  <2>3. /\ p.parent \in Nodes /\ <<n, p.parent>> \in M
        /\ p.parent \in Live(t0) /\ p.parent # n /\ ~ IsDescendant(t0, n, p.parent)
    BY <1>8 DEF PlanFits, PlanKeeps
  <2>4. IsWork(d, t0, M, W) /\ (d.t = a.t \/ Relocated(a.t, d.t, n, p.parent))
    BY <1>1, <1>2, <2>2, <2>3, ApplyParentSpec
  <2>5. Sound(a.t, F)
    BY <1>2, <1>5, SameSound
  <2>6. IsDescendant(a.t, n, p.parent) = IsDescendant(t0, n, p.parent)
    BY <1>2 DEF IsDescendant, Chain
  <2> HIDE DEF d, n
  <2>7. Live(a.t) \subseteq Live(d.t)
    BY <1>1, <1>5, <2>3, <2>4, <2>5, <2>6, MoveKeeps
  <2> QED BY <1>4, <1>5, <2>7 DEF Kept
<1> QED BY <1>6, <1>7, <1>8 DEF IsStructural

\* A Set with one relink at most, of one pointer.
OnePointer(edits) ==
    /\ \A i \in 1..Len(edits) : OneOfThree(edits[i])
    /\ \A i, j \in 1..Len(edits) :
          IsStructural(edits[i]) /\ IsStructural(edits[j]) => i = j

\* A Set of one relink drops only what may be deleted.
LEMMA SetKeeps ==
    ASSUME NEW t, NEW F, Root \notin F, Sound(t, F), NEW edits \in Sets,
           OnePointer(edits), NEW out, out = SetOutcome(t, edits)
    PROVE  Kept(t, out.tree)
<1> DEFINE k == Len(edits)
           f == Progress(t, edits)
           M == Movable(t)
           W == Writable(t)
           Same(w) == w.t.kids = t.kids /\ w.t.up = t.up
           Done(i) == \E j \in 1..i : IsStructural(edits[j])
           Good(i) == f[i].ok => IF Done(i) THEN Kept(t, f[i].t) ELSE Same(f[i])
           P == {i \in Nat : i <= k => Good(i)}
<1>1. Laid(t, F) /\ IsTree(t) /\ M \subseteq Nodes \X Nodes
  BY DEF Sound, Laid, Movable
<1>2. CASE ~ Accepted(t, edits)
  <2>1. out.tree = t
    BY <1>2 DEF SetOutcome
  <2> QED BY <2>1 DEF Kept
<1>3. CASE Accepted(t, edits)
  <2>1. k \in Nat /\ DOMAIN edits = 1..k
    BY RequestsAssumption
  <2>2. /\ f[0] = StartWork(t)
        /\ \A i \in 1..k : f[i] = ApplyPlan(f[i-1], PlanOf(t, edits[i]))
    BY <2>1, ProgressSpec
  <2>3. \A i \in 0..k : IsWork(f[i], t, M, W)
    BY <1>1, <1>3, ProgressWorks
  <2>4. \A i \in 1..k : /\ PlanFits(t, PlanOf(t, edits[i]), F, M, W)
                        /\ PlanKeeps(t, PlanOf(t, edits[i]))
                        /\ PlanOf(t, edits[i]).edit = edits[i]
    <3>1. ASSUME NEW i \in 1..k
          PROVE  /\ PlanFits(t, PlanOf(t, edits[i]), F, M, W)
                 /\ PlanKeeps(t, PlanOf(t, edits[i]))
      BY <1>1, <1>3, <2>1, PlanOfFits, PlanOfKeeps DEF Accepted
    <3>2. \A i \in 1..k : PlanOf(t, edits[i]).edit = edits[i]
      BY DEF PlanOf
    <3> QED BY <3>1, <3>2
  <2>5. out = [ok |-> f[k].ok, tree |-> IF f[k].ok THEN f[k].t ELSE Rollback(f[k])]
    BY <1>3 DEF SetOutcome, Settle
  <2> HIDE DEF f, M, W
  <2>6. 0 \in P
    <3>1. f[0].t = t /\ ~ Done(0)
      BY <1>1, <2>2, StartSpec
    <3> QED BY <3>1
  <2>7. ASSUME NEW i \in Nat, i \in P PROVE i + 1 \in P
    <3> SUFFICES ASSUME i + 1 <= k, f[i+1].ok
                 PROVE  IF Done(i+1) THEN Kept(t, f[i+1].t) ELSE Same(f[i+1])
      OBVIOUS
    <3>1. i + 1 \in 1..k /\ (i + 1) - 1 = i /\ i \in 0..k /\ i <= k
      BY <2>1
    <3> DEFINE p == PlanOf(t, edits[i+1])
               w == f[i]
               x == f[i+1]
    <3>2. /\ x = ApplyPlan(w, p) /\ IsWork(w, t, M, W) /\ p.edit = edits[i+1]
          /\ PlanFits(t, p, F, M, W) /\ PlanKeeps(t, p)
      BY <2>2, <2>3, <2>4, <3>1
    <3>3. Done(i+1) <=> Done(i) \/ IsStructural(edits[i+1])
      <4>1. \A j : j \in 1..(i+1) <=> j \in 1..i \/ j = i + 1
        OBVIOUS
      <4> QED BY <4>1
    <3>4. w.ok
      BY <3>2 DEF ApplyPlan
    <3>5. IF Done(i) THEN Kept(t, w.t) ELSE Same(w)
      BY <2>7, <3>1, <3>4
    <3>6. IsStructural(edits[i+1]) => OneOfThree(edits[i+1]) /\ ~ Done(i)
      <4>1. \A j \in 1..i : j \in 1..k /\ j # i + 1
        BY <3>1, <2>1
      <4> QED BY <3>1, <4>1 DEF OnePointer
    <3> HIDE DEF p, w, x, Done
    <3>7. CASE IsStructural(edits[i+1])
      <4>1. Kept(t, x.t)
        <5>1. Same(w)
          BY <3>5, <3>6, <3>7
        <5>2. x.ok
          BY DEF x
        <5> QED BY <1>1, <3>2, <3>6, <3>7, <5>1, <5>2, RelinkKeeps
      <4> QED BY <3>3, <3>7, <4>1 DEF x
    <3>8. CASE ~ IsStructural(edits[i+1])
      <4>1. x.t.kids = w.t.kids /\ x.t.up = w.t.up
        BY <3>2, <3>8, ValueEditSpec
      <4>2. Live(x.t) = Live(w.t)
        BY <4>1, SameKids
      <4>3. IF Done(i) THEN Kept(t, x.t) ELSE Same(x)
        BY <3>5, <4>1, <4>2 DEF Kept
      <4> QED BY <3>3, <3>8, <4>3 DEF x
    <3> QED BY <3>7, <3>8
  <2> HIDE DEF P, Good
  <2>8. Nat \subseteq P
    BY <2>6, <2>7, NatSetInduction
  <2>9. Good(k)
    BY <2>1, <2>8 DEF P
  <2>10. CASE f[k].ok
    <3>1. out.tree = f[k].t
      BY <2>5, <2>10
    <3>2. Same(f[k]) => Live(f[k].t) = Live(t)
      BY SameKids
    <3>3. Kept(t, f[k].t)
      BY <2>9, <2>10, <3>2 DEF Good, Kept
    <3> QED BY <3>1, <3>3
  <2>11. CASE ~ f[k].ok
    <3>1. out.tree = Rollback(f[k])
      BY <2>5, <2>11
    <3>2. k \in 0..k
      BY <2>1
    <3>3. Rollback(f[k]).kids = t.kids
      BY <1>1, <2>3, <3>2, RollbackSpec
    <3>4. Live(out.tree) = Live(t)
      BY <3>1, <3>3, SameKids
    <3> QED BY <3>4 DEF Kept
  <2> QED BY <2>10, <2>11
<1> QED BY <1>2, <1>3

\* A new node drops nothing.
LEMMA GrowthKeeps ==
    ASSUME NEW t, NEW F, Laid(t, F), F \subseteq Nodes, NEW n \in F,
           NEW par \in Nodes \ F, NEW key, NEW val
    PROVE  Kept(t, WithChild(t, par, n, key, val))
<1> DEFINE u == WithChild(t, par, n, key, val)
<1>1. Grown(t, u, n, par)
  BY GrownLaid
<1> HIDE DEF u
<1>2. IsTree(t) /\ IsTree(u)
  BY <1>1 DEF Laid, Grown
<1>3. \A q \in Nodes : ToSet(t.kids[q]) \subseteq ToSet(u.kids[q]) \cup {} \cup Live(u)
  BY <1>1 DEF Grown
<1>4. Closed(t, {})
  BY DEF Closed
<1>5. Live(t) \subseteq Live(u) \cup {}
  BY <1>2, <1>3, <1>4, LiveEscape
<1>6. Kept(t, u)
  BY <1>5 DEF Kept
<1> QED BY <1>6 DEF u

\* A Delete drops what it was allowed to delete.
LEMMA DeleteKeeps ==
    ASSUME NEW t, IsTree(t), Tied(t), NEW gone, gone \subseteq Nodes, DeleteAllowed(t, gone)
    PROVE  Kept(t, RemoveChildren(t, gone))
<1> DEFINE u == RemoveChildren(t, gone)
<1>1. IsTree(u) /\ \A q \in Nodes : ToSet(u.kids[q]) = ToSet(t.kids[q]) \ gone
  BY RemovedSpec DEF Pruned
<1> HIDE DEF u
<1>2. Drops(t, u, gone)
  BY <1>1 DEF Drops
<1>3. Kept(t, u)
  BY <1>1, <1>2, DropsKeep
<1> QED BY <1>3 DEF u

-----------------------------------------------------------------------------
(* What holds if, besides, every Set changes one pointer at most.           *)

PlainNext ==
    \/ \E req \in Creates : Create(req)
    \/ \E edits \in Sets : Steady(tree, edits) /\ OnePointer(edits) /\ Set(edits)
    \/ \E exprs \in Deletes : Delete(exprs)
    \/ AppendUnder(QueryResults, "Query", CHOOSE v \in Vals : TRUE)
    \/ AppendUnder(Errors, "Error", CHOOSE v \in Vals : TRUE)

PlainSpec == Init /\ [][PlainNext]_vars

\* What a step keeps: places, keys, and what may not be deleted.
Careful == Steadfast(tree, tree', fresh) /\ Kept(tree, tree') /\ fresh' \subseteq fresh

\* A new node disturbs nothing.
LEMMA GrowCareful ==
    ASSUME Standing, NEW n \in fresh, NEW par \in Nodes \ fresh, NEW key, NEW val,
           tree' = WithChild(tree, par, n, key, val), fresh' = fresh \ {n}
    PROVE  Careful
<1>1. Grown(tree, tree', n, par)
  BY GrownLaid DEF Standing
<1>2. Kept(tree, tree')
  BY GrowthKeeps DEF Standing
<1>3. Steadfast(tree, tree', fresh)
  <2>1. n \in Nodes /\ DOMAIN tree.up = Nodes
    BY TreeFields DEF Standing, Laid
  <2> QED BY <1>1, <2>1 DEF Steadfast, Grown
<1> QED BY <1>2, <1>3 DEF Careful

\* Every plain request is careful.
LEMMA PlainStep ==
    ASSUME Intact, [PlainNext]_vars
    PROVE  Careful
<1>0. Standing /\ Sound(tree, fresh) /\ IsTree(tree) /\ Tied(tree) /\ Root \notin fresh
  BY DEF Intact, Standing, Sound, Laid
<1>1. ASSUME tree' = tree, fresh' = fresh PROVE Careful
  BY <1>1 DEF Careful, Steadfast, Kept
<1>2. CASE UNCHANGED vars
  BY <1>1, <1>2 DEF vars
<1>3. ASSUME NEW req \in Creates, Create(req) PROVE Careful
  <2> DEFINE n == CHOOSE m \in fresh : TRUE
  <2>1. n \in fresh
    BY <1>3 DEF Create
  <2>2. \/ UNCHANGED <<tree, fresh>>
        \/ /\ \E p \in CreateParents(tree, req.parent) :
                 tree' = WithChild(tree, p, n, req.key, req.val)
           /\ fresh' = fresh \ {n}
    BY <1>3 DEF Create
  <2> HIDE DEF n
  <2>3. CASE UNCHANGED <<tree, fresh>>
    BY <1>1, <2>3
  <2>4. ASSUME NEW p \in CreateParents(tree, req.parent),
               tree' = WithChild(tree, p, n, req.key, req.val), fresh' = fresh \ {n}
        PROVE  Careful
    BY <1>0, <2>1, <2>4, CreateParentsExist, GrowCareful
  <2> QED BY <2>2, <2>3, <2>4
<1>4. ASSUME NEW edits \in Sets, OnePointer(edits), Set(edits) PROVE Careful
  <2> DEFINE out == SetOutcome(tree, edits)
  <2>1. tree' = out.tree /\ fresh' = fresh
    BY <1>4 DEF Set
  <2>2. Kept(tree, out.tree)
    BY <1>0, <1>4, SetKeeps
  <2>3. /\ out.tree.key = tree.key
        /\ \A q \in Nodes : \/ out.tree.up[q] = tree.up[q]
                            \/ <<q, out.tree.up[q]>> \in Movable(tree)
    BY <1>0, SetOutcomeSpec DEF Standing
  <2> HIDE DEF out
  <2> QED BY <2>1, <2>2, <2>3 DEF Careful, Steadfast, Movable
<1>5. ASSUME NEW exprs \in Deletes, Delete(exprs) PROVE Careful
  <2> DEFINE gone == Matched(tree, exprs)
             ok == DeleteAllowed(tree, gone)
             u == RemoveChildren(tree, gone)
  <2>1. tree' = (IF ok THEN u ELSE tree) /\ fresh' = fresh
    BY <1>5 DEF Delete
  <2>2. gone \subseteq Nodes
    BY <1>0, MatchedExist DEF Standing
  <2> HIDE DEF gone
  <2>3. ok => Kept(tree, u) /\ u.up = tree.up /\ u.key = tree.key
    BY <1>0, <2>2, DeleteKeeps, RemovedSpec DEF Pruned
  <2> HIDE DEF ok, u
  <2>4. CASE ok
    BY <2>1, <2>3, <2>4 DEF Careful, Steadfast
  <2> QED BY <1>1, <2>1, <2>4
<1>6. ASSUME NEW par \in Containers, NEW key, NEW val, AppendUnder(par, key, val)
      PROVE  Careful
  <2> DEFINE n == CHOOSE m \in fresh : TRUE
  <2>1. n \in fresh /\ tree' = WithChild(tree, par, n, key, val) /\ fresh' = fresh \ {n}
    BY <1>6 DEF AppendUnder
  <2> HIDE DEF n
  <2>2. par \in Nodes \ fresh
    BY <1>0, NodesAssumption DEF Standing, Containers
  <2> QED BY <1>0, <2>1, <2>2, GrowCareful
<1>7. QueryResults \in Containers /\ Errors \in Containers
  BY DEF Containers
<1> QED BY <1>2, <1>3, <1>4, <1>5, <1>6, <1>7 DEF PlainNext

\* Nothing leaves the tree that its path's rules do not allow to delete,
\* whichever request drops it and however deep it lies: what a relink drops
\* and what lies below it was consulted when the Set was planned.
THEOREM DropsWereAuthorized == PlainSpec => DropsAreAuthorized
<1>1. Init => Intact
  BY InitSound DEF Intact
<1>2. Intact /\ [PlainNext]_vars => Intact'
  <2>1. [PlainNext]_vars => [SteadyNext]_vars
    BY DEF PlainNext, SteadyNext
  <2> QED BY <2>1, SteadyStep
<1>3. Intact /\ [PlainNext]_vars => [Kept(tree, tree')]_vars
  BY PlainStep DEF Careful
<1>4. PlainSpec => [][Kept(tree, tree')]_vars
  BY <1>1, <1>2, <1>3, PTL DEF PlainSpec
<1> QED BY <1>4, PTL DEF DropsAreAuthorized, Kept

-----------------------------------------------------------------------------
(* The nodes of other sessions.                                             *)

\* A node's path is its Parent's with its own key.
LEMMA PathSpec ==
    ASSUME NEW t, IsTree(t), Acyclic(t), NEW n \in Nodes,
           NEW K, K = {t.key[m] : m \in Nodes}
    PROVE  /\ NodePath(t, n) \in Seq(K)
           /\ t.up[n] = NoNode => NodePath(t, n) = <<>>
           /\ t.up[n] # NoNode =>
                 /\ NodePath(t, t.up[n]) \in Seq(K)
                 /\ NodePath(t, n) = Append(NodePath(t, t.up[n]), t.key[n])
<1> DEFINE T(m) == Tail(Chain(t, m))
<1>1. ASSUME NEW m \in Nodes
      PROVE  /\ T(m) \in Seq(Nodes) /\ Len(T(m)) \in Nat
             /\ NodePath(t, m) = [i \in 1..Len(T(m)) |-> t.key[T(m)[i]]]
             /\ NodePath(t, m) \in Seq(K) /\ Len(NodePath(t, m)) = Len(T(m))
  <2>1. Chain(t, m) \in Seq(Nodes) /\ Chain(t, m) # <<>>
    BY ChainShape, EmptySeq
  <2>2. T(m) \in Seq(Nodes)
    BY <2>1, HeadTailProperties
  <2>3. NodePath(t, m) = [i \in 1..Len(T(m)) |-> t.key[T(m)[i]]]
    BY DEF NodePath
  <2> HIDE DEF T
  <2>4. Len(T(m)) \in Nat /\ \A i \in 1..Len(T(m)) : T(m)[i] \in Nodes
    BY <2>2, LenProperties
  <2>5. \A i \in 1..Len(T(m)) : t.key[T(m)[i]] \in K
    BY <2>4
  <2> QED BY <2>2, <2>3, <2>4, <2>5
<1>2. CASE t.up[n] = NoNode
  <2>1. Chain(t, n) = <<n>>
    BY <1>2, ChainSpec
  <2>2. Len(<<n>>) = 1 /\ <<n>> \in Seq(Nodes) /\ <<n>> # <<>>
    OBVIOUS
  <2>3. Len(T(n)) = 0
    BY <2>1, <2>2, HeadTailProperties
  <2>4. NodePath(t, n) \in Seq(K) /\ Len(NodePath(t, n)) = 0
    BY <1>1, <2>3
  <2>5. NodePath(t, n) = <<>>
    BY <2>4, EmptySeq
  <2> QED BY <1>2, <2>4, <2>5
<1>3. CASE t.up[n] # NoNode
  <2> DEFINE p == t.up[n]
             c == Chain(t, p)
             d == Append(c, n)
             k == Len(T(p))
             a == NodePath(t, p)
             b == NodePath(t, n)
  <2>1. p \in Nodes /\ Chain(t, n) = d
    BY <1>3, ChainSpec
  <2>2. c \in Seq(Nodes) /\ c # <<>> /\ Len(c) \in Nat \ {0}
    BY <2>1, ChainShape, EmptySeq
  <2>3. T(n) = Tail(d) /\ T(p) = Tail(c)
    BY <2>1
  <2> HIDE DEF c
  <2>4. /\ d \in Seq(Nodes) /\ Len(d) = Len(c) + 1 /\ d[Len(c) + 1] = n
        /\ \A i \in 1..Len(c) : d[i] = c[i]
    BY <2>2, AppendProperties
  <2> HIDE DEF d
  <2>5. d # <<>>
    BY <2>2, <2>4
  <2>6. /\ Tail(c) \in Seq(Nodes) /\ Len(Tail(c)) = Len(c) - 1
        /\ \A i \in 1..Len(Tail(c)) : Tail(c)[i] = c[i+1]
    BY <2>2, HeadTailProperties
  <2>7. /\ Tail(d) \in Seq(Nodes) /\ Len(Tail(d)) = Len(d) - 1
        /\ \A i \in 1..Len(Tail(d)) : Tail(d)[i] = d[i+1]
    BY <2>4, <2>5, HeadTailProperties
  <2> HIDE DEF T
  <2>8. /\ k \in Nat /\ k + 1 = Len(c) /\ Len(T(n)) = k + 1 /\ T(n)[k+1] = n
        /\ \A i \in 1..k : T(n)[i] = T(p)[i]
    <3>1. k = Len(c) - 1 /\ Len(T(n)) = Len(c)
      BY <2>2, <2>3, <2>4, <2>6, <2>7
    <3>2. Len(c) \in 1..Len(c) /\ T(n)[Len(c)] = d[Len(c) + 1]
      BY <2>2, <2>3, <2>7, <3>1
    <3>3. \A i \in 1..k : i \in 1..Len(c) /\ i + 1 \in 1..Len(c)
      BY <2>2, <3>1
    <3> QED BY <2>2, <2>3, <2>4, <2>6, <2>7, <3>1, <3>2, <3>3
  <2>9. /\ a \in Seq(K) /\ Len(a) = k /\ a = [i \in 1..k |-> t.key[T(p)[i]]]
        /\ b \in Seq(K) /\ Len(b) = k + 1
        /\ b = [i \in 1..(k + 1) |-> t.key[T(n)[i]]]
    BY <1>1, <2>1, <2>8
  <2> HIDE DEF a, b, k
  <2>10. b = Append(a, t.key[n])
    <3> DEFINE e == Append(a, t.key[n])
    <3>1. t.key[n] \in K
      OBVIOUS
    <3>a. a \in Seq(K) /\ Len(a) = k /\ k \in Nat
      BY <2>8, <2>9
    <3>2. /\ e \in Seq(K) /\ Len(e) = k + 1 /\ e[k+1] = t.key[n]
          /\ \A i \in 1..k : e[i] = a[i]
      BY <3>1, <3>a, AppendProperties
    <3> HIDE DEF e
    <3>3. \A i \in 1..(k+1) : b[i] = e[i]
      <4> SUFFICES ASSUME NEW i \in 1..(k+1) PROVE b[i] = e[i]
        OBVIOUS
      <4>1. i \in 1..k \/ i = k + 1
        BY <2>8
      <4> QED BY <2>8, <2>9, <3>2, <4>1
    <3>4. b = e
      BY <2>9, <3>2, <3>3, SeqEqual
    <3> QED BY <3>4 DEF e
  <2> QED BY <1>3, <2>9, <2>10 DEF a, b
<1> QED BY <1>2, <1>3

\* In another session's subtree; the node /Sessions itself; the node of this
\* session right below it.
Foreign(t, n) ==
    LET path == NodePath(t, n)
    IN  InSessions(path) /\ Len(path) > 1 /\ path[2] # OwnSession
AtSessions(t, n) ==
    LET path == NodePath(t, n)
    IN  InSessions(path) /\ Len(path) = 1
AtOwn(t, n) ==
    LET path == NodePath(t, n)
    IN  InSessions(path) /\ Len(path) = 2 /\ path[2] = OwnSession
Walled(t, n) == Foreign(t, n) \/ AtSessions(t, n) \/ AtOwn(t, n)

\* Where a node is follows from where its Parent is.
LEMMA PlaceSpec ==
    ASSUME NEW t, IsTree(t), Acyclic(t), NEW n \in Nodes
    PROVE  /\ t.up[n] = NoNode => ~ Walled(t, n)
           /\ t.up[n] # NoNode =>
                 /\ AtSessions(t, n) <=> t.up[t.up[n]] = NoNode /\ t.key[n] = "Sessions"
                 /\ Foreign(t, n) <=> \/ Foreign(t, t.up[n])
                                      \/ AtSessions(t, t.up[n]) /\ t.key[n] # OwnSession
                 /\ AtOwn(t, n) <=> AtSessions(t, t.up[n]) /\ t.key[n] = OwnSession
<1> DEFINE K == {t.key[m] : m \in Nodes}
           b == NodePath(t, n)
           a == NodePath(t, t.up[n])
<1>1. CASE t.up[n] = NoNode
  <2>1. b = <<>>
    BY <1>1, PathSpec
  <2> QED BY <1>1, <2>1 DEF Walled, Foreign, AtSessions, AtOwn, InSessions
<1>2. CASE t.up[n] # NoNode
  <2> DEFINE k == Len(a)
             key == t.key[n]
  <2>1. a \in Seq(K) /\ b = Append(a, key) /\ key \in K
    BY <1>2, PathSpec
  <2>2. t.up[n] \in Nodes
    BY <1>2, TreeFields
  <2>3. k = 0 <=> t.up[t.up[n]] = NoNode
    <3> DEFINE p == t.up[n]
               q == t.up[p]
               z == NodePath(t, q)
    <3>1. q = NoNode => k = 0
      <4>1. q = NoNode => a = <<>>
        BY <2>2, PathSpec
      <4> QED BY <4>1
    <3>2. CASE q # NoNode
      <4>1. z \in Seq(K) /\ a = Append(z, t.key[p]) /\ t.key[p] \in K
        BY <2>2, <3>2, PathSpec
      <4> HIDE DEF z
      <4>2. Len(z) \in Nat /\ Len(a) = Len(z) + 1
        BY <4>1, LenProperties, AppendProperties
      <4> QED BY <3>2, <4>2
    <3> QED BY <3>1, <3>2
  <2> HIDE DEF a, K, key
  <2>4. /\ k \in Nat /\ Len(b) = k + 1 /\ b[k+1] = key
        /\ \A i \in 1..k : b[i] = a[i]
    BY <2>1, LenProperties, AppendProperties
  <2> HIDE DEF b
  <2>5. b # <<>> /\ (a # <<>> <=> k # 0)
    BY <2>1, <2>4, EmptySeq
  <2> HIDE DEF k
  <2>6. InSessions(b) <=> IF k = 0 THEN key = "Sessions" ELSE InSessions(a)
    <3>1. CASE k = 0
      <4>1. b[1] = key
        BY <2>4, <3>1
      <4> QED BY <2>5, <3>1, <4>1 DEF InSessions
    <3>2. CASE k # 0
      <4>1. 1 \in 1..k
        BY <2>4, <3>2
      <4> QED BY <2>4, <2>5, <3>2, <4>1 DEF InSessions
    <3> QED BY <3>1, <3>2
  <2>7. AtSessions(t, n) <=> k = 0 /\ key = "Sessions"
    <3>1. AtSessions(t, n) <=> InSessions(b) /\ Len(b) = 1
      BY DEF AtSessions, b
    <3>2. Len(b) = 1 <=> k = 0
      BY <2>4
    <3> QED BY <2>6, <3>1, <3>2
  <2>8. Foreign(t, n) <=> \/ Foreign(t, t.up[n])
                          \/ AtSessions(t, t.up[n]) /\ key # OwnSession
    <3>1. Foreign(t, n) <=> InSessions(b) /\ Len(b) > 1 /\ b[2] # OwnSession
      BY DEF Foreign, b
    <3>2. Foreign(t, t.up[n]) <=> InSessions(a) /\ k > 1 /\ a[2] # OwnSession
      BY DEF Foreign, a, k
    <3>3. AtSessions(t, t.up[n]) <=> InSessions(a) /\ k = 1
      BY DEF AtSessions, a, k
    <3>4. CASE k = 0
      <4>1. ~ (Len(b) > 1) /\ ~ (k > 1) /\ k # 1
        BY <2>4, <3>4
      <4> QED BY <3>1, <3>2, <3>3, <4>1
    <3>5. CASE k = 1
      <4>1. b[2] = key /\ Len(b) > 1 /\ ~ (k > 1) /\ k # 0
        BY <2>4, <3>5
      <4> QED BY <2>6, <3>1, <3>2, <3>3, <3>5, <4>1
    <3>6. CASE k > 1
      <4>1. 2 \in 1..k /\ Len(b) > 1 /\ k # 1 /\ k # 0
        BY <2>4, <3>6
      <4> QED BY <2>4, <2>6, <3>1, <3>2, <3>3, <3>6, <4>1
    <3>7. k = 0 \/ k = 1 \/ k > 1
      BY <2>4
    <3> QED BY <3>4, <3>5, <3>6, <3>7
  <2>9. AtOwn(t, n) <=> AtSessions(t, t.up[n]) /\ key = OwnSession
    <3>1. AtOwn(t, n) <=> InSessions(b) /\ Len(b) = 2 /\ b[2] = OwnSession
      BY DEF AtOwn, b
    <3>2. AtSessions(t, t.up[n]) <=> InSessions(a) /\ k = 1
      BY DEF AtSessions, a, k
    <3>3. Len(b) = 2 <=> k = 1
      BY <2>4
    <3>4. k = 1 => b[2] = key
      BY <2>4
    <3> QED BY <2>6, <3>1, <3>2, <3>3, <3>4
  <2> QED BY <1>2, <2>3, <2>7, <2>8, <2>9 DEF k, key
<1> QED BY <1>1, <1>2

\* No policy lets a session write or delete what is walled, or anything right
\* below it: its own containers neither.
LEMMA WalledSpec ==
    ASSUME NEW t, IsTree(t), Acyclic(t), NEW n \in Nodes
    PROVE  /\ Walled(t, n) => ~ May(t, "write", n) /\ ~ May(t, "delete", n)
           /\ t.up[n] # NoNode /\ Walled(t, t.up[n]) =>
                 ~ May(t, "write", n) /\ ~ May(t, "delete", n)
<1> DEFINE K == {t.key[m] : m \in Nodes}
           b == NodePath(t, n)
           a == NodePath(t, t.up[n])
<1>1. ASSUME Walled(t, n) PROVE ~ May(t, "write", n) /\ ~ May(t, "delete", n)
  <2>1. InSessions(b) /\ (Len(b) = 1 \/ Len(b) = 2 \/ b[2] # OwnSession)
    BY <1>1 DEF Walled, Foreign, AtSessions, AtOwn
  <2>2. b \in Seq(K)
    BY PathSpec
  <2> HIDE DEF b, K
  <2>3. Len(b) \in Nat
    BY <2>2, LenProperties
  <2>4. ~ SessionRule("write", b) /\ ~ SessionRule("delete", b)
    BY <2>1, <2>3 DEF SessionRule
  <2> QED BY <2>1, <2>4 DEF May, Allowed, b
<1>2. ASSUME t.up[n] # NoNode, AtSessions(t, t.up[n]) \/ AtOwn(t, t.up[n])
      PROVE  ~ May(t, "write", n) /\ ~ May(t, "delete", n)
  <2>1. a \in Seq(K) /\ b = Append(a, t.key[n]) /\ t.key[n] \in K
    BY <1>2, PathSpec
  <2>2. InSessions(a) /\ Len(a) \in 1..2
    BY <1>2 DEF AtSessions, AtOwn
  <2> HIDE DEF a, b, K
  <2>3. (Len(b) = 2 \/ Len(b) = 3) /\ b[1] = a[1]
    <3> DEFINE key == t.key[n]
    <3>1. key \in K /\ b = Append(a, key) /\ a \in Seq(K)
      BY <2>1
    <3> HIDE DEF key
    <3>2. /\ Len(Append(a, key)) = Len(a) + 1
          /\ \A i \in 1..Len(a) : Append(a, key)[i] = a[i]
      BY <3>1, AppendProperties
    <3> QED BY <2>2, <3>1, <3>2
  <2>4. b # <<>>
    <3>1. Len(<<>>) = 0
      OBVIOUS
    <3> QED BY <2>3, <3>1
  <2>5. InSessions(b)
    BY <2>2, <2>3, <2>4 DEF InSessions
  <2>6. ~ SessionRule("write", b) /\ ~ SessionRule("delete", b)
    <3>1. \A l : l = 2 \/ l = 3 => ~ (l > 3)
      OBVIOUS
    <3>2. ~ (Len(b) > 3)
      BY <2>3, <3>1, Zenon
    <3> QED BY <3>2 DEF SessionRule
  <2> QED BY <2>5, <2>6 DEF May, Allowed, b
<1>3. ASSUME t.up[n] # NoNode, Foreign(t, t.up[n]) PROVE Walled(t, n)
  BY <1>3, PlaceSpec DEF Walled
<1> QED BY <1>1, <1>2, <1>3 DEF Walled

\* Neither a root nor walled: where a session's requests may reach.
Open(t) == {n \in Nodes : t.up[n] # NoNode /\ ~ Walled(t, n)}

\* What lies right below an open node is open.
LEMMA OpenChild ==
    ASSUME NEW t, IsTree(t), Acyclic(t), NEW n \in Nodes, t.up[n] \in Open(t)
    PROVE  n \in Open(t)
<1>1. t.up[n] # NoNode
  BY NodesAssumption DEF Open
<1> QED BY <1>1, PlaceSpec DEF Open, Walled

\* The session's containers are where EnsurePath put them.
Placed(t, F, ss, conn) ==
    /\ ss \in Nodes \ F /\ t.up[ss] = Root /\ t.key[ss] = "Sessions"
    /\ conn \in Nodes \ F /\ t.up[conn] = ss /\ t.key[conn] = OwnSession
    /\ \A c \in Containers : t.up[c] = conn

\* They are not in the staging area themselves, so that they never move.
LEMMA PlacedUnstaged ==
    ASSUME NEW t, NEW F, Sound(t, F), NEW ss, NEW conn, Placed(t, F, ss, conn)
    PROVE  \A m \in Containers \cup {ss, conn} : ~ IsDescendant(t, NewNodes, m)
<1>1. /\ IsTree(t) /\ Acyclic(t) /\ t.up[Root] = NoNode /\ NoNode \notin Nodes
      /\ Root \in Nodes /\ Containers \subseteq Nodes /\ NewNodes \in Containers
  BY NodesAssumption DEF Sound, Laid, Containers
<1>2. /\ ss \in Nodes /\ conn \in Nodes /\ t.up[ss] = Root /\ t.up[conn] = ss
      /\ \A c \in Containers : t.up[c] = conn
  BY DEF Placed
<1>3. Root # NewNodes /\ ss # NewNodes /\ conn # NewNodes
  <2>1. Root # ss /\ Root # conn /\ Root # NewNodes
    BY <1>1, <1>2
  <2>2. PICK r : Ranks(t, r)
    BY <1>1 DEF Acyclic
  <2>3. \A x \in {ss, conn, NewNodes, Root} : r[x] \in Nat
    BY <1>1, <1>2, <2>2 DEF Ranks
  <2>4. r[ss] < r[conn] /\ r[conn] < r[NewNodes]
    BY <1>1, <1>2, <2>2 DEF Ranks
  <2> QED BY <2>1, <2>3, <2>4
<1>4. ~ IsDescendant(t, NewNodes, Root)
  BY <1>1, DescendantSpec
<1>5. ~ IsDescendant(t, NewNodes, ss)
  BY <1>1, <1>2, <1>3, <1>4, DescendantSpec
<1>6. ~ IsDescendant(t, NewNodes, conn)
  BY <1>1, <1>2, <1>3, <1>5, DescendantSpec
<1>7. \A c \in Containers : ~ IsDescendant(t, NewNodes, c)
  BY <1>1, <1>2, <1>3, <1>6, DescendantSpec
<1> QED BY <1>5, <1>6, <1>7

\* The session's containers, and the staging area with all in it, are open.
LEMMA StagedOpen ==
    ASSUME NEW t, NEW F, Sound(t, F), NEW ss, NEW conn, Placed(t, F, ss, conn)
    PROVE  /\ Containers \subseteq Open(t)
           /\ \A n \in Nodes : IsDescendant(t, NewNodes, n) =>
                 n \in Open(t) /\ t.up[n] \in Open(t)
<1>1. /\ IsTree(t) /\ Acyclic(t) /\ t.up[Root] = NoNode /\ NoNode \notin Nodes
      /\ Root \in Nodes /\ Containers \subseteq Nodes /\ NewNodes \in Containers
  BY NodesAssumption DEF Sound, Laid, Containers
<1>2. /\ ss \in Nodes /\ conn \in Nodes /\ t.up[ss] = Root /\ t.up[conn] = ss
      /\ t.key[conn] = OwnSession /\ \A c \in Containers : t.up[c] = conn
  BY DEF Placed
<1>3. ~ Walled(t, Root)
  BY <1>1, PlaceSpec
<1>4. ~ Foreign(t, ss) /\ Root # NoNode /\ ss # NoNode /\ conn # NoNode
  BY <1>1, <1>2, <1>3, PlaceSpec DEF Walled
<1>5. ~ Foreign(t, conn) /\ ~ AtSessions(t, conn)
  BY <1>1, <1>2, <1>4, PlaceSpec
<1>6. Containers \subseteq Open(t)
  BY <1>1, <1>2, <1>4, <1>5, PlaceSpec DEF Walled, Open
<1> DEFINE P == {n \in Nodes : IsDescendant(t, NewNodes, n) =>
                                  n \in Open(t) /\ t.up[n] \in Open(t)}
<1>7. ASSUME NEW n \in Nodes, t.up[n] # NoNode => t.up[n] \in P PROVE n \in P
  <2> SUFFICES ASSUME IsDescendant(t, NewNodes, n)
               PROVE  n \in Open(t) /\ t.up[n] \in Open(t)
    OBVIOUS
  <2>1. /\ t.up[n] # NoNode
        /\ t.up[n] = NewNodes \/ IsDescendant(t, NewNodes, t.up[n])
    BY <1>1, DescendantSpec
  <2>2. t.up[n] \in Open(t)
    BY <1>1, <1>6, <1>7, <2>1
  <2> QED BY <1>1, <2>2, OpenChild
<1> HIDE DEF P
<1>8. Nodes \subseteq P
  BY <1>1, <1>7, UpInduction
<1> QED BY <1>6, <1>8 DEF P

\* What may be written, if it has a Parent, is open, and its Parent not walled.
LEMMA WritableOpen ==
    ASSUME NEW t, IsTree(t), Acyclic(t), NEW n \in Writable(t), t.up[n] # NoNode
    PROVE  n \in Open(t) /\ ~ Walled(t, t.up[n])
BY WalledSpec DEF Writable, Open

\* A step from t to u, with the nodes to come F before it and G after it, that
\* stays out of the other sessions.
Apart(t, u, F, G) ==
    /\ \A m \in Nodes \ F :
          /\ u.key[m] = t.key[m]
          /\ u.up[m] = t.up[m] \/ (m \in Open(t) /\ u.up[m] \in Open(t) \ F)
    /\ \A m \in F \ G : u.up[m] \in Open(t) \ F
    /\ \A q \in Nodes : Walled(t, q) => u.kids[q] = t.kids[q]
    /\ \A q \in Nodes \ F : Foreign(t, q) => u.val[q] = t.val[q]
    /\ ToSet(u.kids[Root]) \subseteq ToSet(t.kids[Root])
    /\ \A c \in ToSet(t.kids[Root]) : AtSessions(t, c) => c \in ToSet(u.kids[Root])

\* Such a step leaves every node where it is, with respect to the walls.
LEMMA ApartPlaces ==
    ASSUME NEW t, NEW u, NEW F, NEW G, F \subseteq Nodes, G \subseteq F,
           Sound(t, F), Sound(u, G), Apart(t, u, F, G)
    PROVE  /\ \A n \in F \ G : n \in Open(u)
           /\ \A n \in Nodes \ F : /\ u.up[n] = NoNode <=> t.up[n] = NoNode
                                   /\ Foreign(u, n) <=> Foreign(t, n)
                                   /\ AtSessions(u, n) <=> AtSessions(t, n)
                                   /\ AtOwn(u, n) <=> AtOwn(t, n)
<1>1. /\ IsTree(t) /\ Acyclic(t) /\ IsTree(u) /\ Acyclic(u) /\ NoNode \notin Nodes
      /\ \A n \in Nodes : t.up[n] \notin F
  BY NodesAssumption DEF Sound, Laid
<1>2. Open(t) \subseteq Nodes /\ Open(u) \subseteq Nodes
  BY DEF Open
<1> DEFINE Same(n) == /\ u.up[n] = NoNode <=> t.up[n] = NoNode
                      /\ Foreign(u, n) <=> Foreign(t, n)
                      /\ AtSessions(u, n) <=> AtSessions(t, n)
                      /\ AtOwn(u, n) <=> AtOwn(t, n)
           P == {n \in Nodes : (n \in F \ G => n \in Open(u)) /\ (n \notin F => Same(n))}
<1>3. ASSUME NEW n \in Nodes, t.up[n] \in Nodes, Same(t.up[n]), u.up[n] = t.up[n],
             u.key[n] = t.key[n]
      PROVE  Same(n)
  BY <1>1, <1>3, PlaceSpec
<1>4. ASSUME NEW p \in Open(t), Same(p) PROVE p \in Open(u)
  BY <1>2, <1>4 DEF Open, Walled
<1> HIDE DEF Same
<1>5. ASSUME NEW n \in Nodes, u.up[n] # NoNode => u.up[n] \in P PROVE n \in P
  <2>1. CASE n \in F
    <3> SUFFICES ASSUME n \notin G PROVE n \in Open(u)
      BY <2>1
    <3>1. u.up[n] \in Open(t) \ F
      BY <2>1 DEF Apart
    <3>2. u.up[n] \in Nodes /\ u.up[n] # NoNode
      BY <1>1, <1>2, <3>1
    <3>3. u.up[n] \in Open(u)
      BY <1>4, <1>5, <3>1, <3>2
    <3> QED BY <1>1, <3>3, OpenChild
  <2>2. CASE n \notin F /\ u.up[n] = t.up[n]
    <3>1. u.key[n] = t.key[n]
      BY <2>2 DEF Apart
    <3>2. CASE t.up[n] = NoNode
      BY <1>1, <2>2, <3>2, PlaceSpec DEF Same, Walled
    <3>3. CASE t.up[n] # NoNode
      <4>1. t.up[n] \in Nodes /\ t.up[n] \notin F
        BY <1>1, <3>3, TreeFields
      <4>2. Same(t.up[n])
        BY <1>5, <2>2, <3>3, <4>1
      <4> QED BY <1>3, <2>2, <3>1, <4>1, <4>2
    <3> QED BY <3>2, <3>3
  <2>3. CASE n \notin F /\ u.up[n] # t.up[n]
    <3>1. n \in Open(t) /\ u.up[n] \in Open(t) \ F
      BY <2>3 DEF Apart
    <3>2. u.up[n] \in Nodes /\ u.up[n] # NoNode
      BY <1>1, <1>2, <3>1
    <3>3. u.up[n] \in Open(u)
      BY <1>4, <1>5, <3>1, <3>2
    <3>4. n \in Open(u)
      BY <1>1, <3>3, OpenChild
    <3>5. Same(n)
      BY <3>1, <3>4 DEF Same, Open, Walled
    <3> QED BY <2>3, <3>5
  <2> QED BY <2>1, <2>2, <2>3
<1> HIDE DEF P
<1>6. Nodes \subseteq P
  BY <1>1, <1>5, UpInduction
<1> QED BY <1>6 DEF P, Same

\* And it leaves what is walled, the other sessions' nodes for one, alone.
LEMMA ApartOthers ==
    ASSUME NEW t, NEW u, NEW F, NEW G, F \subseteq Nodes, G \subseteq F, Root \notin F,
           Sound(t, F), Sound(u, G), Apart(t, u, F, G)
    PROVE  /\ \A n \in Live(t) : Walled(t, n) => n \in Live(u)
           /\ Others(u) = Others(t)
           /\ \A n \in Others(t) : /\ u.kids[n] = t.kids[n] /\ u.up[n] = t.up[n]
                                   /\ u.val[n] = t.val[n]
<1>1. /\ IsTree(t) /\ Tied(t) /\ IsTree(u) /\ Tied(u) /\ Root \in Nodes
      /\ Acyclic(t) /\ Acyclic(u) /\ NoNode \notin Nodes
      /\ \A n \in Nodes : t.up[n] \notin F /\ ToSet(t.kids[n]) \cap F = {}
      /\ \A n \in Nodes : ToSet(u.kids[n]) \cap G = {}
  BY NodesAssumption DEF Sound, Laid
<1>2. /\ Root \in Live(t) /\ Live(t) \subseteq Nodes /\ Closed(t, Live(t))
      /\ \A C \in SUBSET Nodes : Root \in C /\ Closed(t, C) => Live(t) \subseteq C
      /\ \A n \in Live(t) : n # Root => \E p \in Live(t) : n \in ToSet(t.kids[p])
  BY <1>1, LiveSpec
<1>3. /\ Root \in Live(u) /\ Live(u) \subseteq Nodes /\ Closed(u, Live(u))
      /\ \A C \in SUBSET Nodes : Root \in C /\ Closed(u, C) => Live(u) \subseteq C
      /\ \A n \in Live(u) : n # Root => \E p \in Live(u) : n \in ToSet(u.kids[p])
  BY <1>1, LiveSpec
<1>4. /\ \A n \in Live(t) : t.up[n] = NoNode => n = Root
      /\ \A n \in Live(u) : u.up[n] = NoNode => n = Root
  BY <1>1, <1>2, <1>3, SoundReachable, ReachableSpec
<1>5. /\ \A n \in F \ G : ~ Walled(u, n)
      /\ \A n \in Nodes \ F : /\ u.up[n] = NoNode <=> t.up[n] = NoNode
                              /\ Foreign(u, n) <=> Foreign(t, n)
                              /\ AtSessions(u, n) <=> AtSessions(t, n)
                              /\ AtOwn(u, n) <=> AtOwn(t, n)
  BY ApartPlaces DEF Open
<1>6. Live(t) \cap F = {} /\ Live(u) \cap G = {}
  BY <1>1, <1>2, <1>3
<1>7. ~ Walled(t, Root)
  BY <1>1, PlaceSpec DEF Sound
<1>8. \A n \in Nodes \ F : Walled(t, n) => u.up[n] = t.up[n]
  BY DEF Apart, Open
<1>9. \A q \in Nodes : Walled(t, q) => u.kids[q] = t.kids[q]
  BY DEF Apart
\* What stands at a wall, seen from its Parent.
<1>10. ASSUME NEW n \in Nodes, NEW c \in Nodes, t.up[c] = n, Walled(t, c)
       PROVE  Walled(t, n) \/ (t.up[n] = NoNode /\ AtSessions(t, c))
  BY <1>1, <1>10, PlaceSpec DEF Walled
<1>11. \A n \in Live(t) : Walled(t, n) => n \in Live(u)
  <2> DEFINE C == {n \in Live(t) : Walled(t, n) => n \in Live(u)}
  <2>1. Root \in C /\ C \subseteq Nodes
    BY <1>2, <1>7
  <2>2. ASSUME NEW n \in C, NEW c \in ToSet(t.kids[n]), Walled(t, c) PROVE c \in Live(u)
    <3>1. n \in Live(t) /\ n \in Nodes /\ c \in Nodes /\ t.up[c] = n
      <4>1. n \in Nodes
        BY <2>1
      <4> QED BY <1>1, <4>1, KidsAreNodes DEF Tied
    <3>2. CASE Walled(t, n)
      <4>1. c \in ToSet(u.kids[n]) /\ n \in Live(u)
        BY <1>9, <2>2, <3>1, <3>2
      <4> QED BY <1>3, <4>1 DEF Closed
    <3>3. CASE t.up[n] = NoNode /\ AtSessions(t, c)
      <4>1. n = Root
        BY <1>4, <3>1, <3>3
      <4>2. c \in ToSet(u.kids[Root])
        BY <2>2, <3>3, <4>1 DEF Apart
      <4> QED BY <1>3, <4>2 DEF Closed
    <3> QED BY <1>10, <2>2, <3>1, <3>2, <3>3
  <2>3. Closed(t, C)
    <3> SUFFICES ASSUME NEW n \in C, NEW c \in ToSet(t.kids[n]) PROVE c \in C
      BY DEF Closed
    <3>1. c \in Live(t)
      BY <1>2 DEF Closed
    <3> HIDE DEF C
    <3>2. Walled(t, c) => c \in Live(u)
      BY <2>2
    <3> QED BY <3>1, <3>2 DEF C
  <2> HIDE DEF C
  <2>4. Live(t) \subseteq C
    BY <1>2, <2>1, <2>3
  <2> QED BY <2>4 DEF C
<1>12. \A n \in Live(u) : n \notin F /\ Walled(t, n) => n \in Live(t)
  <2> DEFINE C == {n \in Live(u) : n \notin F /\ Walled(t, n) => n \in Live(t)}
  <2>1. Root \in C /\ C \subseteq Nodes
    BY <1>3, <1>7
  <2>2. ASSUME NEW n \in C, NEW c \in ToSet(u.kids[n]), c \notin F, Walled(t, c)
        PROVE  c \in Live(t)
    <3>1. n \in Live(u) /\ n \in Nodes /\ c \in Nodes /\ u.up[c] = n
      <4>1. n \in Nodes
        BY <2>1
      <4> QED BY <1>1, <4>1, KidsAreNodes DEF Tied
    <3>2. t.up[c] = n /\ n \notin F
      BY <1>1, <1>8, <2>2, <3>1
    <3>3. CASE Walled(t, n)
      <4>1. c \in ToSet(t.kids[n]) /\ n \in Live(t)
        BY <1>9, <2>2, <3>1, <3>2, <3>3
      <4> QED BY <1>2, <4>1 DEF Closed
    <3>4. CASE t.up[n] = NoNode /\ AtSessions(t, c)
      <4>1. n = Root
        BY <1>4, <1>5, <3>1, <3>2, <3>4
      <4>2. c \in ToSet(t.kids[Root])
        BY <2>2, <4>1 DEF Apart
      <4> QED BY <1>2, <4>2 DEF Closed
    <3> QED BY <1>10, <2>2, <3>1, <3>2, <3>3, <3>4
  <2>3. Closed(u, C)
    <3> SUFFICES ASSUME NEW n \in C, NEW c \in ToSet(u.kids[n]) PROVE c \in C
      BY DEF Closed
    <3>1. c \in Live(u)
      BY <1>3 DEF Closed
    <3> HIDE DEF C
    <3>2. c \notin F /\ Walled(t, c) => c \in Live(t)
      BY <2>2
    <3> QED BY <3>1, <3>2 DEF C
  <2> HIDE DEF C
  <2>4. Live(u) \subseteq C
    BY <1>3, <2>1, <2>3
  <2> QED BY <2>4 DEF C
<1>13. \A n : /\ n \in Others(t) <=> n \in Live(t) /\ Foreign(t, n)
              /\ n \in Others(u) <=> n \in Live(u) /\ Foreign(u, n)
  BY DEF Others, Foreign
<1>14. ASSUME NEW n \in Others(t) PROVE n \in Others(u)
  <2>1. n \in Live(t) /\ Walled(t, n) /\ n \in Nodes \ F
    BY <1>2, <1>6, <1>13, <1>14 DEF Walled
  <2> QED BY <1>5, <1>11, <1>13, <1>14, <2>1
<1>15. ASSUME NEW n \in Others(u) PROVE n \in Others(t)
  <2>1. n \in Live(u) /\ Walled(u, n) /\ n \in Nodes \ G
    BY <1>3, <1>6, <1>13, <1>15 DEF Walled
  <2>2. n \in Nodes \ F
    BY <1>5, <2>1
  <2>3. Foreign(t, n) /\ Walled(t, n)
    BY <1>5, <1>13, <1>15, <2>2 DEF Walled
  <2> QED BY <1>12, <1>13, <2>1, <2>2, <2>3
<1>16. ASSUME NEW n \in Others(t)
       PROVE  u.kids[n] = t.kids[n] /\ u.up[n] = t.up[n] /\ u.val[n] = t.val[n]
  <2>1. n \in Nodes \ F /\ Foreign(t, n) /\ Walled(t, n)
    BY <1>2, <1>6, <1>13, <1>16 DEF Walled
  <2> QED BY <1>8, <1>9, <2>1 DEF Apart
<1> QED BY <1>11, <1>14, <1>15, <1>16

\* From t to u, no walled child list changed; the root's was only cut, in
\* order, and still lists /Sessions.
Shelter(t, u) ==
    /\ \A q \in Nodes : Walled(t, q) => u.kids[q] = t.kids[q]
    /\ ToSet(u.kids[Root]) \subseteq ToSet(t.kids[Root])
    /\ \A c \in ToSet(t.kids[Root]) : AtSessions(t, c) => c \in ToSet(u.kids[Root])
    /\ \A c, d : Earlier(u.kids[Root], c, d) => Earlier(t.kids[Root], c, d)

\* Changes to the child lists of other nodes do not matter.
LEMMA OpenKids ==
    ASSUME NEW t, NEW u, Shelter(t, u), NEW v,
           \A q \in Nodes : Walled(t, q) \/ q = Root => v.kids[q] = u.kids[q]
    PROVE  Shelter(t, v)
<1>1. v.kids[Root] = u.kids[Root]
  BY NodesAssumption
<1> QED BY <1>1 DEF Shelter

\* What the planning of an edit establishes about the walls.
Guarded(t, p) ==
    LET n == p.targets[1]
    IN  /\ IsStructural(p.edit) => n \in Open(t) /\ ~ Walled(t, t.up[n])
        /\ p.edit.next # Keep =>
              \A c \in DroppedByNext(t, n, p.next) : ~ AtSessions(t, c)
        /\ p.edit.parent # Keep => p.parent \in Open(t)

\* What may be deleted with all beneath it is not walled.
LEMMA DeletableOpen ==
    ASSUME NEW t, IsTree(t), Acyclic(t), NEW S \in SUBSET Nodes, DeleteAllowed(t, S)
    PROVE  \A c \in S : ~ Walled(t, c)
<1>1. S \subseteq Below(t, S)
  BY BelowSpec
<1> QED BY <1>1, WalledSpec DEF DeleteAllowed

\* What the planning phase of SetAs accepts stays within the walls.
LEMMA PlanOfGuarded ==
    ASSUME NEW t, NEW F, Sound(t, F), NEW edits \in Sets, NEW i \in DOMAIN edits,
           PlanAccepted(t, edits[i])
    PROVE  Guarded(t, PlanOf(t, edits[i]))
<1> DEFINE e == edits[i]
           p == PlanOf(t, e)
           n == Evaluate(t, e.target)[1]
           D == DroppedByNext(t, n, p.next)
<1>1. PlanKeeps(t, p) /\ PlanFits(t, p, F, Movable(t), Writable(t))
  BY PlanOfKeeps, PlanOfFits DEF Sound
<1>2. p.edit = e /\ p.targets[1] = n
  BY DEF PlanOf
<1> HIDE DEF p
<1>3. IsStructural(e) => May(t, "write", n)
  BY DEF PlanAccepted
<1> HIDE DEF e, n
<1>4. IsTree(t) /\ Acyclic(t)
  BY DEF Sound, Laid
<1>5. IsStructural(e) => /\ n \in Nodes /\ t.up[n] # NoNode
                         /\ n \in Open(t) /\ ~ Walled(t, t.up[n])
  <2> SUFFICES ASSUME IsStructural(e)
               PROVE  /\ n \in Nodes /\ t.up[n] # NoNode
                      /\ n \in Open(t) /\ ~ Walled(t, t.up[n])
    OBVIOUS
  <2>1. n \in Nodes /\ t.up[n] # NoNode
    BY <1>1, <1>2 DEF PlanFits
  <2>2. n \in Writable(t)
    BY <1>3, <2>1 DEF Writable
  <2> QED BY <1>4, <2>1, <2>2, WritableOpen
<1>6. ASSUME e.next # Keep PROVE \A c \in D : ~ AtSessions(t, c)
  <2>1. n \in Nodes /\ t.up[n] # NoNode
    BY <1>5, <1>6 DEF IsStructural
  <2>2. DeleteAllowed(t, D)
    BY <1>1, <1>2, <1>6 DEF PlanKeeps
  <2>3. D \in SUBSET Nodes
    BY <1>4, <2>1, DroppedByNextSpec
  <2> HIDE DEF D
  <2> QED BY <1>4, <2>2, <2>3, DeletableOpen DEF Walled
<1>7. e.parent # Keep => p.parent \in Open(t)
  <2> SUFFICES ASSUME e.parent # Keep PROVE p.parent \in Open(t)
    OBVIOUS
  <2>1. <<n, p.parent>> \in Movable(t)
    BY <1>1, <1>2 DEF PlanFits
  <2>2. p.parent \in Writable(t) /\ t.up[p.parent] # NoNode
    BY <2>1 DEF Movable, Writable
  <2> QED BY <1>4, <2>2, WritableOpen
<1>8. Guarded(t, p)
  BY <1>2, <1>5, <1>6, <1>7 DEF Guarded
<1> QED BY <1>8 DEF p, e

\* If a list was cut, what lies between n and next now lay between them before.
LEMMA ListBetween ==
    ASSUME NEW S, NEW old \in Seq(S), NEW ks \in Seq(S), Once(old),
           ToSet(ks) \subseteq ToSet(old),
           \A x, y : Earlier(ks, x, y) => Earlier(old, x, y),
           NEW n, NEW next, NEW c, Between(ks, n, next, c)
    PROVE  Between(old, n, next, c)
<1>a. PICK i \in (IndexOf(ks, n) + 1)..LastDropped(ks, next) : ks[i] = c
  BY DEF Between
<1> DEFINE at == IndexOf(ks, n)
           nx == IndexOf(ks, next)
           at0 == IndexOf(old, n)
           nx0 == IndexOf(old, next)
<1>1. /\ Len(ks) \in Nat /\ DOMAIN ks = 1..Len(ks)
      /\ Len(old) \in Nat /\ DOMAIN old = 1..Len(old)
  BY LenProperties
<1>2. at \in 1..Len(ks) /\ at \in DOMAIN ks /\ ks[at] = n /\ n \in ToSet(ks)
  BY IndexFound DEF Between
<1>3. at0 \in 1..Len(old) /\ at0 \in DOMAIN old /\ old[at0] = n
  <2>1. at0 # 0
    BY <1>2, IndexOfSpec
  <2> QED BY <2>1, IndexFound
<1>4. nx \in 0..Len(ks)
  BY IndexOfSpec
<1> HIDE DEF at, nx, at0, nx0
<1>5. i \in DOMAIN ks /\ at < i /\ (next # NoNode => i < nx)
  <2>1. i \in (at + 1)..LastDropped(ks, next)
    BY <1>a DEF at
  <2>2. LastDropped(ks, next) = IF next = NoNode THEN Len(ks) ELSE nx - 1
    BY DEF LastDropped, nx
  <2> QED BY <1>1, <1>2, <1>4, <2>1, <2>2
<1>6. PICK j, k \in DOMAIN old : j < k /\ old[j] = n /\ old[k] = ks[i]
  <2>1. Earlier(ks, n, ks[i])
    BY <1>2, <1>5 DEF Earlier
  <2>2. Earlier(old, n, ks[i])
    BY <2>1
  <2> QED BY <2>2 DEF Earlier
<1>7. \A a, b \in DOMAIN old : old[a] = old[b] => a = b
  BY DEF Once
<1>8. j = at0
  BY <1>3, <1>6, <1>7
<1>9. next # NoNode => k < nx0
  <2> SUFFICES ASSUME next # NoNode PROVE k < nx0
    OBVIOUS
  <2>1. nx # 0
    BY <1>1, <1>4, <1>5
  <2>2. nx \in DOMAIN ks /\ ks[nx] = next /\ next \in ToSet(ks)
    BY <2>1, IndexFound DEF nx
  <2>3. nx0 # 0
    BY <2>2, IndexOfSpec DEF nx0
  <2>4. nx0 \in DOMAIN old /\ old[nx0] = next
    BY <2>3, IndexFound DEF nx0
  <2>5. Earlier(ks, ks[i], next)
    BY <1>5, <2>2 DEF Earlier
  <2>6. Earlier(old, ks[i], next)
    BY <2>5
  <2>7. PICK a, b \in DOMAIN old : a < b /\ old[a] = ks[i] /\ old[b] = next
    BY <2>6 DEF Earlier
  <2>8. a = k /\ b = nx0
    BY <1>6, <1>7, <2>4, <2>7
  <2> QED BY <2>7, <2>8
<1>10. LastDropped(old, next) = IF next = NoNode THEN Len(old) ELSE nx0 - 1
  BY DEF LastDropped, nx0
<1>11. nx0 \in Int
  BY IndexOfSpec DEF nx0
<1>12. k \in (at0 + 1)..LastDropped(old, next)
  BY <1>1, <1>3, <1>6, <1>8, <1>9, <1>10, <1>11
<1>13. at0 # 0
  BY <1>3
<1> QED BY <1>a, <1>6, <1>12, <1>13 DEF at0, Between

\* So what a relink drops when it is applied was consulted when it was planned.
LEMMA CutBetween ==
    ASSUME NEW t, IsTree(t), NEW u, IsTree(u), NEW n \in Nodes,
           t.up[n] = u.up[n], u.up[n] # NoNode,
           NEW old, old = t.kids[t.up[n]], NEW ks, ks = u.kids[u.up[n]],
           Once(old), ToSet(ks) \subseteq ToSet(old),
           \A c, d : Earlier(ks, c, d) => Earlier(old, c, d),
           NEW next, NEW c \in DroppedByNext(u, n, next)
    PROVE  c \in DroppedByNext(t, n, next)
<1>1. ks \in Seq(Nodes) /\ old \in Seq(Nodes) /\ t.up[n] # NoNode
  BY TreeFields
<1>2. Between(ks, n, next, c)
  BY NextDrops
<1>3. Between(old, n, next, c)
  BY <1>1, <1>2, ListBetween
<1> QED BY <1>1, <1>3, NextDrops

\* A whole edit, steady and planned within the walls, stays there.
LEMMA PlanShelters ==
    ASSUME NEW t, NEW F, Sound(t, F), Root \notin F,
           NEW w, IsWork(w, t, Movable(t), Writable(t)), Sound(w.t, F), Shelter(t, w.t),
           NEW p, PlanFits(t, p, F, Movable(t), Writable(t)), Guarded(t, p),
           w.ok => SteadyEdit(w.t, p),
           NEW x, x = ApplyPlan(w, p)
    PROVE  Shelter(t, x.t)
<1>1. CASE ~ w.ok
  <2>1. x = w
    BY <1>1 DEF ApplyPlan
  <2> QED BY <2>1
<1>2. CASE w.ok
  <2> DEFINE M == Movable(t)
             W == Writable(t)
             n == p.targets[1]
             pp == p.parent
             par == w.t.up[n]
             a == ApplyValue(w, p)
             b == ApplyFirst(a, p)
             c == ApplyNext(b, p)
             d == ApplyParent(c, p)
  <2>1. x = d
    BY <1>2 DEF ApplyPlan
  <2>2. /\ IsTree(t) /\ Acyclic(t) /\ t.up[Root] = NoNode /\ Tied(t)
        /\ IsTree(w.t) /\ Acyclic(w.t) /\ Root \in Nodes /\ NoNode \notin Nodes
    BY NodesAssumption DEF Sound, Laid
  <2>3. ~ Walled(t, Root) /\ Root \notin Open(t)
    BY <2>2, PlaceSpec DEF Open
  <2>4. \A q \in Nodes : q \in Open(t) => ~ Walled(t, q) /\ q # Root
    BY <2>3 DEF Open
  <2>5. IsWork(a, t, M, W) /\ a.t.kids = w.t.kids /\ a.t.up = w.t.up
    BY ApplyValueSpec DEF PlanFits, Written
  <2> HIDE DEF a
  <2>6. Shelter(t, a.t) /\ Sound(a.t, F)
    <3>1. IsTree(a.t)
      BY <2>5 DEF IsWork, WorkTypes
    <3> QED BY <2>5, <3>1, SameSound, OpenKids
  \* Where the edit takes place: not at a wall.
  <2>7. IsStructural(p.edit) =>
           /\ n \in Nodes /\ n \in Open(t) /\ par # NoNode /\ par \in Nodes /\ par # n
           /\ ~ Walled(t, par) /\ (par = Root => t.up[n] = Root)
    <3> SUFFICES ASSUME IsStructural(p.edit)
                 PROVE  /\ n \in Nodes /\ n \in Open(t) /\ par # NoNode /\ par \in Nodes
                        /\ par # n
                        /\ ~ Walled(t, par) /\ (par = Root => t.up[n] = Root)
      OBVIOUS
    <3>1. n \in Nodes /\ t.up[n] # NoNode /\ n \in Open(t) /\ ~ Walled(t, t.up[n])
      BY DEF PlanFits, Guarded
    <3>2. par = t.up[n] \/ <<n, par>> \in M
      BY <3>1 DEF IsWork, WorkMoves
    <3>3. <<n, par>> \in M => par \in Nodes /\ par \in Open(t)
      <4> SUFFICES ASSUME <<n, par>> \in M PROVE par \in Nodes /\ par \in Open(t)
        OBVIOUS
      <4>1. par \in Writable(t) /\ t.up[par] # NoNode /\ par \in Nodes
        BY DEF Movable, Writable
      <4> QED BY <2>2, <4>1, WritableOpen
    <3>4. par \in Nodes /\ par # NoNode
      BY <2>2, <3>1, <3>2, <3>3, TreeFields
    <3>5. par # n
      BY <2>2, <3>1, <3>4 DEF Acyclic, Ranks
    <3> QED BY <2>4, <3>1, <3>2, <3>3, <3>4, <3>5
  <2> HIDE DEF M, W
  <2>8. /\ IsWork(b, t, M, W) /\ b.t.up = w.t.up /\ (b.ok => w.ok)
        /\ Pruned(a.t, b.t) /\ Neat(a.t, b.t)
        /\ \A q \in Nodes : q # n => b.t.kids[q] = a.t.kids[q]
    <3>1. p.edit.first # Keep => n \in Nodes
      BY <2>7 DEF IsStructural
    <3> QED BY <1>2, <2>5, <3>1, ApplyFirstSpec
  <2> HIDE DEF b
  <2>9. Sound(b.t, F)
    BY <2>6, <2>8, PrunedSound
  <2>10. Shelter(t, b.t)
    <3>1. CASE IsStructural(p.edit)
      BY <2>4, <2>6, <2>7, <2>8, <3>1, OpenKids
    <3>2. CASE ~ IsStructural(p.edit)
      <4>1. b = a
        BY <3>2 DEF b, ApplyFirst, IsStructural
      <4> QED BY <2>6, <4>1
    <3> QED BY <3>1, <3>2
  <2>11. p.edit.next # Keep => Forward(b.t, n, p.next)
    <3> SUFFICES ASSUME p.edit.next # Keep PROVE Forward(b.t, n, p.next)
      OBVIOUS
    <3>1. Forward(w.t, n, p.next)
      BY <1>2 DEF SteadyEdit
    <3>2. par \in Nodes /\ par # n
      BY <2>7 DEF IsStructural
    <3> QED BY <2>5, <2>8, <3>1, <3>2 DEF Forward
  <2>12. /\ IsWork(c, t, M, W) /\ c.t.up = w.t.up /\ Pruned(b.t, c.t)
         /\ Neat(b.t, c.t) /\ InOrder(b.t, c.t)
         /\ \A q \in Nodes : q # par => c.t.kids[q] = b.t.kids[q]
         /\ Drops(b.t, c.t, IF p.edit.next = Keep THEN {} ELSE DroppedByNext(b.t, n, p.next))
    <3>1. p.edit.next # Keep => n \in Nodes /\ b.t.up[n] # NoNode
      BY <2>7, <2>8 DEF IsStructural
    <3> HIDE DEF n
    <3> QED BY <2>8, <2>11, <3>1, ApplyNextSpec DEF n
  <2>13. Sound(c.t, F)
    BY <2>9, <2>12, PrunedSound
  <2>14. Shelter(t, c.t)
    <3>1. CASE p.edit.next = Keep
      <4>1. c = b
        BY <3>1 DEF ApplyNext
      <4> QED BY <2>10, <4>1
    <3> HIDE DEF c
    <3>2. CASE p.edit.next # Keep /\ par # Root
      <4>1. ~ Walled(t, par)
        BY <2>7, <3>2 DEF IsStructural
      <4> QED BY <2>10, <2>12, <3>2, <4>1, OpenKids
    <3>3. CASE p.edit.next # Keep /\ par = Root
      <4>1. n \in Nodes /\ t.up[n] = Root /\ b.t.up[n] = Root /\ Root # NoNode
        BY <2>2, <2>7, <2>8, <3>3 DEF IsStructural
      <4>2. \A q \in Nodes : Walled(t, q) => c.t.kids[q] = b.t.kids[q]
        BY <2>3, <2>12, <3>3
      <4>3. ToSet(c.t.kids[Root]) \subseteq ToSet(b.t.kids[Root])
        BY <2>2, <2>12 DEF Pruned
      <4>4. \A e, f : Earlier(c.t.kids[Root], e, f) => Earlier(b.t.kids[Root], e, f)
        BY <2>2, <2>12 DEF InOrder
      <4>5. ASSUME NEW e \in ToSet(t.kids[Root]), AtSessions(t, e)
            PROVE  e \in ToSet(c.t.kids[Root])
        <5>1. e \in ToSet(b.t.kids[Root])
          BY <2>10, <4>5 DEF Shelter
        <5>2. e \in ToSet(c.t.kids[Root]) \/ e \in DroppedByNext(b.t, n, p.next)
          BY <2>2, <2>12, <3>3, <5>1 DEF Drops
        <5>3. e \notin DroppedByNext(t, n, p.next)
          BY <3>3, <4>5 DEF Guarded
        <5>4. IsTree(b.t) /\ Once(t.kids[Root])
          BY <2>2, <2>9 DEF Sound, Laid, Tied
        <5>5. /\ ToSet(b.t.kids[Root]) \subseteq ToSet(t.kids[Root])
              /\ \A f, g : Earlier(b.t.kids[Root], f, g) => Earlier(t.kids[Root], f, g)
          BY <2>10 DEF Shelter
        <5> HIDE DEF n
        <5>6. e \in DroppedByNext(b.t, n, p.next) => e \in DroppedByNext(t, n, p.next)
          BY <2>2, <4>1, <5>4, <5>5, CutBetween
        <5> QED BY <5>2, <5>3, <5>6
      <4> QED BY <2>10, <4>2, <4>3, <4>4, <4>5 DEF Shelter
    <3> QED BY <3>1, <3>2, <3>3
  <2> HIDE DEF c
  <2>15. p.edit.parent # Keep => /\ n \in Nodes /\ n \in Open(t) /\ c.t.up[n] # NoNode
                                 /\ pp \in Nodes /\ pp \in Open(t) /\ <<n, pp>> \in M
    BY <2>7, <2>12 DEF PlanFits, Guarded, IsStructural, M
  <2>16. d.t = c.t \/ (p.edit.parent # Keep /\ Relocated(c.t, d.t, n, pp))
    <3>1. M \subseteq Nodes \X Nodes
      BY DEF M, Movable
    <3> QED BY <2>12, <2>15, <3>1, ApplyParentSpec
  <2> HIDE DEF d
  <2>17. CASE d.t = c.t
    BY <2>1, <2>14, <2>17
  <2>18. CASE p.edit.parent # Keep /\ Relocated(c.t, d.t, n, pp)
    <3>1. /\ n \in Nodes /\ n \in Open(t) /\ pp \in Nodes /\ pp # Root
          /\ ~ Walled(t, pp) /\ ~ Walled(t, n) /\ ~ Walled(t, par)
      BY <2>4, <2>7, <2>15, <2>18 DEF IsStructural
    <3>2. Tied(c.t)
      BY <2>13 DEF Sound
    <3>3. ASSUME NEW q \in Nodes, Walled(t, q) PROVE d.t.kids[q] = c.t.kids[q]
      <4>1. q # pp /\ q # par
        BY <3>1, <3>3
      <4>2. n \notin ToSet(c.t.kids[q])
        BY <2>12, <3>2, <4>1 DEF Tied
      <4> HIDE DEF n, pp, par
      <4> QED BY <2>18, <4>1, <4>2 DEF Relocated
    <3> HIDE DEF n, pp, par
    <3>4. ToSet(d.t.kids[Root]) \subseteq ToSet(c.t.kids[Root])
      BY <2>2, <2>18, <3>1, <3>2 DEF Relocated
    <3>5. ToSet(c.t.kids[Root]) \ {n} \subseteq ToSet(d.t.kids[Root])
      BY <2>2, <2>18 DEF Relocated
    <3>6. ~ AtSessions(t, n)
      BY <3>1 DEF Walled
    <3>7. \A e, f : Earlier(d.t.kids[Root], e, f) => Earlier(c.t.kids[Root], e, f)
      BY <2>2, <2>18, <3>1 DEF Relocated
    <3>8. Shelter(t, d.t)
      BY <2>14, <3>3, <3>4, <3>5, <3>6, <3>7 DEF Shelter
    <3> QED BY <2>1, <3>8
  <2> QED BY <2>16, <2>17, <2>18
<1> QED BY <1>1, <1>2 DEF IsWork, WorkTypes

\* So does all of an accepted Set that ties no knot.
LEMMA ProgressShelters ==
    ASSUME NEW t, NEW F, Root \notin F, Sound(t, F), NEW edits \in Sets,
           Accepted(t, edits), Steady(t, edits), NEW k, k = Len(edits)
    PROVE  Shelter(t, Progress(t, edits)[k].t)
<1> DEFINE f == Progress(t, edits)
           P == {i \in Nat : i <= k => Shelter(t, f[i].t)}
<1>1. k \in Nat /\ DOMAIN edits = 1..k
  BY RequestsAssumption
<1>2. /\ f[0] = StartWork(t)
      /\ \A i \in 1..k : f[i] = ApplyPlan(f[i-1], PlanOf(t, edits[i]))
  BY <1>1, ProgressSpec
<1>3. Laid(t, F)
  BY DEF Sound
<1>4. \A i \in 1..k : /\ PlanFits(t, PlanOf(t, edits[i]), F, Movable(t), Writable(t))
                      /\ Guarded(t, PlanOf(t, edits[i]))
  BY <1>1, <1>3, PlanOfFits, PlanOfGuarded DEF Accepted
<1>5. \A i \in 1..k : f[i-1].ok => SteadyEdit(f[i-1].t, PlanOf(t, edits[i]))
  BY DEF Steady
<1>6. \A i \in 0..k : IsWork(f[i], t, Movable(t), Writable(t)) /\ Sound(f[i].t, F)
  BY <1>3, ProgressWorks
<1> HIDE DEF f
<1>7. 0 \in P
  <2>1. f[0].t = t
    BY <1>2, <1>3, StartSpec DEF Laid
  <2> QED BY <2>1 DEF Shelter
<1>8. ASSUME NEW i \in Nat, i \in P PROVE i + 1 \in P
  <2> SUFFICES ASSUME i + 1 <= k PROVE Shelter(t, f[i+1].t)
    OBVIOUS
  <2>1. i + 1 \in 1..k /\ (i + 1) - 1 = i /\ i <= k /\ i \in 0..k
    BY <1>1
  <2> DEFINE p == PlanOf(t, edits[i + 1])
  <2>2. /\ f[i + 1] = ApplyPlan(f[i], p) /\ Guarded(t, p)
        /\ PlanFits(t, p, F, Movable(t), Writable(t))
    BY <1>2, <1>4, <2>1
  <2>3. f[i].ok => SteadyEdit(f[i].t, p)
    BY <1>5, <2>1
  <2>4. Shelter(t, f[i].t) /\ IsWork(f[i], t, Movable(t), Writable(t)) /\ Sound(f[i].t, F)
    BY <1>6, <1>8, <2>1
  <2> HIDE DEF p
  <2> QED BY <2>2, <2>3, <2>4, PlanShelters
<1> HIDE DEF P
<1>9. Nat \subseteq P
  BY <1>7, <1>8, NatSetInduction
<1>10. Shelter(t, f[k].t)
  BY <1>1, <1>9 DEF P
<1> QED BY <1>10 DEF f

\* A Set stays out of the other sessions.
LEMMA SetApart ==
    ASSUME NEW t, NEW F, Root \notin F, Sound(t, F),
           NEW ss, NEW conn, Placed(t, F, ss, conn),
           NEW edits \in Sets, Steady(t, edits)
    PROVE  /\ Apart(t, SetOutcome(t, edits).tree, F, F)
           /\ Steadfast(t, SetOutcome(t, edits).tree, F)
<1> DEFINE out == SetOutcome(t, edits)
           u == out.tree
<1>1. IsTree(t) /\ Acyclic(t) /\ Laid(t, F) /\ NoNode \notin Nodes
  BY NodesAssumption DEF Sound, Laid
<1>2. /\ u.key = t.key /\ Sound(u, F)
      /\ \A q \in Nodes : u.up[q] = t.up[q] \/ <<q, u.up[q]>> \in Movable(t)
      /\ \A q \in Nodes \ Writable(t) : u.val[q] = t.val[q]
      /\ ~ out.ok => u = t
  BY <1>1, SetOutcomeSpec
<1>3. Shelter(t, u)
  <2>1. CASE u = t
    BY <2>1 DEF Shelter
  <2>2. CASE u # t
    <3>1. Accepted(t, edits) /\ u = Progress(t, edits)[Len(edits)].t
      BY <1>2, <2>2 DEF SetOutcome, Settle
    <3>2. Shelter(t, Progress(t, edits)[Len(edits)].t)
      BY <3>1, ProgressShelters
    <3> QED BY <3>1, <3>2
  <2> QED BY <2>1, <2>2
<1> HIDE DEF u
<1>4. Steadfast(t, u, F)
  BY <1>2 DEF Steadfast, Movable
<1>5. ASSUME NEW m \in Nodes, <<m, u.up[m]>> \in Movable(t)
      PROVE  m \in Open(t) /\ u.up[m] \in Open(t) \ F
  <2>1. /\ IsDescendant(t, NewNodes, m) /\ u.up[m] \in Nodes
        /\ May(t, "write", u.up[m]) /\ t.up[u.up[m]] # NoNode
    BY <1>5 DEF Movable
  <2>2. m \in Open(t)
    BY <2>1, StagedOpen
  <2>3. u.up[m] \in Open(t)
    BY <1>1, <2>1, WritableOpen DEF Writable
  <2>4. u.up[m] \notin F
    BY <1>2 DEF Sound
  <2> QED BY <2>2, <2>3, <2>4
<1>6. \A q \in Nodes : Foreign(t, q) => u.val[q] = t.val[q]
  BY <1>1, <1>2, WalledSpec DEF Walled, Writable
<1>7. Apart(t, u, F, F)
  BY <1>2, <1>3, <1>5, <1>6 DEF Apart, Shelter
<1> QED BY <1>4, <1>7 DEF u

\* So does a Delete.
LEMMA DeleteApart ==
    ASSUME NEW t, NEW F, Sound(t, F), NEW gone, gone \subseteq Nodes, DeleteAllowed(t, gone)
    PROVE  /\ Apart(t, RemoveChildren(t, gone), F, F)
           /\ Steadfast(t, RemoveChildren(t, gone), F)
<1> DEFINE u == RemoveChildren(t, gone)
<1>1. IsTree(t) /\ Acyclic(t) /\ Tied(t) /\ Root \in Nodes /\ NoNode \notin Nodes
  BY NodesAssumption DEF Sound, Laid
<1>2. /\ u.up = t.up /\ u.key = t.key /\ u.val = t.val
      /\ \A q \in Nodes : ToSet(u.kids[q]) = ToSet(t.kids[q]) \ gone
      /\ \A q \in Nodes : ToSet(t.kids[q]) \cap gone = {} => u.kids[q] = t.kids[q]
  BY <1>1, RemovedSpec DEF Pruned
<1> HIDE DEF u
<1>3. \A c \in gone : May(t, "delete", c) /\ c \in Nodes
  <2>1. gone \subseteq Below(t, gone)
    BY <1>1, BelowSpec
  <2> QED BY <2>1 DEF DeleteAllowed
<1>4. \A c \in gone : ~ Walled(t, c) /\ (t.up[c] # NoNode => ~ Walled(t, t.up[c]))
  BY <1>1, <1>3, WalledSpec
<1>5. ASSUME NEW q \in Nodes, Walled(t, q) PROVE u.kids[q] = t.kids[q]
  <2>1. \A c \in ToSet(t.kids[q]) : t.up[c] = q /\ q # NoNode
    BY <1>1 DEF Tied
  <2>2. ToSet(t.kids[q]) \cap gone = {}
    BY <1>4, <1>5, <2>1
  <2> QED BY <1>2, <2>2
<1>6. Apart(t, u, F, F)
  BY <1>1, <1>2, <1>4, <1>5 DEF Apart, Walled
<1>7. Steadfast(t, u, F)
  BY <1>2 DEF Steadfast
<1> QED BY <1>6, <1>7 DEF u

\* So does a new node below an open one.
LEMMA GrowApart ==
    ASSUME NEW t, NEW F, Root \notin F, F \subseteq Nodes, Sound(t, F), NEW n \in F,
           NEW par \in Open(t) \ F, NEW key, NEW val
    PROVE  /\ Apart(t, WithChild(t, par, n, key, val), F, F \ {n})
           /\ Steadfast(t, WithChild(t, par, n, key, val), F)
<1> DEFINE u == WithChild(t, par, n, key, val)
<1>1. IsTree(t) /\ Acyclic(t) /\ Laid(t, F) /\ Root \in Nodes /\ NoNode \notin Nodes
  BY NodesAssumption DEF Sound, Laid
<1>2. par \in Nodes /\ par # Root /\ ~ Walled(t, par)
  BY DEF Open, Sound
<1>3. Grown(t, u, n, par)
  BY <1>1, <1>2, GrownLaid
<1> HIDE DEF u
<1>4. \A m \in Nodes : u.up[m] = IF m = n THEN par ELSE t.up[m]
  BY <1>1, <1>3, TreeFields DEF Grown
<1>5. \A m \in Nodes \ F : u.up[m] = t.up[m] /\ u.key[m] = t.key[m]
  BY <1>3, <1>4 DEF Grown
<1>6. \A m \in F \ (F \ {n}) : u.up[m] \in Open(t) \ F
  BY <1>4
<1>7. ASSUME NEW q \in Nodes, Walled(t, q) \/ q = Root PROVE u.kids[q] = t.kids[q]
  BY <1>2, <1>3, <1>7 DEF Grown
<1>8. \A q \in Nodes \ F : u.val[q] = t.val[q]
  BY <1>3 DEF Grown
<1>9. Apart(t, u, F, F \ {n})
  BY <1>1, <1>5, <1>6, <1>7, <1>8 DEF Apart
<1>10. Steadfast(t, u, F)
  BY <1>5 DEF Steadfast
<1> QED BY <1>9, <1>10 DEF u

\* Every request without a knot stays out of the other sessions.
LEMMA ApartStep ==
    ASSUME Intact, NEW ss, NEW conn, Placed(tree, fresh, ss, conn), [SteadyNext]_vars
    PROVE  /\ Apart(tree, tree', fresh, fresh') /\ Steadfast(tree, tree', fresh)
           /\ fresh' \subseteq fresh
<1> DEFINE Good == /\ Apart(tree, tree', fresh, fresh') /\ Steadfast(tree, tree', fresh)
                   /\ fresh' \subseteq fresh
<1>0. /\ Standing /\ Sound(tree, fresh) /\ Laid(tree, fresh) /\ Root \notin fresh
      /\ fresh \subseteq Nodes /\ Containers \subseteq Open(tree) \ fresh
      /\ \A m \in Nodes : IsDescendant(tree, NewNodes, m) => m \in Open(tree)
  BY StagedOpen DEF Intact, Standing
<1>1. ASSUME tree' = tree, fresh' = fresh PROVE Good
  BY <1>1 DEF Apart, Steadfast
<1>2. CASE UNCHANGED vars
  BY <1>1, <1>2 DEF vars
<1>3. ASSUME NEW n \in fresh, NEW par \in Open(tree) \ fresh, NEW key, NEW val,
             tree' = WithChild(tree, par, n, key, val), fresh' = fresh \ {n}
      PROVE  Good
  BY <1>0, <1>3, GrowApart
<1>4. ASSUME NEW req \in Creates, Create(req) PROVE Good
  <2> DEFINE n == CHOOSE m \in fresh : TRUE
  <2>1. n \in fresh
    BY <1>4 DEF Create
  <2>2. \/ UNCHANGED <<tree, fresh>>
        \/ /\ \E p \in CreateParents(tree, req.parent) :
                 tree' = WithChild(tree, p, n, req.key, req.val)
           /\ fresh' = fresh \ {n}
    BY <1>4 DEF Create
  <2>3. CreateParents(tree, req.parent) \subseteq Open(tree) \ fresh
    <3>1. CreateParents(tree, req.parent) \subseteq Nodes \ fresh
      BY <1>0, CreateParentsExist
    <3>2. NewNodes \in Containers
      BY DEF Containers
    <3> QED BY <1>0, <3>1, <3>2 DEF CreateParents
  <2> HIDE DEF n
  <2> QED BY <1>1, <1>3, <2>1, <2>2, <2>3
<1>5. ASSUME NEW edits \in Sets, Steady(tree, edits), Set(edits) PROVE Good
  <2>1. tree' = SetOutcome(tree, edits).tree /\ fresh' = fresh
    BY <1>5 DEF Set
  <2> QED BY <1>0, <1>5, <2>1, SetApart
<1>6. ASSUME NEW exprs \in Deletes, Delete(exprs) PROVE Good
  <2> DEFINE gone == Matched(tree, exprs)
             ok == DeleteAllowed(tree, gone)
             u == RemoveChildren(tree, gone)
  <2>1. tree' = (IF ok THEN u ELSE tree) /\ fresh' = fresh
    BY <1>6 DEF Delete
  <2>2. gone \subseteq Nodes
    BY <1>0, MatchedExist
  <2> HIDE DEF gone
  <2>3. ok => Apart(tree, u, fresh, fresh) /\ Steadfast(tree, u, fresh)
    BY <1>0, <2>2, DeleteApart
  <2> HIDE DEF ok, u
  <2> QED BY <1>1, <2>1, <2>3
<1>7. ASSUME NEW par \in Containers, NEW key, NEW val, AppendUnder(par, key, val)
      PROVE  Good
  <2> DEFINE n == CHOOSE m \in fresh : TRUE
  <2>1. n \in fresh /\ tree' = WithChild(tree, par, n, key, val) /\ fresh' = fresh \ {n}
    BY <1>7 DEF AppendUnder
  <2> HIDE DEF n
  <2> QED BY <1>0, <1>3, <2>1
<1>8. QueryResults \in Containers /\ Errors \in Containers
  BY DEF Containers
<1> QED BY <1>2, <1>4, <1>5, <1>6, <1>7, <1>8 DEF SteadyNext

\* The containers are where they were put, and the other sessions as they were.
Secure ==
    /\ Intact /\ ContainersStay /\ OtherSessionsUntouched
    /\ \E ss, conn : Placed(tree, fresh, ss, conn)

\* The tree the server starts with is secure.
LEMMA InitSecure == Init => Secure
<1> SUFFICES ASSUME Init PROVE Secure
  OBVIOUS
<1> DEFINE blank == {n \in Nodes : InitialTree.key[n] = NoNode}
<1>1. Intact
  BY InitSound DEF Intact
<1>2. tree = InitialTree /\ fresh = blank
  BY DEF Init
<1>3. /\ Containers \subseteq Live(InitialTree)
      /\ \E ss, conn \in Nodes \ blank :
            /\ InitialTree.up[ss] = Root /\ InitialTree.key[ss] = "Sessions"
            /\ InitialTree.up[conn] = ss /\ InitialTree.key[conn] = OwnSession
            /\ \A c \in Containers : InitialTree.up[c] = conn
  BY InitialTreeAssumption
<1> HIDE DEF blank
<1>4. \E ss, conn : Placed(tree, fresh, ss, conn)
  BY <1>2, <1>3 DEF Placed
<1>5. OtherSessionsUntouched
  BY <1>2 DEF OtherSessionsUntouched
<1> QED BY <1>1, <1>2, <1>3, <1>4, <1>5 DEF Secure, ContainersStay

\* Every request without a knot leaves it so.
LEMMA SecureStep ==
    ASSUME Secure, [SteadyNext]_vars
    PROVE  Secure'
<1>1. /\ Intact /\ Sound(tree, fresh) /\ Containers \cap fresh = {}
      /\ fresh \subseteq Nodes /\ Root \notin fresh
  BY DEF Secure, Intact, Standing
<1>2. Intact' /\ Sound(tree', fresh')
  <2>1. Intact'
    BY <1>1, SteadyStep
  <2> QED BY <2>1 DEF Intact
<1>3. PICK ss, conn : Placed(tree, fresh, ss, conn)
  BY DEF Secure
<1>4. /\ Apart(tree, tree', fresh, fresh') /\ Steadfast(tree, tree', fresh)
      /\ fresh' \subseteq fresh
  BY <1>1, <1>3, ApartStep
<1>5. /\ \A n \in Live(tree) : Walled(tree, n) => n \in Live(tree')
      /\ Others(tree') = Others(tree)
      /\ \A n \in Others(tree) : /\ tree'.kids[n] = tree.kids[n] /\ tree'.up[n] = tree.up[n]
                                 /\ tree'.val[n] = tree.val[n]
  BY <1>1, <1>2, <1>4, ApartOthers
<1>6. Placed(tree', fresh', ss, conn)
  <2>1. \A m \in Containers \cup {ss, conn} : ~ IsDescendant(tree, NewNodes, m)
    BY <1>1, <1>3, PlacedUnstaged
  <2>2. Containers \cup {ss, conn} \subseteq Nodes \ fresh
    BY <1>1, <1>3, NodesAssumption DEF Placed, Containers
  <2>3. \A m \in Containers \cup {ss, conn} :
           tree'.up[m] = tree.up[m] /\ tree'.key[m] = tree.key[m]
    BY <1>4, <2>1, <2>2 DEF Steadfast
  <2> QED BY <1>3, <1>4, <2>3 DEF Placed
<1>7. OtherSessionsUntouched'
  BY <1>5 DEF Secure, OtherSessionsUntouched
\* The node above the containers is walled: it stays, with its children.
<1>8. ContainersStay'
  <2>1. /\ IsTree(tree) /\ Acyclic(tree) /\ Tied(tree) /\ tree.up[Root] = NoNode
        /\ Root \in Nodes /\ NoNode \notin Nodes
    BY <1>1, NodesAssumption DEF Sound, Laid
  <2>2. /\ ss \in Nodes /\ tree.up[ss] = Root /\ tree.key[ss] = "Sessions"
        /\ conn \in Nodes /\ tree.up[conn] = ss /\ tree.key[conn] = OwnSession
        /\ \A c \in Containers : tree.up[c] = conn
    BY <1>3 DEF Placed
  <2>3. AtSessions(tree, ss)
    <3>1. Root # NoNode
      BY <2>1
    <3> QED BY <2>1, <2>2, <3>1, PlaceSpec
  <2>4. Walled(tree, conn)
    <3>1. ss # NoNode
      BY <2>1, <2>2
    <3>2. AtOwn(tree, conn)
      BY <2>1, <2>2, <2>3, <3>1, PlaceSpec
    <3> QED BY <3>2 DEF Walled
  <2>5. ASSUME NEW c \in Containers PROVE c \in Live(tree')
    <3>1. c \in Live(tree) /\ c # Root
      BY <2>1, <2>2 DEF Secure, ContainersStay
    <3>2. PICK p \in Live(tree) : c \in ToSet(tree.kids[p]) /\ p \in Nodes
      BY <2>1, <3>1, LiveSpec
    <3>3. p = conn
      BY <2>1, <2>2, <3>2 DEF Tied
    <3>4. conn \in Live(tree') /\ tree'.kids[conn] = tree.kids[conn]
      BY <1>4, <1>5, <2>2, <2>4, <3>2, <3>3 DEF Apart
    <3>5. IsTree(tree')
      BY <1>2 DEF Sound, Laid
    <3>6. Closed(tree', Live(tree'))
      BY <3>5, LiveSpec
    <3> QED BY <3>2, <3>3, <3>4, <3>6 DEF Closed
  <2> QED BY <2>5 DEF ContainersStay
<1> QED BY <1>2, <1>6, <1>7, <1>8 DEF Secure

\* Whatever requests without a knot a session makes, with expressions that match
\* every session's nodes too and Sets of many relinks, another session's subtree
\* is as it was at the start: no node was lost, gained or changed.
THEOREM OthersStayUntouched == SteadySpec => []OtherSessionsUntouched
<1>1. Secure => OtherSessionsUntouched
  BY DEF Secure
<1> QED BY <1>1, InitSecure, SecureStep, PTL DEF SteadySpec

\* And the nodes the server holds pointers to, and appends to without a check,
\* stay in the tree.
THEOREM ContainersNeverLeave == SteadySpec => []ContainersStay
<1>1. Secure => ContainersStay
  BY DEF Secure
<1> QED BY <1>1, InitSecure, SecureStep, PTL DEF SteadySpec

-----------------------------------------------------------------------------
(* Which Sets tie no knot: those of one edit with any of the relinks, as    *)
(* long as the next sibling is cut off or left alone.                       *)

\* A list of one undo entry at most changes no field twice.
LEMMA ShortIsSingle ==
    ASSUME NEW L, L = <<>> \/ \E e : L = <<e>>
    PROVE  Single(L)
<1>1. Len(<<>>) = 0 /\ 1..0 = {} /\ 1..1 = {1}
  OBVIOUS
<1>2. \A e : Len(<<e>>) = 1
  OBVIOUS
<1> QED BY <1>1, <1>2 DEF Single

\* A move that is not in error only fills in fields that the saved work has.
LEMMA ApplyParentOutcome ==
    ASSUME NEW w, NEW p, w.ok, p.edit.parent # Keep,
           NEW r, r = SaveKids(w, w.t.up[p.targets[1]]),
           NEW s, s = SaveKids(r, p.parent), DOMAIN s = {"t", "vals", "parents", "kids", "ok"}
    PROVE  ApplyParent(w, p) = Fail(r) \/ ApplyParent(w, p).ok = s.ok
BY DEF ApplyParent

\* The value edit of one target leaves one undo entry at most.
LEMMA OneWrite ==
    ASSUME NEW w, DOMAIN w = {"t", "vals", "parents", "kids", "ok"}, w.vals = <<>>,
           NEW p, Len(p.targets) = 1
    PROVE  Single(ApplyValue(w, p).vals)
<1>1. CASE p.edit.value = {}
  <2>1. ApplyValue(w, p) = w
    BY <1>1 DEF ApplyValue
  <2> QED BY <2>1, ShortIsSingle
<1>2. CASE p.edit.value # {}
  <2> DEFINE value == CHOOSE x \in p.edit.value : TRUE
             f == CHOOSE f : f = WriteStep(w, p.targets, value, 1, f)
             n == p.targets[1]
             e == [node |-> n, old |-> w.t.val[n]]
  <2>1. ApplyValue(w, p) = f[1]
    BY <1>2 DEF ApplyValue, WriteStep
  <2> HIDE DEF value
  <2>2. f = WriteStep(w, p.targets, value, 1, f)
    BY WritesExist
  <2> HIDE DEF f
  <2>3. \A i \in 0..1 : f[i] = IF i = 0 THEN w ELSE Write(f[i-1], p.targets[i], value)
    BY <2>2 DEF WriteStep
  <2>4. f[0] = w /\ f[1] = Write(f[0], n, value)
    BY <2>3
  <2>5. f[1].vals = Append(<<>>, e)
    BY <2>4 DEF Write
  <2> HIDE DEF e
  <2>6. Append(<<>>, e) = <<e>>
    OBVIOUS
  <2> QED BY <2>1, <2>5, <2>6, ShortIsSingle
<1> QED BY <1>1, <1>2

\* A Set of one edit that relinks forwards, if at all, is steady: the theorems
\* about steady Sets speak of every such request.
THEOREM OneEditIsSteady ==
    ASSUME NEW t, NEW F, Sound(t, F), Root \notin F, NEW edits \in Sets,
           Len(edits) = 1, edits[1].next \in {Keep, Detach}
    PROVE  Steady(t, edits)
<1> SUFFICES ASSUME Accepted(t, edits) PROVE Steady(t, edits)
  BY DEF Steady
<1> DEFINE e == edits[1]
           p == PlanOf(t, e)
           n == p.targets[1]
           w == StartWork(t)
           M == Movable(t)
           W == Writable(t)
           a == ApplyValue(w, p)
           b == ApplyFirst(a, p)
           c == ApplyNext(b, p)
           d == ApplyParent(c, p)
           f == Progress(t, edits)
<1>1. 1 \in DOMAIN edits /\ PlanAccepted(t, e) /\ 1 \in 1..1 /\ \A i \in 1..1 : i = 1
  BY RequestsAssumption DEF Accepted
<1>2. f[0] = w /\ f[1] = ApplyPlan(w, p)
  <2>1. Len(edits) \in Nat /\ 1 - 1 = 0
    OBVIOUS
  <2> QED BY <1>1, <2>1, ProgressSpec
<1> HIDE DEF f
<1>3. /\ w.t = t /\ w.ok = TRUE /\ w.parents = <<>> /\ w.vals = <<>>
      /\ DOMAIN w = {"t", "vals", "parents", "kids", "ok"}
  BY DEF StartWork
<1>4. f[1] = d
  BY <1>2, <1>3 DEF ApplyPlan
<1>5. IsTree(t) /\ Acyclic(t) /\ Laid(t, F) /\ NoNode \notin Nodes
  BY NodesAssumption DEF Sound, Laid
<1>6. PlanFits(t, p, F, M, W) /\ PlanKeeps(t, p)
  BY <1>1, <1>5, PlanOfFits, PlanOfKeeps
<1>7. p.edit = e /\ p.targets = Evaluate(t, e.target) /\ p.next = Resolve(t, e.next)
  BY DEF PlanOf
<1>8. IsStructural(e) => Len(p.targets) = 1
  BY <1>1, <1>7 DEF PlanAccepted
<1>9. IsStructural(e) => n \in Nodes /\ t.up[n] # NoNode
  BY <1>6, <1>7 DEF PlanFits
<1>10. IsWork(w, t, M, W)
  BY <1>5, StartSpec
<1> HIDE DEF w, M, W, p, e
\* The edit is steady when it is applied, to the tree it was planned on.
<1>11. SteadyEdit(t, p)
  <2>1. ASSUME p.edit.next # Keep PROVE Forward(t, n, p.next)
    <3>1. e.next = Detach
      BY <1>7, <2>1 DEF e
    <3>2. p.next = NoNode
      BY <1>7, <3>1 DEF Resolve, Detach
    <3>3. n \in Nodes /\ t.up[n] \in Nodes
      BY <1>5, <1>7, <1>9, <2>1, TreeFields DEF IsStructural
    <3> DEFINE ks == t.kids[t.up[n]]
    <3>4. ks \in Seq(Nodes) /\ NoNode \notin ToSet(ks)
      BY <1>5, <3>3, KidsAreNodes
    <3> HIDE DEF ks
    <3>5. IndexOf(ks, NoNode) = 0
      BY <3>4, IndexOfSpec
    <3>6. 0 \notin 1..IndexOf(ks, n)
      OBVIOUS
    <3> QED BY <3>2, <3>5, <3>6 DEF Forward, ks
  <2>2. p.edit.parent # Keep => p.parent # n /\ ~ IsDescendant(t, n, p.parent)
    BY <1>6 DEF PlanKeeps
  <2> QED BY <2>1, <2>2 DEF SteadyEdit
\* And if it fails, it has moved nothing and written one value at most.
<1>12. ASSUME ~ d.ok PROVE Single(d.parents) /\ Single(d.vals)
  <2>1. IsWork(a, t, M, W) /\ a.t.up = t.up /\ a.ok = TRUE /\ a.parents = <<>>
    BY <1>3, <1>6, <1>10, ApplyValueSpec DEF PlanFits, Written
  <2>2. IsStructural(e) => Single(a.vals)
    BY <1>3, <1>8, OneWrite
  <2> HIDE DEF a
  <2>3. /\ IsWork(b, t, M, W) /\ b.t.up = a.t.up
        /\ b.parents = a.parents /\ b.vals = a.vals
    <3>1. p.edit.first # Keep => n \in Nodes
      BY <1>7, <1>9 DEF IsStructural
    <3> QED BY <2>1, <3>1, ApplyFirstSpec
  <2>4. /\ IsWork(c, t, M, W) /\ c.t.up = b.t.up
        /\ c.parents = b.parents /\ c.vals = b.vals
    <3>1. p.edit.next # Keep => n \in Nodes /\ b.t.up[n] # NoNode
      BY <1>7, <1>9, <2>1, <2>3 DEF IsStructural
    <3> HIDE DEF b, n
    <3> QED BY <2>3, <3>1, ApplyNextSpec DEF n
  <2>5. d.parents = c.parents /\ d.vals = c.vals
    <3> DEFINE old == c.t.up[n]
               r == SaveKids(c, old)
               s == SaveKids(r, p.parent)
    <3>1. CASE ~ c.ok \/ p.edit.parent = Keep
      <4>1. d = c
        BY <3>1 DEF ApplyParent
      <4> QED BY <4>1
    <3>2. CASE c.ok /\ p.edit.parent # Keep
      <4>1. n \in Nodes /\ old \in Nodes /\ p.parent \in Nodes
        BY <1>5, <1>6, <1>7, <1>9, <2>1, <2>3, <2>4, <3>2, TreeFields
           DEF PlanFits, IsStructural
      <4>2. IsWork(r, t, M, W) /\ r.ok = c.ok /\ r.parents = c.parents /\ r.vals = c.vals
        BY <2>4, <4>1, SaveKidsSpec
      <4>3. \/ d = Fail(r)
            \/ d.ok = s.ok
        <5>1. IsWork(s, t, M, W)
          BY <4>1, <4>2, SaveKidsSpec
        <5>2. DOMAIN s = {"t", "vals", "parents", "kids", "ok"}
          BY <5>1 DEF IsWork, WorkTypes
        <5>3. r = SaveKids(c, c.t.up[p.targets[1]]) /\ s = SaveKids(r, p.parent)
          OBVIOUS
        <5> HIDE DEF c, r, s
        <5> QED BY <3>2, <5>2, <5>3, ApplyParentOutcome
      <4>4. s.ok = c.ok
        <5> HIDE DEF r
        <5>1. s.ok = r.ok
          BY <4>1, <4>2, SaveKidsSpec
        <5> QED BY <4>2, <5>1
      <4>5. d = Fail(r)
        BY <1>12, <3>2, <4>3, <4>4
      <4> HIDE DEF r, d
      <4> QED BY <4>2, <4>5, FailSpec
    <3> QED BY <3>1, <3>2
  <2>6. IsStructural(e)
    <3> SUFFICES ASSUME ~ IsStructural(e) PROVE FALSE
      OBVIOUS
    <3>1. p.edit.first = Keep /\ p.edit.next = Keep /\ p.edit.parent = Keep
      BY <1>7 DEF IsStructural
    <3>2. b = a
      BY <3>1 DEF ApplyFirst
    <3> HIDE DEF b
    <3>3. c = b
      BY <3>1 DEF ApplyNext
    <3> HIDE DEF c
    <3>4. d = c
      BY <3>1 DEF ApplyParent
    <3> QED BY <1>12, <2>1, <3>2, <3>3, <3>4
  <2> HIDE DEF b, c, d
  <2> QED BY <2>1, <2>2, <2>3, <2>4, <2>5, <2>6, ShortIsSingle
<1> HIDE DEF d
<1>13. \A i \in 1..Len(edits) :
          f[i-1].ok => SteadyEdit(f[i-1].t, PlanOf(t, edits[i]))
  <2>1. 1 - 1 = 0
    OBVIOUS
  <2> QED BY <1>1, <1>2, <1>3, <1>11, <2>1 DEF p, e
<1>14. ~ f[Len(edits)].ok => Single(f[Len(edits)].parents) /\ Single(f[Len(edits)].vals)
  BY <1>4, <1>12
<1> QED BY <1>13, <1>14 DEF Steady, f

\* No request relinks a next sibling to a node, or makes several edits.
SingleEdits == \A edits \in Sets : Len(edits) = 1 /\ edits[1].next \in {Keep, Detach}

\* Then no Set ties a knot: the code keeps all that is proved of steady Sets.
THEOREM SingleEditsAreSteady == SingleEdits => (Spec => SteadySpec)
<1> SUFFICES ASSUME SingleEdits PROVE Spec => SteadySpec
  OBVIOUS
<1>1. Init => Intact
  BY InitSound DEF Intact
<1>2. Intact /\ [Next]_vars => [SteadyNext]_vars
  <2> SUFFICES ASSUME Intact, Next PROVE SteadyNext
    OBVIOUS
  <2>1. Sound(tree, fresh) /\ Root \notin fresh
    BY DEF Intact, Standing
  <2>2. \A edits \in Sets : Steady(tree, edits)
    BY <2>1, OneEditIsSteady DEF SingleEdits
  <2> QED BY <2>2 DEF Next, SteadyNext
<1>3. Intact /\ [SteadyNext]_vars => Intact'
  BY SteadyStep
<1> QED BY <1>1, <1>2, <1>3, PTL DEF Spec, SteadySpec
=============================================================================
