------------------------------ MODULE NodeTree ------------------------------
(***************************************************************************)
(* The configuration tree (goimpl/internal/tree/tree.go) under the requests *)
(* of one session: Create stages nodes, Set edits values and relinks,       *)
(* Delete removes, the server appends results.  Each request runs under the *)
(* tree's one lock, so it is one action; what can go wrong lies in long     *)
(* sequences of requests and inside a Set of several edits.                 *)
(*                                                                          *)
(* A tree is a record of functions on node identities:                      *)
(*   kids  Children   up  Parent (NoNode for none)   val  Value   key  Key  *)
(* As in the code a node that is cut loose keeps its Parent.                *)
(***************************************************************************)
EXTENDS Authz, Lists, FiniteSets

CONSTANTS
    Nodes,        \* every node there can be (bounds the creations)
    NoNode,
    Vals,         \* node values
    InitialTree,  \* a tree with the session's containers
    Root, NewNodes, QueryResults, Errors,   \* its nodes the server points at
    Creates,      \* requests: [parent, key]; parent is an expression, <<>> if absent
    Sets,         \* requests: sequences of edits
    Deletes       \* requests: sequences of expressions

ASSUME NodesAssumption ==
    /\ IsFiniteSet(Nodes) /\ NoNode \notin Nodes
    /\ {Root, NewNodes, QueryResults, Errors} \subseteq Nodes

VARIABLES
    tree,
    fresh,    \* the nodes not created yet
    reply     \* [ok, gone]: did the last request succeed, what it deleted

vars == <<tree, fresh, reply>>

-----------------------------------------------------------------------------
(* Expressions: a sequence of segments [keys, vals], the sets of keys and   *)
(* values a segment's regexps match; vals = {} without a value predicate.    *)

\* The chain of Parent pointers from n up to a node without one, n last.
Chain(t, n) ==
    LET chain[m \in Nodes] ==
            IF t.up[m] = NoNode THEN <<m>> ELSE Append(chain[t.up[m]], m)
    IN  chain[n]

\* NodePath
NodePath(t, n) == LET c == Tail(Chain(t, n)) IN [i \in 1..Len(c) |-> t.key[c[i]]]

May(t, op, n) == Allowed(op, NodePath(t, n))

Matches(t, seg, n) ==
    /\ t.key[n] \in seg.keys
    /\ seg.vals # {} => May(t, "read", n) /\ t.val[n] \in seg.vals

\* The children of the nodes of current that match a segment, in order.
Matching(t, current, seg) ==
    LET Of(ks) == Picked(ks, {i \in DOMAIN ks : Matches(t, seg, ks[i])})
        found[i \in 0..Len(current)] ==
            IF i = 0 THEN <<>> ELSE found[i-1] \o Of(t.kids[current[i]])
    IN  found[Len(current)]

\* evaluateAs: segment by segment from the root, then what may be read.
Evaluate(t, expr) ==
    LET level[i \in 0..Len(expr)] ==
            IF i = 0 THEN <<Root>> ELSE Matching(t, level[i-1], expr[i])
        matches == level[Len(expr)]
    IN  Picked(matches, {i \in DOMAIN matches : May(t, "read", matches[i])})

IndexOf(seq, n) == SelectInSeq(seq, LAMBDA m : m = n)

\* isDescendant: strictly below root, by the Parent pointers.
IsDescendant(t, root, n) == Contains(Front(Chain(t, n)), root)

Children(t, S) == UNION {ToSet(t.kids[n]) : n \in S}

\* Everything below the nodes in S, S included, by the Children.
Below(t, S) ==
    LET below[X \in SUBSET Nodes] ==
            LET more == Children(t, X) \ X
            IN  IF more = {} THEN X ELSE below[X \cup more]
    IN  below[S]

\* Mutant: the subtree that goes with a node is not consulted.
DeleteAllowedTop(t, S) == \A n \in S : May(t, "delete", n)
\* requireDeleteAll: delete permission on the nodes and all beneath them.
DeleteAllowed(t, S) == \A n \in Below(t, S) : May(t, "delete", n)

-----------------------------------------------------------------------------
(* Set.  An edit is a record                                                *)
(*   target  an expression                                                  *)
(*   value   {} or the set of the new value                                 *)
(*   first, next, parent   pointers: Keep (absent), Detach (PointerNone), or *)
(*                         To(expression)                                   *)

To(expr) == [kind |-> "to", expr |-> expr]
Keep   == [kind |-> "keep", expr |-> <<>>]
Detach == [kind |-> "none", expr |-> <<>>]

IsStructural(e) == e.first # Keep \/ e.next # Keep \/ e.parent # Keep

\* resolvePointerAsChildLocked: the one node an expression names.
Resolves(t, p) == p.kind = "to" => Len(Evaluate(t, p.expr)) = 1
Resolve(t, p) == IF p.kind = "to" THEN Evaluate(t, p.expr)[1] ELSE NoNode

\* droppedByFirstChild
DroppedByFirst(t, par, n) ==
    IF n = NoNode THEN ToSet(t.kids[par])
    ELSE {t.kids[par][i] : i \in 1..(IndexOf(t.kids[par], n) - 1)}

\* droppedByNextSibling
DroppedByNext(t, m, n) ==
    LET par == t.up[m]
        ks  == t.kids[par]
        end == IF n = NoNode THEN Len(ks) ELSE IndexOf(ks, n) - 1
    IN  IF par = NoNode \/ IndexOf(ks, m) = 0 THEN {}
        ELSE {ks[i] : i \in (IndexOf(ks, m) + 1)..end}

\* The plan of an edit, resolved against the tree before any edit.
PlanOf(t, e) ==
    [edit    |-> e,
     targets |-> Evaluate(t, e.target),
     first   |-> Resolve(t, e.first),
     next    |-> Resolve(t, e.next),
     parent  |-> Resolve(t, e.parent)]

\* newParent, as planned: n moves below p.
\* Mutant: any node may be moved, not only a staged one.
ParentAcceptedAnywhere(t, n, p) ==
    /\ May(t, "write", p)
    /\ p # n /\ ~ IsDescendant(t, n, p)
\* Mutant: a node may move below itself.
ParentAcceptedAnyShape(t, n, p) ==
    IsDescendant(t, NewNodes, n) /\ May(t, "write", p)
ParentAccepted(t, n, p) ==
    /\ IsDescendant(t, NewNodes, n)
    /\ May(t, "write", p)
    /\ p # n /\ ~ IsDescendant(t, n, p)

\* The planning phase of SetAs accepts the edit.
PlanAccepted(t, e) ==
    LET targets == Evaluate(t, e.target)
        n       == targets[1]
    IN  /\ e.value # {} => \A m \in ToSet(targets) : May(t, "write", m)
        /\ IsStructural(e) =>
             /\ Len(targets) = 1
             /\ May(t, "write", n)
             /\ Resolves(t, e.first) /\ Resolves(t, e.next) /\ Resolves(t, e.parent)
             /\ e.first # Keep =>
                  DeleteAllowed(t, DroppedByFirst(t, n, Resolve(t, e.first)))
             /\ e.next # Keep =>
                  DeleteAllowed(t, DroppedByNext(t, n, Resolve(t, e.next)))
             /\ e.parent # Keep => ParentAccepted(t, n, Resolve(t, e.parent))

(***************************************************************************)
(* applySetPlans.  Work in progress is a record: t the tree, vals and       *)
(* parents the undo lists in the order written, kids the saved child lists, *)
(* and ok.  The list of touched nodes, which is only reported, is left out. *)
(***************************************************************************)
StartWork(t) == [t |-> t, vals |-> <<>>, parents |-> <<>>, kids |-> <<>>,
                 ok |-> TRUE]

\* snapshotChildren
SaveKids(w, n) ==
    LET saved == [m \in DOMAIN w.kids \cup {n} |->
                     IF m = n THEN w.t.kids[n] ELSE w.kids[m]]
    IN  IF n \in DOMAIN w.kids THEN w ELSE [w EXCEPT !.kids = saved]

Fail(w) == [w EXCEPT !.ok = FALSE]

\* rollback(): the undo lists are walked from the front.
Undone(f, undos) ==
    LET put[i \in 0..Len(undos)] ==
            IF i = 0 THEN f ELSE [put[i-1] EXCEPT ![undos[i].node] = undos[i].old]
    IN  put[Len(undos)]

Rollback(w) ==
    [w.t EXCEPT !.val  = Undone(@, w.vals),
                !.up   = Undone(@, w.parents),
                !.kids = [n \in Nodes |-> IF n \in DOMAIN w.kids THEN w.kids[n]
                                          ELSE w.t.kids[n]]]

\* The value edit, target by target.
Write(w, n, value) ==
    [w EXCEPT !.vals = Append(@, [node |-> n, old |-> w.t.val[n]]),
              !.t.val[n] = value]

ApplyValue(w, p) ==
    LET value == CHOOSE x \in p.edit.value : TRUE
        done[i \in 0..Len(p.targets)] ==
            IF i = 0 THEN w ELSE Write(done[i-1], p.targets[i], value)
    IN  IF p.edit.value = {} THEN w ELSE done[Len(p.targets)]

\* relinkFirstChild
ApplyFirst(w, p) ==
    LET n  == p.targets[1]
        s  == SaveKids(w, n)
        at == IndexOf(s.t.kids[n], p.first)
    IN  IF ~ w.ok \/ p.edit.first = Keep THEN w
        ELSE IF p.first = NoNode THEN [s EXCEPT !.t.kids[n] = <<>>]
        ELSE IF s.t.up[p.first] # n \/ at = 0 THEN Fail(s)
        ELSE [s EXCEPT !.t.kids[n] = SubSeq(@, at, Len(@))]

\* relinkNextSibling
ApplyNext(w, p) ==
    LET n    == p.targets[1]
        par  == w.t.up[n]
        s    == SaveKids(w, par)
        at   == IndexOf(s.t.kids[par], n)
        next == IndexOf(s.t.kids[par], p.next)
    IN  IF ~ w.ok \/ p.edit.next = Keep THEN w
        ELSE IF at = 0 THEN Fail(s)
        ELSE IF p.next = NoNode THEN [s EXCEPT !.t.kids[par] = SubSeq(@, 1, at)]
        ELSE IF s.t.up[p.next] # par \/ next = 0 THEN Fail(s)
        ELSE [s EXCEPT !.t.kids[par] = SubSeq(@, 1, at) \o SubSeq(@, next, Len(@))]

\* newParent: removed where it was resolved, appended under the new parent.
\* Mutant: the old parent still lists the node.
ApplyParentLeavesLink(w, p) ==
    LET n   == p.targets[1]
        old == w.t.up[n]
        s   == SaveKids(SaveKids(w, old), p.parent)
    IN  IF ~ w.ok \/ p.edit.parent = Keep THEN w
        ELSE IF IndexOf(s.t.kids[old], n) = 0 THEN Fail(SaveKids(w, old))
        ELSE [s EXCEPT !.parents = Append(@, [node |-> n, old |-> old]),
                       !.t.up[n] = p.parent,
                       !.t.kids[p.parent] = Append(@, n)]
ApplyParent(w, p) ==
    LET n   == p.targets[1]
        old == w.t.up[n]
        s   == SaveKids(SaveKids(w, old), p.parent)
        at  == IndexOf(s.t.kids[old], n)
        cut == [s.t.kids EXCEPT ![old] = RemoveAt(@, at)]
    IN  IF ~ w.ok \/ p.edit.parent = Keep THEN w
        ELSE IF at = 0 THEN Fail(SaveKids(w, old))
        ELSE [s EXCEPT !.parents = Append(@, [node |-> n, old |-> old]),
                       !.t.up[n] = p.parent,
                       !.t.kids  = [cut EXCEPT ![p.parent] = Append(@, n)]]

ApplyPlan(w, p) ==
    IF w.ok THEN ApplyParent(ApplyNext(ApplyFirst(ApplyValue(w, p), p), p), p)
    ELSE w

\* Mutant: the child lists are not restored.
SettleKeepsKids(w) ==
    [ok |-> w.ok,
     tree |-> IF w.ok THEN w.t ELSE [Rollback(w) EXCEPT !.kids = w.t.kids]]
\* The outcome: the applied work, or everything rolled back.
Settle(w) == [ok |-> w.ok, tree |-> IF w.ok THEN w.t ELSE Rollback(w)]

\* The edits, one after the other: the work after each of them.
Progress(t, edits) ==
    LET work[i \in 0..Len(edits)] ==
            IF i = 0 THEN StartWork(t) ELSE ApplyPlan(work[i-1], PlanOf(t, edits[i]))
    IN  work

Accepted(t, edits) == \A i \in DOMAIN edits : PlanAccepted(t, edits[i])

\* SetAs
SetOutcome(t, edits) ==
    IF Accepted(t, edits) THEN Settle(Progress(t, edits)[Len(edits)])
    ELSE [ok |-> FALSE, tree |-> t]

-----------------------------------------------------------------------------
(* The other operations.                                                    *)

\* AppendChild of a new node.
WithChild(t, par, n, key, val) ==
    [t EXCEPT !.kids[par] = Append(@, n), !.up[n] = par,
              !.key[n] = key, !.val[n] = val]

\* CreateStagedAs finds the parent: the staging node or one below it.
CreateParents(t, expr) ==
    IF expr = <<>> THEN {NewNodes}
    ELSE {p \in ToSet(Evaluate(t, expr)) :
             /\ Len(Evaluate(t, expr)) = 1
             /\ p = NewNodes \/ IsDescendant(t, NewNodes, p)}

\* Mutant: the child is looked for by its key, which siblings may share.
FirstListedByKey(t, ks, i) ==
    i = SelectInSeq(ks, LAMBDA m : t.key[m] = t.key[ks[i]])
\* indexOfChild finds the first listing.
FirstListed(t, ks, i) == i = IndexOf(ks, ks[i])

\* removeChild of each node of gone from its parent; their order is immaterial.
RemoveChildren(t, gone) ==
    LET Removed(p, i) == LET n == t.kids[p][i]
                         IN  n \in gone /\ t.up[n] = p /\ FirstListed(t, t.kids[p], i)
    IN  [t EXCEPT !.kids = [p \in Nodes |->
            Picked(t.kids[p], {i \in DOMAIN t.kids[p] : ~ Removed(p, i)})]]

\* DeleteAs: the nodes matched by any expression.
Matched(t, exprs) == UNION {ToSet(Evaluate(t, exprs[i])) : i \in DOMAIN exprs}

\* IsReachable, by the Parent pointers: every link is confirmed by a
\* Children list.
\* Mutant: the Parent pointers are believed.
IsReachableByParents(t, n) == Chain(t, n)[1] = Root
IsReachable(t, n) ==
    LET c == Chain(t, n)
    IN  c[1] = Root /\ \A i \in 2..Len(c) : IndexOf(t.kids[c[i-1]], c[i]) # 0

Created == Nodes \ fresh

Init ==
    /\ tree = InitialTree
    /\ fresh = {n \in Nodes : InitialTree.key[n] = NoNode}
    /\ reply = [ok |-> TRUE, gone |-> {}]

Create(req) ==
    LET n == CHOOSE m \in fresh : TRUE
        parents == CreateParents(tree, req.parent)
    IN  /\ fresh # {}
        /\ IF parents = {}
           THEN reply' = [ok |-> FALSE, gone |-> {}] /\ UNCHANGED <<tree, fresh>>
           ELSE /\ \E p \in parents :
                     tree' = WithChild(tree, p, n, req.key, req.val)
                /\ fresh' = fresh \ {n}
                /\ reply' = [ok |-> TRUE, gone |-> {}]

Set(edits) ==
    LET out == SetOutcome(tree, edits)
    IN  /\ tree' = out.tree
        /\ reply' = [ok |-> out.ok, gone |-> {}]
        /\ UNCHANGED fresh

Delete(exprs) ==
    LET gone == Matched(tree, exprs)
        ok   == DeleteAllowed(tree, gone)
    IN  /\ tree' = IF ok THEN RemoveChildren(tree, gone) ELSE tree
        /\ reply' = [ok |-> ok, gone |-> IF ok THEN gone ELSE {}]
        /\ UNCHANGED fresh

\* AppendUnder, for a query's results (handleQuery) and an error (recordError,
\* whose message and request number below the error are left out).
AppendUnder(par, key, val) ==
    /\ fresh # {}
    /\ LET n == CHOOSE m \in fresh : TRUE
       IN  /\ tree' = WithChild(tree, par, n, key, val)
           /\ fresh' = fresh \ {n}
           /\ reply' = [ok |-> TRUE, gone |-> {}]

Next ==
    \/ \E req \in Creates : Create(req)
    \/ \E edits \in Sets : Set(edits)
    \/ \E exprs \in Deletes : Delete(exprs)
    \/ AppendUnder(QueryResults, "Query", CHOOSE v \in Vals : TRUE)
    \/ AppendUnder(Errors, "Error", CHOOSE v \in Vals : TRUE)

Spec == Init /\ [][Next]_vars
-----------------------------------------------------------------------------
Live(t) == Below(t, {Root})

\* No node is its own ancestor: the walks up the Parent pointers (NodePath,
\* IsReachable, the access checks) all end.
EndsWithin(t, n, steps) ==
    LET above[k \in 0..steps] ==
            IF k = 0 THEN n
            ELSE LET m == above[k-1] IN IF m = NoNode THEN NoNode ELSE t.up[m]
    IN  above[steps] = NoNode
NoParentCycle == \A n \in Nodes : EndsWithin(tree, n, Cardinality(Nodes))

(* What the constants stand for.                                            *)

IsTree(t) ==
    /\ t = [kids |-> t.kids, up |-> t.up, val |-> t.val, key |-> t.key]
    /\ t.kids \in [Nodes -> Seq(Nodes)] /\ t.up \in [Nodes -> Nodes \cup {NoNode}]
    /\ t.val = [n \in Nodes |-> t.val[n]] /\ t.key = [n \in Nodes |-> t.key[n]]

\* A node is listed by its Parent only, and once.
Tied(t) ==
    \A p \in Nodes : Once(t.kids[p]) /\ \A c \in ToSet(t.kids[p]) : t.up[c] = p

Containers == {NewNodes, QueryResults, Errors}

\* The tree the server starts with: a sound one, in which the session's
\* containers are in place (EnsurePath) and no node to come has a link.
ASSUME InitialTreeAssumption ==
    LET t == InitialTree
        blank == {n \in Nodes : t.key[n] = NoNode}
    IN  /\ IsTree(t) /\ Tied(t)
        /\ t.up[Root] = NoNode
        /\ \A n \in Nodes : EndsWithin(t, n, Cardinality(Nodes))
        /\ blank \cap ({Root} \cup Containers) = {}
        /\ \A n \in Nodes : t.up[n] \notin blank /\ ToSet(t.kids[n]) \cap blank = {}
        /\ Containers \subseteq Live(t)
        /\ \E ss, conn \in Nodes \ blank :
              /\ t.up[ss] = Root /\ t.key[ss] = "Sessions"
              /\ t.up[conn] = ss /\ t.key[conn] = OwnSession
              /\ \A c \in Containers : t.up[c] = conn

\* ParseExpression refuses an expression without a segment.
IsExpression(e) == Len(e) \in Nat \ {0}
Names(p) == p.kind = "to" /\ IsExpression(p.expr)

ASSUME RequestsAssumption ==
    /\ \A req \in Creates : req.parent = <<>> \/ IsExpression(req.parent)
    /\ \A edits \in Sets :
          /\ Len(edits) \in Nat /\ DOMAIN edits = 1..Len(edits)
          /\ \A i \in DOMAIN edits :
                LET e == edits[i]
                IN  /\ IsExpression(e.target)
                    /\ e.first \in {Keep, Detach} \/ Names(e.first)
                    /\ e.next \in {Keep, Detach} \/ Names(e.next)
                    /\ e.parent = Keep \/ Names(e.parent)
    /\ \A exprs \in Deletes : \A i \in DOMAIN exprs : IsExpression(exprs[i])

-----------------------------------------------------------------------------
\* However the tree was edited, a live node is listed exactly once, by the
\* node its Parent names: Children and Parent never drift apart.
WellFormed ==
    \A n \in Live(tree) \ {Root} :
        /\ tree.up[n] \in Live(tree)
        /\ \A p \in Live(tree) :
             Cardinality({i \in DOMAIN tree.kids[p] : tree.kids[p][i] = n})
               = IF p = tree.up[n] THEN 1 ELSE 0

\* IsReachable, which cancels queries, answers what the tree really holds.
ReachableIsExact == \A n \in Created : IsReachable(tree, n) <=> n \in Live(tree)

\* The nodes the server holds pointers to stay in the tree.
ContainersStay == Containers \subseteq Live(tree)

\* A request that is refused, at planning or half-way through its edits,
\* leaves the tree as it was.
AllOrNothing == [][~ reply'.ok => tree' = tree]_vars

\* Nothing leaves the tree that its path's rules do not allow to delete,
\* whichever request drops it and however deep it lies.
DropsAreAuthorized ==
    [][\A n \in Live(tree) \ Live(tree') : May(tree, "delete", n)]_vars

\* What was deleted is gone, wherever it was linked.
DeletedIsGone == reply.gone \cap Live(tree) = {}

\* A node moves only out of the staging area, and a value changes only where
\* writing is allowed.
MovesAndWritesAuthorized ==
    [][\A n \in Live(tree) \cap Live(tree') :
          /\ tree.up[n] # tree'.up[n] =>
                /\ IsDescendant(tree, NewNodes, n)
                /\ May(tree, "write", tree'.up[n])
          /\ tree.val[n] # tree'.val[n] => May(tree, "write", n)]_vars

\* The nodes of other sessions: their requests and query results are theirs.
Others(t) ==
    {n \in Live(t) : LET path == NodePath(t, n)
                    IN  InSessions(path) /\ Len(path) > 1 /\ path[2] # OwnSession}

\* Whatever a session asks for, with expressions that match every session's
\* nodes too, another session's subtree is as it was at the start: no node
\* was lost, gained or changed.
OtherSessionsUntouched ==
    /\ Others(tree) = Others(InitialTree)
    /\ \A n \in Others(InitialTree) :
          /\ tree.kids[n] = InitialTree.kids[n] /\ tree.up[n] = InitialTree.up[n]
          /\ tree.val[n] = InitialTree.val[n]
=============================================================================
