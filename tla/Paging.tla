------------------------------- MODULE Paging -------------------------------
(***************************************************************************)
(* A Get, or a query's push, whose result does not fit one datagram: the     *)
(* server flattens the result, sends the largest window that fits and turns *)
(* every pointer that leaves the window into a continuation (tree.go         *)
(* FitToSize, server.go sendFittedNodes); the client follows the            *)
(* continuations with Gets of its own (client main.go followQueue,          *)
(* handlePush, continuation.go).                                            *)
(*                                                                          *)
(* The result is a forest in pre-order, index 0 first: up[i] is the index   *)
(* of i's parent, or Match for a matched node.  Flattening links siblings   *)
(* by NextSibling and chains the matched nodes the same way.  Sizes are     *)
(* abstract: a node costs 1, a pointer within the window OffsetCost, a      *)
(* continuation "<base>@<index>" ContinuationCost.  The tree stays as it is *)
(* while its pages are fetched, and an expression that does not mean what   *)
(* was asked for first matches nothing in it.                               *)
(***************************************************************************)
EXTENDS Expressions, FiniteSets

CONSTANTS
    MaxNodes,           \* bound: nodes in a result
    Requests,           \* expressions asked for, of texts without an index
    Limits,             \* the datagram limits a path can have
    Override,           \* MaxDatagramSizeOverride, 0 for none
    OffsetCost, ContinuationCost,
    DipSpan,            \* dipSpan: sizes tried past the search (32)
    MaxFollowups        \* maxFollowups (50)

ASSUME CostAssumption ==
    /\ OffsetCost \in Nat /\ ContinuationCost \in Nat
    /\ OffsetCost <= ContinuationCost
ASSUME LimitsAssumption ==
    Limits \subseteq Nat \ {0} /\ Override \in Nat /\ DipSpan \in Nat
ASSUME BoundsAssumption == MaxNodes \in Nat \ {0} /\ MaxFollowups \in Nat

VARIABLES
    up,         \* the result
    request,    \* what a Get asked for, or where a push's results are
    known,      \* the session's maxDatagramSize, 0 when not yet learned
    pending, seen,   \* continuationQueue: expressions
    covered,    \* and the pairs <<base, index>> of its ranges
    followups,
    dropped,    \* history: continuations not followed for maxFollowups
    times,      \* history: how often each node was delivered
    state       \* "pushing", "fetching", "done", "failed": no answer came

client == <<pending, seen, covered, followups, dropped>>
vars == <<up, request, known, client, times, state>>

Match == -1

Indices == DOMAIN up
Total   == Cardinality(Indices)

\* The pre-orders of n nodes: no node between a node and its parent lies
\* outside the parent's subtree.
Forests(n) ==
    {u \in [0..(n-1) -> Match..(n-2)] :
        \A i \in 0..(n-1) :
            /\ u[i] < i
            /\ \A j \in 0..(n-1) : u[i] < j /\ j < i => u[j] >= u[i]}

-----------------------------------------------------------------------------
(* flattenSubtree and FlattenMatches: where i's pointers lead.              *)

FirstChild(i)  == IF i + 1 \in Indices /\ up[i+1] = i THEN {i + 1} ELSE {}
NextSibling(i) == LET after == {j \in Indices : j > i /\ up[j] = up[i]}
                  IN  IF after = {} THEN {} ELSE {Min(after)}
Targets(i) == FirstChild(i) \cup NextSibling(i)

\* fixupWindow: the continuations of the window of n nodes from start.
Window(start, n) == start..(start + n - 1)
Leaving(i, start, n) == {t \in Targets(i) : t >= start + n}
\* Mutant: a pointer just past the end is kept as an offset.
ContinuationsPastEnd(start, n) ==
    UNION {Leaving(i, start, n) \ {start + n} : i \in Window(start, n)}
Continuations(start, n) == UNION {Leaving(i, start, n) : i \in Window(start, n)}

\* measure: the size of the message that carries the window.
Size(start, n) ==
    n + MapThenSumSet(
            LAMBDA i : LET out == Cardinality(Leaving(i, start, n))
                       IN  out * ContinuationCost
                             + (Cardinality(Targets(i)) - out) * OffsetCost,
            Window(start, n))

Fits(start, n, limit) == Size(start, n) <= limit

\* The binary search of FitToSize among the sizes up to most, round by round:
\* lo fits or is 0, and after most rounds the bounds have met.
Search(start, limit, most) ==
    LET bounds[i \in 0..most] ==
            IF i = 0 THEN [lo |-> 0, hi |-> most]
            ELSE LET b   == bounds[i-1]
                     mid == (b.lo + b.hi + 1) \div 2
                 IN  IF b.lo >= b.hi THEN b
                     ELSE IF Fits(start, mid, limit) THEN [b EXCEPT !.lo = mid]
                     ELSE [b EXCEPT !.hi = mid - 1]
    IN  bounds[most].lo

\* The bounded scan past the search result: the best size after trying those
\* up to n.
ScanDips(start, limit, found, most) ==
    LET best[n \in found..most] ==
            IF n = found THEN found
            ELSE IF n <= best[n-1] + DipSpan /\ Fits(start, n, limit) THEN n
            ELSE best[n-1]
    IN  best[most]

\* Mutant: the search's result is taken for the largest.
FitToSizeUnscanned(start, limit) ==
    IF Total <= start THEN 0
    ELSE IF Fits(start, Total - start, limit) THEN Total - start
    ELSE Search(start, limit, Total - start - 1)
\* FitToSize: how many nodes from start; 0 when not even one fits.
FitToSize(start, limit) ==
    LET total == Total - start
        found == Search(start, limit, total - 1)
    IN  IF total <= 0 THEN 0
        ELSE IF Fits(start, total, limit) THEN total
        ELSE ScanDips(start, limit, found, total - 1)

-----------------------------------------------------------------------------
(* sendFittedNodes: one Get from index start, answered with n nodes, or not *)
(* at all (n = 0).  limits are the path's limits at the two attempts.       *)

Budget == IF Override > 0 THEN Override ELSE known

Learned(limit) == IF Override > 0 THEN known ELSE limit

\* What the first attempt sends.
FirstTry(start) ==
    IF Budget > 0 /\ ~ Fits(start, Total - start, Budget)
    THEN FitToSize(start, Budget) ELSE Total - start

Answer(start, limits) ==
    LET first  == FirstTry(start)
        second == FitToSize(start, limits[1])
    IN  IF first = 0 THEN [n |-> 0, known |-> known]
        ELSE IF Fits(start, first, limits[1]) THEN [n |-> first, known |-> known]
        ELSE IF second # 0 /\ Fits(start, second, limits[2])
             THEN [n |-> second, known |-> Learned(limits[1])]
        ELSE [n |-> 0, known |-> Learned(IF second = 0 THEN limits[1] ELSE limits[2])]

-----------------------------------------------------------------------------
(* The client.                                                              *)

Index(expr) == SplitResumeSuffix(expr).index

\* isCovered
Covered(expr, cov) == <<SplitResumeSuffix(expr).base, Index(expr)>> \in cov

Waiting == {expr \in pending : ~ Covered(expr, covered)}

\* Mutant: any pending continuation, not the smallest.
IsNextAny(expr) == expr \in Waiting
\* Next: a pending expression of the smallest index that is not covered by now.
IsNext(expr) == expr \in Waiting /\ \A e \in Waiting : Index(expr) <= Index(e)

\* Mutant: the end of the range counts as covered.
CoveredByTooFar(base, start, n) == covered \cup ({base} \X Window(start, n + 1))
\* MarkCovered
CoveredBy(base, start, n) == covered \cup ({base} \X Window(start, n))

\* What the client finds in the window of n nodes from start.
Found(base, start, n) == {Continuation(base, t) : t \in Continuations(start, n)}

\* Add for every continuation found, while there is room below maxFollowups.
\* Those found again or already covered are not counted.
Follow(expr, found, cov) ==
    LET old  == {e \in found : Covered(e, cov)}
        new  == found \ (seen \cup old)
        room == MaxFollowups - followups
    IN  \E taken \in SUBSET new :
            /\ Cardinality(taken) = IF Cardinality(new) <= room
                                    THEN Cardinality(new) ELSE room
            /\ pending' = (pending \ {expr}) \cup taken
            /\ seen' = seen \cup old \cup taken
            /\ followups' = followups + Cardinality(taken)
            /\ dropped' = dropped \cup (new \ taken)

Init ==
    /\ \E n \in 1..MaxNodes : up \in Forests(n)
    /\ request \in Requests
    /\ known = 0
    /\ state \in {"fetching", "pushing"}
    /\ pending = IF state = "fetching" THEN {request} ELSE {}
    /\ seen = pending /\ covered = {}
    /\ followups = 0 /\ dropped = {}
    /\ times = [i \in Indices |-> 0]

Deliver(start, n) ==
    times' = [i \in Indices |-> times[i] + IF i \in Window(start, n) THEN 1 ELSE 0]

\* GetFullAs, for the expression that a client asks for.
Matches(base) == ParseExpression(base) = ParseExpression(request)

\* What the client makes of n nodes from start; without an answer it exits.
Receive(expr, n) ==
    LET asked == SplitResumeSuffix(expr)
        cov   == CoveredBy(asked.base, asked.index, n)
    IN  IF n = 0
        THEN state' = "failed" /\ UNCHANGED <<client, times>>
        ELSE /\ covered' = cov
             /\ Follow(expr, Found(asked.base, asked.index, n), cov)
             /\ Deliver(asked.index, n)
             /\ UNCHANGED state

\* followQueue: one Get and its answer.  An expression that matches nothing is
\* answered with no nodes.
Fetch ==
    /\ state = "fetching"
    /\ \E expr \in pending :
        /\ IsNext(expr)
        /\ IF Matches(SplitResumeSuffix(expr).base)
           THEN \E limits \in Limits \X Limits :
                   LET a == Answer(Index(expr), limits)
                   IN  known' = a.known /\ Receive(expr, a.n)
           ELSE /\ pending' = pending \ {expr}
                /\ UNCHANGED <<known, seen, covered, followups, dropped, times, state>>
    /\ UNCHANGED <<up, request>>

\* DeliverResults, and handlePush for what arrives of it: the continuations
\* are queued without counting them, and the push is marked as covered under
\* their base.  A push that could not be sent is nothing the client knows of.
ReceivePush ==
    /\ state = "pushing"
    /\ \E limits \in Limits \X Limits :
        LET a     == Answer(0, limits)
            found == Found(request, 0, a.n)
        IN  /\ known' = a.known
            /\ IF a.n = 0
               THEN state' = "failed" /\ UNCHANGED <<pending, seen, covered, times>>
               ELSE /\ pending' = found
                    /\ seen' = found
                    /\ covered' = UNION {CoveredBy(SplitResumeSuffix(e).base, 0, a.n) :
                                            e \in found}
                    /\ Deliver(0, a.n)
                    /\ state' = "fetching"
    /\ UNCHANGED <<up, request, followups, dropped>>

Finish ==
    /\ state = "fetching" /\ Waiting = {}
    /\ state' = "done"
    /\ UNCHANGED <<up, request, known, client, times>>

\* Another send of the session learns a limit meanwhile.
Learn ==
    /\ state \in {"fetching", "pushing"}
    /\ \E limit \in Limits : known' = Learned(limit)
    /\ UNCHANGED <<up, request, client, times, state>>

Next == Fetch \/ ReceivePush \/ Finish \/ Learn

Spec == Init /\ [][Next]_vars

-----------------------------------------------------------------------------
Delivered == {i \in Indices : times[i] > 0}

\* A client that finishes has the whole result, whatever the shape of the
\* result, the path's limits and the cuts they make, unless it stopped
\* following continuations at maxFollowups.  The continuations, which the
\* server made of the expression and takes apart again, keep its meaning.
Complete == state = "done" /\ dropped = {} => Delivered = Indices

\* "the caller always sees the complete, correctly-linked result": every
\* pointer of a node the client holds leads to one that it holds or will ask
\* for.
NoDanglingLink ==
    \A i \in Delivered :
        Targets(i) \subseteq Delivered \cup {Index(e) : e \in pending \cup dropped}

\* No node is sent twice: following the smallest index first makes the
\* windows meet, so the other continuations into a window are never fetched.
DeliveredOnce == \A i \in Indices : times[i] <= 1

\* The binary search and the scan past it find a window that fits whenever
\* one node does, and the largest there is.
FitIsLargest ==
    \A start \in Indices, limit \in Limits :
        LET n == FitToSize(start, limit)
        IN  /\ n > 0 => Fits(start, n, limit)
            /\ \A m \in (n+1)..(Total - start) : ~ Fits(start, m, limit)
=============================================================================
