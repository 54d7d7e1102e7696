---------------------------- MODULE QueryRunner ----------------------------
(***************************************************************************)
(* One active query (goimpl/internal/query/query.go): the Runner goroutine  *)
(* that samples the tree, aggregates and transfers, against the sessions    *)
(* that change the tree, the tree's change notification                     *)
(* (goimpl/internal/tree/tree.go, ChangedSince and notifyChanged) and the   *)
(* Delete or disconnect that cancels the query.                             *)
(*                                                                          *)
(* A mutation changes the tree under its lock and notifies after releasing  *)
(* it, so the two are separate steps here.  A watched node's value is its   *)
(* version, and two values are Equal when their versions have the same      *)
(* parity: a value can change and change back.                              *)
(***************************************************************************)
EXTENDS Integers, Sequences, FiniteSets, SequencesExt

CONSTANTS
    Watched,        \* the nodes the query's expression can match
    Key,            \* [Watched -> keys]: siblings may share one
    Numeric,        \* the watched nodes whose values can be aggregated
    Queries,        \* [mode, aggregated]: the CollectionMode, and whether
                    \* there is an aggregationMethod and interval
    InitiallyThere, \* the watched nodes that exist when the query starts
    MaxMutations,   \* bound on the other sessions' mutations
    MaxTicks        \* bound on the collection ticks of an interval query

ASSUME QueriesAssumption ==
    Queries \subseteq [mode : {"once", "interval", "onChange"},
                       aggregated : BOOLEAN]

ASSUME WatchedAssumption ==
    /\ IsFiniteSet(Watched)
    /\ InitiallyThere \subseteq Watched /\ Numeric \subseteq Watched

ASSUME RunnerBounds == MaxMutations \in Nat /\ MaxTicks \in Nat

VARIABLES
    \* The tree.
    version,     \* [Watched -> Int]: 0 not created yet, -1 removed
    mutations,   \* how many there were (bounds the run)
    owing,       \* mutations whose notifyChanged has not run yet
    changeGen,
    \* The Runner.
    query,       \* the query it was made for
    pc,
    taken,       \* history: every report of a sample, oldest first
    lastValues,  \* [Watched -> Nat]: the version last reported, 0 for none
    collected, pending, outbox,  \* reports on their way, see Report
    delivered,   \* what was pushed to the client
    gen, ch,     \* the generation last seen, the channel it came with
    base,        \* the generation at which the Runner began to listen
    abandoned,   \* history: a wake-up that was ready was not taken, and
                 \* nothing was sampled since
    ticks,
    \* The session.
    cancel       \* "no", "detached", "notified", "stopped"

treeVars   == <<query, version, mutations, owing, changeGen>>
reportVars == <<taken, lastValues, collected, pending, outbox, delivered>>
waitVars   == <<gen, ch, base, abandoned>>
vars == <<treeVars, reportVars, waitVars, pc, ticks, cancel>>

NotYet == -1        \* no generation seen
Closed == -2        \* ChangedSince's channel that is ready at once

\* A report of a sample, copied from the tree under its lock (SampleAs); an
\* aggregate is represented by the samples in it.
Report(n) == <<n, version[n]>>

Value(v) == v % 2

-----------------------------------------------------------------------------
(* The tree: ChangedSince and notifyChanged.                                *)

\* Mutant: without the generation, a fresh channel each time.
ChangedSinceFresh(since) == [ch |-> changeGen, gen |-> changeGen]
\* A channel is named by the generation it was current at.
ChangedSince(since) ==
    [ch |-> IF since # changeGen THEN Closed ELSE changeGen, gen |-> changeGen]

Ready == ch = Closed \/ ch # changeGen

\* Another session's request: n gets a new value, is created or is removed,
\* or the tree changes elsewhere.
Mutate ==
    /\ mutations < MaxMutations
    /\ mutations' = mutations + 1
    /\ owing' = owing + 1
    /\ \/ \E n \in Watched :
            /\ version[n] >= 0
            /\ \/ version' = [version EXCEPT ![n] = @ + 1]
               \/ version[n] > 0 /\ version' = [version EXCEPT ![n] = -1]
       \/ UNCHANGED version
    /\ UNCHANGED <<query, changeGen, reportVars, waitVars, pc, ticks, cancel>>

Notify ==
    /\ owing > 0
    /\ owing' = owing - 1
    /\ changeGen' = changeGen + 1
    /\ UNCHANGED <<query, version, mutations, reportVars, waitVars, pc, ticks, cancel>>

-----------------------------------------------------------------------------
(* Cancelling (handleDelete, reapCancelledQueries; or run's teardown).      *)

\* The session's goroutine is free: a once query runs inside handleQuery.
SessionFree == query.mode = "once" => pc = "done"

\* The client deletes the query's results node ...
Detach ==
    /\ cancel = "no" /\ SessionFree
    /\ cancel' = "detached"
    /\ UNCHANGED <<treeVars, reportVars, waitVars, pc, ticks>>

DetachNotify ==
    /\ cancel = "detached"
    /\ cancel' = "notified"
    /\ changeGen' = changeGen + 1
    /\ UNCHANGED <<query, version, mutations, owing, reportVars, waitVars, pc, ticks>>

\* Mutant: only the end of the session stops a query.
StopAtTeardown ==
    /\ cancel = "no" /\ SessionFree
    /\ cancel' = "stopped"
    /\ UNCHANGED <<treeVars, reportVars, waitVars, pc, ticks>>
\* ... and reapCancelledQueries finds it unreachable.  A session that ends
\* stops its queries without the Delete.
Stop ==
    /\ cancel \in {"no", "notified"} /\ SessionFree
    /\ cancel' = "stopped"
    /\ UNCHANGED <<treeVars, reportVars, waitVars, pc, ticks>>

-----------------------------------------------------------------------------
(* The Runner's operations on its reports.                                  *)

\* Mutant: every sample is forwarded.
ChangedAlways(n) == TRUE
\* collectChanges: is a sample of n to be reported?
Changed(n) == lastValues[n] = 0 \/ Value(lastValues[n]) # Value(version[n])

\* collect and collectChanges: the samples in some order, once.
Samples == {n \in Watched : version[n] > 0 /\ (query.mode = "onChange" => Changed(n))}

\* Mutant: the promoted reports stay behind.
PromoteKeeps(c) ==
    /\ collected' = c
    /\ pending' = pending \o c
\* promoteCollectedToPending
Promote(c) ==
    /\ collected' = <<>>
    /\ pending' = pending \o c

\* query.Aggregate fails for a key with a sample that is not numeric.
Aggregates(key) ==
    \A s \in ToSet(collected) : Key[s[1]] = key => s[1] \in Numeric

\* The reports of the given nodes, in their order.
Of(nodes, reports) ==
    LET f[i \in 0..Len(reports)] ==
            IF i = 0 THEN <<>>
            ELSE IF reports[i][1] \in nodes THEN Append(f[i-1], reports[i])
            ELSE f[i-1]
    IN  f[Len(reports)]

\* Mutant: the aggregated samples stay for the next aggregation.
AggregateKeeps ==
    /\ pending' = pending \o collected
    /\ UNCHANGED collected
\* aggregate: the keys that cannot be aggregated are skipped.
Aggregate ==
    /\ collected' = <<>>
    /\ pending' = pending \o Of({n \in Watched : Aggregates(Key[n])}, collected)

\* Where the Runner goes on after a pass; onChange first samples gen.
NextPass == IF query.mode = "once" THEN "done"
            ELSE IF query.mode = "interval" THEN "select"
            ELSE IF gen = NotYet THEN "first" ELSE "arm"

-----------------------------------------------------------------------------
(* The Runner's steps.                                                      *)

Init ==
    /\ query \in Queries
    /\ version = [n \in Watched |-> IF n \in InitiallyThere THEN 1 ELSE 0]
    /\ mutations = 0 /\ owing = 0 /\ changeGen = 0
    /\ pc = IF query.mode = "interval" THEN "select" ELSE "collect"
    /\ lastValues = [n \in Watched |-> 0]
    /\ collected = <<>> /\ pending = <<>> /\ outbox = <<>> /\ delivered = <<>>
    /\ taken = <<>>
    /\ gen = NotYet /\ ch = NotYet /\ base = NotYet /\ abandoned = FALSE
    /\ ticks = 0
    /\ cancel = "no"

\* Sampling is atomic: SampleAs matches and copies under one read lock.
\* once aggregates in the same pass.
Collect ==
    /\ pc = "collect"
    /\ LET S == SetToSeq(Samples)
           new == [i \in DOMAIN S |-> Report(S[i])]
           c == collected \o new
       IN  /\ taken' = taken \o new
           /\ IF query.aggregated THEN collected' = c /\ UNCHANGED pending
              ELSE Promote(c)
           /\ lastValues' = [n \in Watched |->
                IF query.mode = "onChange" /\ n \in Samples THEN version[n]
                ELSE lastValues[n]]
    /\ pc' = IF query.mode = "once" /\ query.aggregated THEN "aggregate"
             ELSE IF query.mode = "once" \/ (query.mode = "onChange" /\ gen = NotYet)
                  THEN "transfer" ELSE NextPass
    /\ abandoned' = FALSE
    /\ UNCHANGED <<treeVars, gen, ch, base, outbox, delivered, ticks, cancel>>

AggregateOnce ==
    /\ pc = "aggregate"
    /\ Aggregate
    /\ pc' = "transfer"
    /\ UNCHANGED <<treeVars, waitVars, taken, lastValues, outbox, delivered, ticks, cancel>>

\* Mutant: an empty transfer is not skipped.
TransferEmptyToo ==
    /\ pc = "transfer"
    /\ pc' = "materialize"
    /\ outbox' = pending /\ pending' = <<>>
    /\ UNCHANGED <<treeVars, waitVars, taken, lastValues, collected, delivered, ticks, cancel>>
\* Mutant: a single result is taken for nothing.
TransferSkipsOne ==
    /\ pc = "transfer"
    /\ pc' = IF Len(pending) <= 1 THEN NextPass ELSE "materialize"
    /\ outbox' = IF Len(pending) <= 1 THEN <<>> ELSE pending
    /\ pending' = <<>>
    /\ UNCHANGED <<treeVars, waitVars, taken, lastValues, collected, delivered, ticks, cancel>>
\* transfer: take what is pending; deliver if there is anything.
Transfer ==
    /\ pc = "transfer"
    /\ pc' = IF pending = <<>> THEN NextPass ELSE "materialize"
    /\ outbox' = pending /\ pending' = <<>>
    /\ UNCHANGED <<treeVars, waitVars, taken, lastValues, collected, delivered, ticks, cancel>>

\* DeliverResults: the results become a subtree, itself a mutation ...
Materialize ==
    /\ pc = "materialize"
    /\ changeGen' = changeGen + 1
    /\ pc' = "push"
    /\ UNCHANGED <<query, version, mutations, owing, waitVars, reportVars, ticks, cancel>>

\* ... and are pushed to the client.
Push ==
    /\ pc = "push"
    /\ delivered' = delivered \o outbox
    /\ outbox' = <<>>
    /\ pc' = NextPass
    /\ UNCHANGED <<treeVars, waitVars, taken, lastValues, collected, pending, ticks, cancel>>

\* "_, gen := waiter.ChangedSince(0)"
First ==
    /\ pc = "first"
    /\ gen' = ChangedSince(0).gen
    /\ base' = changeGen
    /\ pc' = "arm"
    /\ UNCHANGED <<treeVars, reportVars, ch, abandoned, ticks, cancel>>

Arm ==
    /\ pc = "arm"
    /\ ch' = ChangedSince(gen).ch
    /\ gen' = ChangedSince(gen).gen
    /\ pc' = "select"
    /\ UNCHANGED <<treeVars, reportVars, base, abandoned, ticks, cancel>>

\* The cases of the select statement, chosen at random among the ready ones.
Select(next) ==
    /\ pc = "select"
    /\ pc' = next
    /\ abandoned' = (abandoned \/ (ch = Closed /\ next # "collect"))
    /\ UNCHANGED <<treeVars, gen, ch, base, cancel>>

SelectDone ==
    /\ cancel = "stopped"
    /\ Select("done")
    /\ UNCHANGED <<reportVars, ticks>>

SelectChanged ==
    /\ query.mode = "onChange" /\ Ready
    /\ Select("collect")
    /\ UNCHANGED <<reportVars, ticks>>

SelectCollect ==
    /\ query.mode = "interval" /\ ticks < MaxTicks
    /\ ticks' = ticks + 1
    /\ Select("collect")
    /\ UNCHANGED reportVars

SelectAggregate ==
    /\ query.aggregated
    /\ Select(NextPass)
    /\ Aggregate
    /\ UNCHANGED <<taken, lastValues, outbox, delivered, ticks>>

SelectTransfer ==
    /\ Select("transfer")
    /\ UNCHANGED <<reportVars, ticks>>

Runner == Collect \/ AggregateOnce \/ Transfer \/ Materialize \/ Push
          \/ First \/ Arm

Next ==
    \/ Mutate \/ Notify
    \/ Detach \/ DetachNotify \/ Stop
    \/ Runner
    \/ SelectDone \/ SelectChanged \/ SelectCollect \/ SelectAggregate
    \/ SelectTransfer

Spec == Init /\ [][Next]_vars

\* The goroutines keep running; tickers keep ticking, and Go's select picks
\* at random, so a case that is ready again and again is picked.
Fairness ==
    /\ WF_vars(Notify) /\ WF_vars(Runner)
    /\ WF_vars(DetachNotify) /\ WF_vars(cancel = "notified" /\ Stop)
    /\ SF_vars(SelectDone) /\ SF_vars(SelectChanged) /\ SF_vars(SelectCollect)
    /\ SF_vars(SelectAggregate) /\ SF_vars(SelectTransfer)

FairSpec == Spec /\ Fairness

-----------------------------------------------------------------------------
(* Properties.                                                              *)

\* Every report there is, oldest first.
Pipeline == delivered \o outbox \o pending \o collected

About(n, reports) == Of({n}, reports)

\* Type invariant; without aggregation nothing lingers in collected.
TypeOK ==
    /\ version \in [Watched -> -1..(MaxMutations + 1)]
    /\ lastValues \in [Watched -> 0..(MaxMutations + 1)]
    /\ owing \in 0..mutations
    /\ gen \in -1..changeGen
    /\ ~ query.aggregated => collected = <<>>

\* aggregate never skips n's samples.
Usable(n) == query.aggregated => \A m \in Watched : Key[m] = Key[n] => m \in Numeric

\* The client never gets a node's values out of order or one value twice,
\* through any interleaving of ticks, transfers and changes (node.asn:
\* "only forward a sample when a matched node's value actually differs from
\* the last one reported"): consecutive reports of a node are ever newer, and
\* they differ unless aggregate skipped one between them.
ReportsDiffer ==
    query.mode = "onChange" => \A n \in Watched :
        LET rs == About(n, Pipeline)
        IN  \A i \in 1..(Len(rs) - 1) :
                /\ rs[i][2] < rs[i+1][2]
                /\ Usable(n) => Value(rs[i][2]) # Value(rs[i+1][2])

\* Between the sample and the client a report is never lost, duplicated or
\* overtaken by a later one of its node, whichever of the three buffers the
\* ticks find it in.
SamplesInOrder ==
    \A n \in Watched : Usable(n) => About(n, Pipeline) = About(n, taken)

\* A query does not feed itself: materializing its own results wakes it, but
\* every generation is due to a mutation, to the cancelling Delete or to
\* results that were really pushed.
NoSelfWaking == changeGen <= mutations + 1 + Len(delivered \o outbox)

Cancelled == cancel # "no"

\* The client's last word on each live node is the node's value.
UpToDate ==
    \A n \in Watched :
        version[n] > 0 /\ Usable(n) =>
            LET rs == About(n, delivered)
            IN  rs # <<>> /\ Value(rs[Len(rs)][2]) = Value(version[n])

\* Once the Runner listens, a change that is notified while it samples,
\* transfers or waits reaches the client: when the mutations stop the client
\* is up to date, whatever the order of ticks, changes and notifications.
\* Excepted are a change notified before the Runner listens (changeGen = base:
\* nothing was since) and a wake-up lost to another case of the select.
EventuallyUpToDate ==
    query.mode = "onChange" =>
    <>[](Cancelled \/ changeGen = base \/ abandoned \/ UpToDate)

\* tree.go calls the generation counter "race-free": a Runner that was busy
\* "is woken immediately", never "missing that second mutation entirely until
\* some third one happens to occur".
BusyRunnerIsWoken ==
    query.mode = "onChange" => <>[](Cancelled \/ changeGen = base \/ UpToDate)

\* Nothing sampled is stranded in a buffer: in the end the client has it all,
\* unless the query is cancelled.
EventuallyTransferred ==
    <>[](Cancelled \/ \A n \in Watched :
            Usable(n) => About(n, delivered) = About(n, taken))

\* A query whose results node was deleted stops, however busy it is.
CancelStops == cancel = "detached" ~> pc = "done"
=============================================================================
