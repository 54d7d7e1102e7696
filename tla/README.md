# A TLA+ verification of SNMP_NG (goimpl)

SNMP_NG is a network management protocol over QUIC datagrams: a server holds a
tree of nodes (`internal/tree`), clients `Get`, `Set`, `Create` and `Delete` in
it and register `Query`s whose results are pushed to them. This directory holds
TLA+ models of the parts of `src/goimpl` whose behaviour depends on order,
concurrency, loss or long request sequences, the TLC runs that check them, and
proofs of the most important facts, checked by the TLA+ proof system (TLAPS).

`PROJECT.json` lists components, runs, hazards, findings and theorems, and maps
every definition to the source lines it models. Paths below are relative to
`src/goimpl`.

## 1. Inventory

| Component | State | Operations | Hard because of | Model |
|---|---|---|---|---|
| Reliability layer, `internal/reliability` | `Receiver`: contiguous mark, set above it; `Sender`: pending map with attempt counts | `MarkReceived`, `BuildAck`, `Send`, `Cancel`, `HandleAck`, the retransmit loop | loss, duplication, reordering; three goroutines use a `Sender`; late acks; a bounded receiver | `DeliveryOps`, `Reliability`, `Delivery` |
| Response cache, `internal/server` | `respCache`, the queue `respOrder` with `respHead` | `cacheResponseAt` | a key cached twice; in-place compaction | `RespCache`, `TTLCache` |
| Session and client exchange, `internal/server`, `cmd/client` | session: receiver, cache, `activeQueries`, `queryResultNodes`; client: `respChans`, push handler | `handleMessage` and the handlers, `reapCancelledQueries`, `run` and its teardown, `sendAndWait`, `readLoop`, `dispatchResponse` | retransmitted requests, racing pushes and answers, cancellation, timers, a connection that closes | `Exchange` |
| Fitting and paging, `internal/tree`, `internal/server`, `cmd/client` | session: learned datagram limit; client: continuation queue | `FlattenMatches`, `FitToSize`, `fixupWindow`, `sendFittedNodes`, `followQueue`, `continuationQueue` | sizes that do not grow monotonically, a limit that changes between attempts, overlapping continuations | `Paging` |
| Match expressions, `internal/tree` | none | `ParseExpression`, `splitUnescaped`, `SplitResumeSuffix` | three delimiters with one escape, taken apart one after the other, and put together again for continuations | `Expressions` |
| Configuration tree, `internal/tree` | nodes with `Parent`, `Children`, `Value`, `Key`; one lock | `CreateStagedAs`, `SetAs` (values and relinks), `DeleteAs`, `AppendUnder`, `IsReachable`, `evaluateAs` | a Set of several edits is checked before and rolled back half-way; `Parent` and `Children` are redundant; long sequences | `NodeTree` |
| Access control, `internal/authz` | the policy (constant) | `Allowed`, `sessionRule` | the tree asks for every node that leaves, moves or changes | `Authz` |
| Change notification, `internal/tree` | `changeGen`, `changeCh` | `ChangedSince`, `notifyChanged` | notification after the lock is released | `QueryRunner` |
| Query runner, `internal/query` | last values, `collected`, `pending`, generation seen | `Start`, `collect`, `aggregate`, `transfer`, `Stop` | four-way `select`, its own results wake it, cancellation | `QueryRunner` |
| Aggregation functions, `internal/query/aggregate.go` | none | min, max, mean, deviation, percentile | ranks and interpolation at the edges; a method the decoder checks and `ValidateQuery` does not | `Aggregation`; `QueryRunner`: when it fails |
| Wire codec, `internal/wire` | none | BER marshal and unmarshal of seven messages | sign octets, long lengths, combinations of optional fields, datagrams cut short | `Ber`, `Codec`, `Messages` |
| Certificates, server start-up, IF-MIB seeding, load test, scripts | - | - | plain I/O, start-up or tooling | not modelled |

How they interact: a client command allocates a sequence number, registers a
channel and sends its request through its `Sender`. The session's one reading
goroutine hands a request that `MarkReceived` takes for new to its handler; a
repeat is answered from the response cache. Handlers call the tree, which takes
its lock, asks the session's `authz.Checker`, changes the nodes and, after
unlocking, bumps the change generation. The answer is fitted into a datagram,
sent through the session's `Sender` under a fresh transport number and cached. A
recurring query is a goroutine of its own that samples the tree when a ticker or
the change channel fires, stores each transfer as a subtree of the query's results
node - itself a change of the tree - and pushes it through the same `Sender`.
Deleting the results node cancels the query. SummaryAcks flow back on a ticker in
both directions.

What makes each part correct is stated by its properties (section 3).

## 2. Modules and how they correspond to the code

**`DeliveryOps`** holds the receiver as operators on a record
`[contiguous, above]`: `Advance` (the `advance` loop as "absorb the run of held
numbers"), `MarkReceived` with the skip of the oldest gap, `BuildAck` with its cap
on ranges. It has no variables and no recursion, so that it can be proved about and
used by `Reliability` and `Exchange`.

**`Reliability`** is one direction of the layer. A number goes through
`Alloc` (allocSeq), `Track` (insertion in the pending map) and `Transmit`
(sendFunc), three steps because other goroutines run in between; `TooLarge` is
sendFittedNodes' Cancel and re-send under the same number; `Tick` is the part of
`retransmitDue` under the lock and `Resend` the transmissions after it; `Arrive`
the peer; `SendAck` and `HandleAck` the ack path with acks that overlap, arrive
late or are lost. Time is abstracted: a tick finds any non-empty set of
entries due. **`Delivery`** is the promise to the code above: unordered, at most
once, and written off only after enough later arrivals.

**`RespCache`** is `cacheResponseAt` line by line, with the clock as a variable;
**`TTLCache`** is the full scan of the map that the queue replaced.

**`Ber`** has tags, lengths, two's complement and `readTLV`, on sequences of octets;
**`Codec`** the choices (pointers, values, modes, methods); **`Messages`** nodes, the
seven messages and the envelope. A decoder returns a set: empty for an error, otherwise
its one result. Optional fields are sets of at most one value. Integers of eight and
four octets have two and one in the run (TLC's integers have 32 bits), and so edges that
lie just as far from the octets' own; the proof is for every width. `Bytes`, `SetBytes`,
`BitLen` and `ReadAll` are the code's loops as recursive functions, over numbers or over
the octets left. A length is an int and wraps like one (`Wrapped`); where a negative one
makes `readTLV` panic, the model has no element. Reals and texts are octets.

**`Aggregation`** holds `ValidateQuery`, the periods of a runner's tickers in seconds
(`Tickers`) and as the wrapping product with `time.Second` (`Duration`), and
`aggregate.go` in exact fractions. **`CacheAndCodec`** runs the response cache and,
in the states where it is untouched, sends each message of a catalogue through the codec
and each Query on to `ValidateQuery` and the aggregates.

**`Exchange`** puts a client and a session together: `Call`, `Take`, `Close`,
`Timeout` and `ConnectionClosed` are the stages of `sendAndWait` (the deferred delete is
a step of its own), `Deliver` is `readLoop` with `dispatchResponse`, `Arrive` is
`handleMessage` up to the handler's effect on `DeliveryOps`'s receiver, `Respond`
is `respondAndCache`, `Push` a query's `DeliverResults`, `Expire` the cache's expiry.
`HandleAck` takes requests that the session's receiver has settled out of the Sender's
pending map (`acked`), after which `Retransmit` leaves them alone. `SummaryAck`s are not
messages of their own here: since what is settled stays settled, one that is old or was
lost is an ack that names fewer requests. `lost` remembers to which commands an answer
was lost.
`Handle` tells the handlers apart: `Register` (handleQuery's results node and map
entries), `Cancel` (handleDelete) with `Reap` (`reapCancelledQueries`), and the others,
which have one effect and no runner. `Disconnect` closes the connection at any time, and
`End` is the return of `run` with its deferred `Teardown`. Requests are single datagrams
that are repeated and lost; responses travel as `Delivery` promises. A `script` gives
the commands' kinds; a Get that cannot be answered at all is in `Paging`. A Set calls
`reapCancelledQueries` as well, but cannot detach a results node, since writing below
QueryResults is denied (`Authz`).

**`Expressions`** is the text of match expressions as sequences of tokens, with the
escapes resolved where the code resolves them. **`Paging`** is one Get, or one push of a
query, of a forest given by its pre-order parent indices. `Targets` are the pointers that
flattening makes, `Continuations` what `fixupWindow` turns into absolute pointers,
`FitToSize` the search and the scan of dips, `Answer` the two attempts of
`sendFittedNodes` with the learned limit, `Found`, `IsNext`, `Follow` and `CoveredBy` the
client's queue, which holds expressions: `Fetch` takes them apart again
(`SplitResumeSuffix`, `ParseExpression`), and one that no longer means what was asked
for finds nothing. `ReceivePush` is `handlePush`. Sizes are abstract costs: a node, an
in-window offset, a dearer continuation; that is what makes sizes dip.

**`Lists`** is what Go's loops over a slice do that keep some of its elements;
`NodeTree` and `Paging` use it.

**`NodeTree`** has one action per request, since each runs under the tree's lock.
A Set is planned (`PlanOf`, `PlanAccepted`, `Accepted`) against the tree before it, then
applied edit by edit with undo records (`ApplyPlan`, `Fail`, `Progress`, `Rollback`) as in
`applySetPlans`. Walks and loops are recursive functions, so that they can be proved
about. `InitialTreeAssumption` says that the server starts with a tree of which it holds
the containers, `RequestsAssumption` what a request can be at all (an expression has a
segment, and so on); the catalogue is a constant. Nodes cut loose keep their `Parent`, as in the code. Expressions are
sequences of segments with sets of matching keys and values. **`Authz`** supplies
`Allowed`: the session rules, the read-only list, the rules of the session's identity and
those for everyone; regular expressions are path prefixes. `MCNodeTree` gives the catalogue
of requests and a second session, which does nothing itself, so that whatever happens to
its nodes is this session's doing. `AppendUnder` is the server's own appending of
results nodes and errors.

**`QueryRunner`** is one query of any collection mode. `Mutate` and `Notify` are
apart because `notifyChanged` runs after the unlock; `Arm` is `ChangedSince` with
`gen = g`; each `Select...` is a case of the `select`, chosen among the ready
ones; `Collect`, `Transfer`, `Materialize` and `Push` are the runner's steps;
`Detach`, `DetachNotify` and `Stop` are the cancelling Delete. A value is a
version of which only the parity can be seen, so that a value can change back.

Definitions whose name ends differently from the code and whose comment says
"Mutant" are plausible mistakes, kept beside the original; they are used to show
that each property can fail (`mutants` in `PROJECT.json`).

## 3. Runs

| Run | Checks | Bounds and why they are enough |
|---|---|---|
| `reliability` | `AtMostOnce`, `WrittenOffOnlyAfterOverflow`, `HeldBounded`, refinement of `Delivery` | 3 messages, 2 transmissions, 1 number held out of order: the third arrival overflows the receiver; retransmits arrive before and after it |
| `reliability_live` | `TypeOK`, `NoSilentLoss`, `AcksStayTrue`, `PendingDrains`, `SentIsHandedOver` | 2 messages, 2 transmissions, 1 fault, 2 acks in flight: one loss, one retry, an old and a new ack. The cap on ack ranges takes effect only with more messages; `AcksStayTrue` is proved for every cap |
| `cache_and_codec` | `TypeOK`, `SpentBounded`, refinement of `TTLCache`; `MessagesRoundTrip`, `AcceptedQueriesRun` | 3 keys, TTL 2, compaction from 2 spent records, queue 5: the same key is cached twice, expires and is compacted away. Messages: numbers at the edges of one and two octets, texts of 0, 1, 127, 128, 130 and 256 octets, every alternative and combination of optional fields, each also cut short after every octet; up to 3 samples, and 5 for the ranks. With integers of two octets a second is 100 units, so that the longest period a Duration holds, 327 seconds, and longer ones are intervals as well |
| `exchange` | `TypeOK`, `CarriedOutOnce`, `AnswersAgree`, `RunnersMatchResults`, `CommandsAnswered`, `ClosedSessionsEnd` | two commands: a once and a recurring query, a recurring query and the Delete that cancels it, two others; 2 transmissions each, an ack at any time or none, 1 push, 1 fault (a lost datagram or the connection), entries that expire. Either command may be served first. Write-offs need three requests: see `reliability` |
| `paging` | `Complete`, `NoDanglingLink`, `DeliveredOnce`, `FitIsLargest` | all forests up to 6 nodes, limits 8, 9, 13, 40 that change between attempts, a continuation costs 4, 3 follow-ups; a Get and a push, under the expression `/k\/l\=m=k`: limit 8 makes the search miss a dip, 9 is the least that carries any node, 40 carries all |
| `node_tree` | `NoParentCycle`, `WellFormed`, `ReachableIsExact`, `ContainersStay`, `DeletedIsGone`, `AllOrNothing`, `DropsAreAuthorized`, `MovesAndWritesAuthorized`, `OtherSessionsUntouched` | 16 nodes of which 2 are created, siblings that share a key, a read-only node below a deletable one, a node staged by another session; Sets of 1 to 3 edits out of 21. Seven edits that no state accepts are tried alone and after an accepted one |
| `query_runner` | `TypeOK`, `ReportsDiffer`, `NoSelfWaking`, `SamplesInOrder`, `EventuallyUpToDate`, `EventuallyTransferred`, `CancelStops` | an onChange, an aggregated interval and an aggregated once query; 2 nodes, 2 mutations, 2 ticks: a value changes and changes back, and notifications overtake each other |

What they show: delivery is at most once and nothing is silently dropped under any order
of sends, ticks, acks and losses; the cheap cache expiry equals the scan; a request is
carried out once, and a query's runner works exactly while its results are in the tree
and the session is up; every command gets its answer or is told that the connection is
gone, and needs its timer only if its request was written off, or its answer was lost
for good after the request was acked; every message is read as it was sent, and a query
that is accepted can be run, if its periods fit a `time.Duration`; a truncated result is
reassembled completely, each node once; with the requests of the catalogue the tree
stays well formed, access rules hold for every node that is dropped, moved or written,
and sessions do not touch each other (section 5 says for which requests this is proved);
a query's samples reach the client in order, and it stops when cancelled.
`ReportsDiffer` promises different values in a row only for a node whose samples the
aggregation can use (`Usable`), as it is the last sample, used or not, that `collect`
compares with.

Deadlock is not checked (`CHECK_DEADLOCK FALSE`): with their work done, bounded
counters used up and queries stopped, all these systems rest.

### Where the code does not do what it says

Each of these runs checks one property and TLC finds it violated; the findings in
`PROJECT.json` quote the text that is contradicted.

- `set_rollback`: undo records are replayed forwards, so a Set that writes a node
  twice and then fails leaves the first write's value (`tree.go:896`).
- `relink_backwards`: a `newNextSibling` that names an earlier sibling lists children
  twice; a Delete removes one listing (`tree.go:1129`). The catalogue of `node_tree`
  leaves out such relinks, so that the rest can be checked.
- `parent_cycle`: two `newParent` edits of one Set, each acceptable against the tree
  before it, form a cycle (`tree.go:852`). Left out of `node_tree` as well.
- `query_lost_wakeup`: the generation is advanced before the `select`; when a ticker
  wins it, the wake-up of an already closed channel is gone and the change is not
  reported until another one (`query.go:208`). `EventuallyUpToDate` excludes this case
  by its history variable `abandoned`.
- `push_dropped`: a push that arrives between the registration ack and the removal of
  `sendAndWait`'s channel is marked received and discarded (`client/main.go:178`).

Further gaps have no run:

- A change notified between an onChange query's baseline sample and its first
  `ChangedSince` (`query.go:205`) is in neither. `EventuallyUpToDate` excludes it by
  `changeGen = base`.
- `SplitResumeSuffix` resolves `\@` and `\\` in the expression before the index, and
  the server makes the next continuations of what it got (`tree.go:143`, `tree.go:512`).
  A Get of `/a\@b` therefore has `/a@b@6` on its second page; that is no resume suffix,
  finds nothing, and the client ends as if it had everything, which
  `client/main.go:311-317` rules out. `Complete` with `Requests <- AtRequests` shows it;
  the run `paging` leaves these two escapes out.
- The delete check of a relink reads the child lists as they were before the Set.
  `droppedByFirstChild` (`tree.go:1181`) finds nothing to check when the new first child is
  not yet in the list, so a Set that moves a staged node under a target in one edit and
  makes it the target's first child in the next drops the other children unchecked, and a
  single edit with `newNextSibling` and `newParent` can move a node below a sibling that it
  drops. `tree.go:776-785` says that authorization must allow deleting every node that a
  relink would drop. `DropsAreAuthorized` with `<<Parent(SA, Cfg), First(Cfg, To(SA))>>` in
  the catalogue shows it; `node_tree` leaves such Sets out, and `DropsWereAuthorized` is
  proved for Sets that change one pointer at most.
- `End` leaves a session's nodes in the tree, whereas goimpl/README.md:337-339 says that
  transfers stay until the query is cancelled "or the session ends" (`server.go:192`).
- A period of 9223372037 seconds or more passes the codec and `ValidateQuery`, whereas
  its product with `time.Second` overflows (`query.go:136`): `NewTicker` panics for a
  negative one, and a positive one is not the "every `interval` seconds" of node.asn:208.
  `AcceptedQueriesRun` without `n <= LongestPeriod` shows it; the property leaves longer
  periods out.
- `readTLV` sums up to 127 length octets in an int (`ber.go:122-130`). One that wraps to
  a negative length passes the comparison with the octets left and panics in the slice. No
  message that is sent, whole or cut short, has such a length: `MessagesRoundTrip`.
- An ack ends the retransmission of a request, not of its answer
  (`reliability.go:186`): the session sends an answer through its own `Sender`, which
  retransmits it and may give up in the end (`reliability.go:228`). Then nothing asks for
  the cached answer again, and the command ends with `requestTimeout`. The model has this
  as a `LoseResponse` of an acked request; `CommandsAnswered` names it (`Stranded`).
- `minimalTwosComplement` spends an octet too many on -128, -32768 and so on
  (`ber.go:169`), which no decoder minds: `MessagesRoundTrip` includes these values.

## 4. Fairness

- `Reliability`: goroutines run, so a send in progress proceeds (weak fairness of
  `SendStep`, `Resend`) and a datagram in flight arrives unless it is lost. The ticker
  ticks for ever, but a tick may find another set due or the previous tick's resends
  under way, so the tick that visits a given entry is strongly fair.
- `Exchange`: a request is retransmitted while it is pending, the reading goroutines and
  the session run. `Arrive` is strongly fair per request, since the session is busy now
  and then. Acks, losses, timeouts, expiry, pushes and the end of the connection need not
  happen: the Sender stops as soon as an ack comes, so that nothing rests on a
  transmission after it, and no command counts on its timer. What is in flight
  arrives only while the connection is open; when it is closed, the client's select
  (`ConnectionClosed`) and the session's ReceiveDatagram (`End`) notice it, weakly fair.
- `QueryRunner`: goroutines and notifications run (weak). Go's `select` picks at
  random among ready cases, so each case that is ready again and again is taken
  (strong fairness per case).

Safety runs use no fairness; the runs with liveness check their invariants under the
same specification, which fairness does not restrict.

## 5. Proofs

All theorems hold for every value of the constants, from the named assumptions in
the modules (naturals, positive limits, an initial tree, well-formed requests). No module
with a theorem reaches a recursive operator: walks and loops are recursive functions, and
a proof uses such a function by its equation alone, once it is shown that there is one.
A property that is stated under a hypothesis says so below.

- `DataLemmas` has what several components need: a set of numbers without gaps is the
  interval that its size gives; induction over numbers and over sequences, stated for the
  *set* of the values that have the property, since an operator cannot be handed to a
  theorem here; what `Picked` keeps, and in which order.
- `DeliveryOpsProofs`. `RunIsInterval`: the numbers `advance` absorbs form the
  interval just above the mark and it stops at the first number missing.
  `AdvanceSpec`, `LowestSpec`, `SkipSpec` build on it up to `MarkReceivedSpec`: after
  one call the receiver is within its bound, every number it was ever told is below
  the mark or still held, and a number that was passed over had more than
  `MaxOutOfOrder` later ones held.
- `ReliabilityProofs`. `AtMostOnce` is not inductive: one has to know that the receiver
  remembers whatever was handed over (`Remembered`), and for
  `WrittenOffOnlyAfterOverflow` that what it holds did arrive. With the types and
  the receiver's bounds these make `IInv`. Only `Arrive` touches the receiver; its
  step is `ArriveIInv`, a use of `MarkReceivedSpec`. Hence `TypeCorrect`,
  `HandedOverAtMostOnce`, `ReceiverBounded` and `WriteOffJustified`. For the sender,
  `NoSilentLoss` has to be widened to messages still being sent (`Accounted`), since an
  ack or a tick may visit an entry before sendFunc returns, and needs `AcksStayTrue`,
  which follows from the receiver settling ever more numbers (`ReceiverGrows`). Hence
  `LateAcksAreTrue` and `NothingSilentlyLost`. `LayerImplementsDelivery` is the
  refinement: `SentFirst` (only a number that was tracked leaves a trace) makes every
  transmission the one `Send` of its message or a stutter, and an arrival a `HandOver`.
- `CacheAndCodecProofs`, the cache. `QueueImplementsScan`: the queue that expires from its
  head implements `TTLCache`'s scan of the whole map. The invariant: every entry has a live
  record with its time, and the records are in the order of their times, so that the
  first one that is not due ends the search. A record may outlive its entry, never the
  other way round. Also `CacheTypeCorrect` and, from what compaction leaves,
  `SpentRecordsBounded`.
- `CacheAndCodecProofs`, the codec: `MessageRoundTrip`, and from it `MessagesArrive`; see
  below.
- `ExchangeProofs`. `RequestCarriedOutOnce`: what was carried out is remembered by
  the receiver; again by `MarkReceivedSpec`. The cache plays no part in it, so it may
  expire entries at any time. `OnlyWantedRunnersWork`: for any script, the runners that
  are not cancelled are those whose results node is in the tree, as long as the session is
  up. `RunnersMatchResults` is not inductive; one has to know that `activeQueries` holds
  exactly the recurring queries with a results node (`Runners`), and, for the step that
  registers a query, that a request being handled is new (`HandledIsNew`), so that its
  query cannot have been cancelled before. `AnswersAreTrue`: whatever is on its way, in an
  inbox or in the cache names the one effect of its request (`Answers`).
  `ExchangeTypeCorrect` needs that a command that was not called has sent nothing.
- `QueryRunnerProofs`, for any number of nodes, mutations and ticks. The filter of a
  buffer by node is a recursive function; `OfExists` and the lemmas after it say what it
  computes for every sequence, by induction. `Buffers` says which buffer is filled at which
  step of the runner; `Remembered` that `lastValues` is the last report of its node in any
  buffer, of which no node falls behind; `Paid` counts what each generation came from.
  Hence `RunnerTypeCorrect`, `ReportsEverNewer`, `NothingLostInBuffers` (from sample to
  client nothing of a node that can be aggregated is lost, doubled or overtaken) and
  `DoesNotWakeItself`.
- `PagingProofs`, for any result, limits and bounds. `FitSpec` is what the search and the
  scan of dips find, and `FitIsExact` that it is the largest window that fits, for results
  of at most `DipSpan + 1` nodes: beyond these, the code itself gives up the scan, so the
  hypothesis is the code's bound; `FitSpec` itself has none. (The run has `DipSpan = 4`
  and results of up to 6 nodes, one more than the theorem speaks of: with its sizes TLC
  finds the same there.) `NoPageOverlaps`, `NoLinkDangles` and
  `WholeResultArrives` are about the client's queue: everything it asks for is a page of
  this result (`Pages`), whatever it covers it holds (`CoverIsDelivered`), what it waits
  for lies ahead (`WaitingAhead`), and every pointer of what it holds leads to something
  held, waited for or given up (`Linked`). Completeness then goes by induction along the
  pre-order. Hypothesis: `PlainRequests`, texts of which a continuation can be made and
  taken apart again (`PlainSplit`); section 3 says why the others are lost. An assumption of
  `MCPaging` checks that the run's requests are plain.
- `NodeTreeProofs`, for any number of nodes, any catalogue of requests and any policy:
  see below.

### The tree

Two invariants and a wall carry the proofs about `NodeTree`.

*Standing* holds of the code without any restriction (`TreeStands`): a listed node has
been created and has a `Parent`. A Set is followed edit by edit as a *work*
(`IsWork`): what it changed so far was planned, and the undo lists remember what was there
before, so neither the application of edits that disturb each other nor a rollback in the
wrong order goes beyond the plan. Hence `MovesAndWritesAreAuthorized`, for every Set
whatever.

*Sound* is what makes the tree a tree: `Children` and `Parent` agree, and the `Parent`s
have ranks, which is how a statement about endless walks becomes one about every single
pointer. It is kept by every Create, Delete and append, but not by every Set: the runs
`set_rollback`, `relink_backwards` and `parent_cycle` refute it. `Steady` names what the
Sets that do this have in common: an edit, when its turn comes, relinks backwards or moves
a node below itself, or the Set fails after changing one field twice. `SteadySpec` is the
specification without those Sets, and under it `TreeStaysSound`, and with it
`TreeIsWellFormed`, `ReachabilityIsExact`, `NoNodeAboveItself`, `DeletedStaysGone` and
`RefusedChangesNothing` (undoing restores every field that has a single record).
The hypothesis is no empty one: `OneEditIsSteady` proves that a Set of one edit that
names no new next sibling is steady in every sound tree, `SingleEditsAreSteady` that with
such Sets only, every behaviour of the code satisfies `SteadySpec`, and TLC finds every Set
in the catalogue of `node_tree`, of up to three edits, steady in each of its states.

`DropsWereAuthorized` also needs that a Set changes one pointer at most (`OnePointer`),
because of the gap described in section 3; the proof follows a node that leaves the tree
to the link that was cut above it, which `DroppedByFirstChild` or `DroppedByNext` had
listed.

The *wall* (`Walled`) is made of nodes that no policy lets this session write or
delete: `/Sessions`, this session's own node below it, and the other sessions' subtrees. A
steady request never changes a walled node's child list, because every edit that does needs
a permission on it or on what hangs below it (`Guarded`, `Shelter`, `Apart`); the root's
list may be cut, but not `/Sessions` out of it. So whatever lies behind the
wall keeps its path, and with it its protection: `OthersStayUntouched` and
`ContainersNeverLeave`, for steady Sets of any number of edits and pointers.

### The codec

`MessageRoundTrip` says of every message of the seven types that its octets are read as
that message and as nothing else, and that no proper prefix of them is read as anything:
for any widths, any numbers of those widths, texts and lists of any length and every
combination of optional fields. Its hypotheses are the messages' types (`MessageTypes`) and
that an int can count the octets (`Short`), as lengths are ints that wrap; no Go slice is
longer. A Query whose percentile is none is well typed, is sent, and is proved to be
refused. The argument goes up from the octets:

1. Numbers. A number is a magnitude in base 256. `SetBytes` of `Bytes` is the number,
   `Bytes` has no leading zero, and a bit length gives the octets that a negative number and
   its sign bit need, with one to spare at a power of two. Hence `DecodeBigInt` undoes
   `TwosComplement` for every integer, also for those that take an octet too many, and a
   number passes `DecodeInt64` exactly if it has the width.
2. One element. `ReadTLV` of what `TLV` wrote is that element, in the short and in the long
   form, with whatever follows it left over (`ReadTLVExtended`); a proper prefix of an
   element is no element.
3. Several elements. Reading is by induction on the octets left: if octets are read as
   some elements, then what is put in front of them is read before them. So a concatenation
   is read as the concatenation of the elements, in which an absent optional field leaves
   nothing (`Reads`).
4. Fields. Each choice, node, edit, range and list is read back from its elements; the
   optional fields of Create, Edit and Query are told apart by tags that differ, so each
   combination is read as itself, and in a Response only an errorNode has the tag 3
   (`NodesAt`).
5. The envelope (`ArrivesFrom`). A message is one element. Its prefixes are not, whatever
   they hold: truncation is refused by the outermost length, not by the fields.

`MessagesArrive` adds that the catalogue of the run consists of well-typed messages.

### Only model-checked

- Liveness: `PendingDrains`, `SentIsHandedOver`, `CommandsAnswered`, `ClosedSessionsEnd`,
  `EventuallyUpToDate`, `EventuallyTransferred`, `CancelStops`. Fairness and ENABLED are
  out of the prover's reach.
- `AcceptedQueriesRun`: that an aggregate lies between the smallest and the largest sample.
  Aggregates are quotients of sums over all samples (folds), and bounding a deviation takes
  products of such sums: nonlinear arithmetic that the provers do not find. That a
  percentile that arrives is one, the other half of the property, is part of
  `MessageRoundTrip`.
- Requests that are not plain (`Paging`), and what `FitToSize` finds beyond `DipSpan`.
- Drops by steady Sets of several relinks, as far as the catalogue of `node_tree` has them.

## 6. Not modelled, and why

- The IEEE 754 octets of a real, the UTF-8 of a text, and integers of full width in the run:
  see `Ber` above.
- float64 rounding in aggregates: they are exact fractions, a deviation its square.
- Regular expressions with operators: `Expressions` compares literal texts, `NodeTree`
  gives a segment the sets of keys and values that it matches, and a key is one element
  of a path.
- The creation of sessions: `NodeTree` starts with two, `Exchange` with one.
- The contents of error responses: `Exchange` takes a refusal for a request with one
  effect, and `NodeTree` appends an error without its message and number.
- Concurrent modification of a tree whose pages are being fetched: `Paging` keeps the
  tree as it is; the code makes no promise for the other case.
- Policy files, certificates, start-up, the load test, scripts.

## 7. Plan

Done in this order: `DeliveryOps`, `Reliability`, `Delivery` and their proofs;
`RespCache` and `TTLCache`; `Authz` and `NodeTree`; `QueryRunner`; `Paging`;
`Exchange` on top of `DeliveryOps`, with its proof; `Ber`, `Codec`, `Messages` and
`Aggregation`; the life cycle of queries, sessions and connections in `Exchange`, with its
proof; `Expressions` below `Paging`, pushes; a second session in `NodeTree`.

Then the proofs: that `Reliability` implements `Delivery` and `RespCache` implements
`TTLCache`; the types and answers of `Exchange`; `QueryRunner`; `Paging`; `NodeTree`, for
which the walks were rewritten as recursive functions; the codec, for which the loops over
octets were.

Next:

1. `DropsWereAuthorized` for every Set whose edits do not bring a node below a target or
   sibling that another pointer of the same Set relinks, in place of `OnePointer`.
2. `OneEditIsSteady` for a `newNextSibling` that names a later sibling, and for Sets whose
   edits have targets apart from each other.
3. The session rules for reading: nothing in another session's subtree is in the answer to
   a Get, a Query or a page, for every policy.
4. `Paging` for requests with escapes that survive being taken apart, the exact set for
   which continuations work.
5. `EventuallyUpToDate`'s safety half: a runner that sleeps has seen the last generation,
   unless it abandoned one.
