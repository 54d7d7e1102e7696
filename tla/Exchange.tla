------------------------------ MODULE Exchange ------------------------------
(***************************************************************************)
(* Requests and their responses over one connection: the client's           *)
(* sendAndWait, dispatchResponse and push handler (client main.go), the      *)
(* server session's handleMessage with its deduplication and its response    *)
(* cache, the goroutines of recurring queries that push, the Delete that     *)
(* cancels them, and the end of the connection and the session (server.go).  *)
(*                                                                           *)
(* Requests are retransmitted, so their datagrams are modelled one by one    *)
(* and meet the Receiver of DeliveryOps.  Responses travel as module         *)
(* Delivery promises: each is handed over at most once, in any order, or     *)
(* is lost for good.                                                         *)
(*                                                                           *)
(* A script gives the kind of each command:                                  *)
(*   "once", "recurring"  a Query, whose answer is the empty registration ack *)
(*   "delete"  a Delete of all results of this session's queries             *)
(*   "create"  any other request with an effect and one answer: a Create, a   *)
(*             Set, or a refused request, whose effect is its ErrorNode.  A   *)
(*             Set calls reapCancelledQueries like a Delete, but may not      *)
(*             detach a node below QueryResults                              *)
(***************************************************************************)
EXTENDS DeliveryOps, Bags

CONSTANTS
    MaxCommands,    \* bound: requests of the connection
    Scripts,        \* the scripts a client may run
    MaxSends,       \* transmissions of a request (maxRetransmits)
    MaxPushes,      \* bound: pushes of one query
    MaxFaults       \* bound: lost requests, responses and connections

\* Request sequence numbers, in the order the commands are called.
Commands == 1..MaxCommands

ASSUME CommandsAssumption == MaxCommands \in Nat \ {0}
ASSUME ScriptsAssumption ==
    Scripts \subseteq [Commands -> {"create", "once", "recurring", "delete"}]
ASSUME ExchangeBoundsAssumption ==
    MaxSends \in Nat \ {0} /\ MaxPushes \in Nat /\ MaxFaults \in Nat

VARIABLES
    script,     \* the script that runs
    wait,       \* [Commands -> Wait]: how far sendAndWait is
    inbox,      \* respChans: at most one response per channel
    outcome,    \* what sendAndWait returned
    unseen,     \* history: pushes accepted by readLoop and then discarded
    sends,      \* transmissions of each request
    copies,     \* [Commands -> Nat]: request datagrams in flight
    acked,      \* requests a SummaryAck took out of the Sender's pending map
    receiver,   \* the session's Receiver
    serving,    \* the request handleMessage is working on, 0 for none
    effects,    \* [Commands -> set of ids]: what was done for each request
    cache,      \* respCache, as the ids of the cached answers
    pushes,     \* pushes made for each query
    up,         \* the session's run has not returned
    results,    \* the queries whose results node is in the tree
    active,     \* activeQueries, and the keys of queryResultNodes
    stopped,    \* the queries whose Runner has its context cancelled
    connected,  \* the connection is open
    responses,  \* responses in flight, a bag: each has its own transport number
    faults,
    lost        \* history: commands an answer to which was lost

client   == <<wait, inbox, outcome, unseen>>
requests == <<sends, copies, acked>>
runners  == <<results, active, stopped>>
session  == <<receiver, serving, effects, cache, pushes, up, runners>>
network  == <<responses, connected, faults, lost>>
vars == <<script, client, requests, session, network>>

Queries   == {c \in Commands : script[c] \in {"once", "recurring"}}
Recurring == {c \in Commands : script[c] = "recurring"}

(***************************************************************************)
(* "idle"  not called          "open"   channel registered, in the select   *)
(* "taken" a response was received, the deferred delete is still to come    *)
(* "done"  returned            "failed" timed out; the client exits         *)
(***************************************************************************)
Wait == {"idle", "open", "taken", "done", "failed"}

\* A timeout or a lost connection is fatal to the client.
Running == \A c \in Commands : wait[c] # "failed"

\* id is the id of the effect a response answers for; a push has its own.
Response == [to : Commands, push : BOOLEAN, id : Nat]

Init ==
    /\ script \in Scripts
    /\ wait = [c \in Commands |-> "idle"]
    /\ inbox = [c \in Commands |-> {}]
    /\ outcome = [c \in Commands |-> {}]
    /\ unseen = {}
    /\ sends = [c \in Commands |-> 0]
    /\ copies = [c \in Commands |-> 0]
    /\ acked = {}
    /\ receiver = NewReceiver
    /\ serving = 0
    /\ effects = [c \in Commands |-> {}]
    /\ cache = [c \in Commands |-> {}]
    /\ pushes = [c \in Commands |-> 0]
    /\ up = TRUE
    /\ results = {} /\ active = {} /\ stopped = {}
    /\ responses = EmptyBag
    /\ connected = TRUE
    /\ faults = 0
    /\ lost = {}

-----------------------------------------------------------------------------
(* The client.                                                              *)

\* SendDatagram fails on a closed connection.
Transmit(c) ==
    /\ sends' = [sends EXCEPT ![c] = @ + 1]
    /\ copies' = IF connected THEN [copies EXCEPT ![c] = @ + 1] ELSE copies
    /\ UNCHANGED acked

\* allocSeq, the channel's registration and the first transmission, whose
\* failure ends the command.
Call(c) ==
    /\ Running /\ wait[c] = "idle"
    /\ \A d \in Commands : d < c => wait[d] # "idle"
    /\ wait' = [wait EXCEPT ![c] = IF connected THEN "open" ELSE "failed"]
    /\ Transmit(c)
    /\ UNCHANGED <<script, inbox, outcome, unseen, session, network>>

\* Mutant: one transmission too many.
MayRetransmitLate(c) == sends[c] \in 1..MaxSends /\ c \notin acked
\* Pending, with attempts below maxRetransmits.
MayRetransmit(c) == sends[c] \in 1..(MaxSends - 1) /\ c \notin acked

\* The retransmit loop, which ends with the ack.
Retransmit(c) ==
    /\ Running /\ MayRetransmit(c)
    /\ Transmit(c)
    /\ UNCHANGED <<script, client, session, network>>

\* readLoop hands a SummaryAck to the Sender.  It covers requests that the
\* session's Receiver has settled by now; where nothing would be transmitted
\* again, to take it for pending or not makes no difference.
HandleAck ==
    /\ Running
    /\ LET pending == {c \in Commands : MayRetransmit(c)}
       IN  \E cs \in SUBSET {c \in pending : IsDuplicate(receiver, c)} :
            cs # {} /\ acked' = acked \cup cs
    /\ UNCHANGED <<script, client, sends, copies, session, network>>

\* The select of sendAndWait receives from the channel.
Take(c) ==
    /\ Running /\ wait[c] = "open"
    /\ inbox[c] # {}
    /\ outcome' = [outcome EXCEPT ![c] = inbox[c]]
    /\ inbox' = [inbox EXCEPT ![c] = {}]
    /\ wait' = [wait EXCEPT ![c] = "taken"]
    /\ UNCHANGED <<script, unseen, requests, session, network>>

\* The deferred delete; what is left in the channel's buffer goes with it.
Close(c) ==
    /\ Running /\ wait[c] = "taken"
    /\ wait' = [wait EXCEPT ![c] = "done"]
    /\ inbox' = [inbox EXCEPT ![c] = {}]
    /\ unseen' = unseen \cup {r \in inbox[c] : r.push}
    /\ UNCHANGED <<script, outcome, requests, session, network>>

GiveUp(c) ==
    /\ Running /\ wait[c] = "open"
    /\ wait' = [wait EXCEPT ![c] = "failed"]
    /\ UNCHANGED <<script, inbox, outcome, unseen, requests, session, network>>

\* The select takes the timer, even when the response is there as well.
Timeout(c) == GiveUp(c)

\* The select takes the connection's Done, as likely as the response.
ConnectionClosed(c) == ~ connected /\ GiveUp(c)

\* dispatchResponse: to the registered channel, unless it is full; otherwise
\* to the push handler, which prints it when it is for the handler's query.
Dispatch(r) ==
    LET registered == wait[r.to] \in {"open", "taken"}
        full       == inbox[r.to] # {}
    IN  /\ inbox' = IF registered /\ ~ full
                    THEN [inbox EXCEPT ![r.to] = {r}] ELSE inbox
        /\ unseen' = IF registered /\ full /\ r.push
                     THEN unseen \cup {r} ELSE unseen

\* readLoop; what has arrived may still be read once the connection is closed.
Deliver(r) ==
    /\ Running /\ BagIn(r, responses)
    /\ responses' = responses (-) SetToBag({r})
    /\ Dispatch(r)
    /\ UNCHANGED <<script, wait, outcome, requests, session, connected, faults, lost>>

-----------------------------------------------------------------------------
(* The network.                                                             *)

LoseRequest(c) ==
    /\ faults < MaxFaults /\ copies[c] > 0
    /\ faults' = faults + 1
    /\ copies' = [copies EXCEPT ![c] = @ - 1]
    /\ UNCHANGED <<script, client, sends, acked, session, responses, connected, lost>>

LoseResponse(r) ==
    /\ faults < MaxFaults /\ BagIn(r, responses)
    /\ faults' = faults + 1
    /\ responses' = responses (-) SetToBag({r})
    /\ lost' = IF r.push THEN lost ELSE lost \cup {r.to}
    /\ UNCHANGED <<script, client, requests, session, connected>>

\* The client exits, a peer closes or the path is silent for too long.
Disconnect ==
    /\ faults < MaxFaults /\ connected
    /\ faults' = faults + 1
    /\ connected' = FALSE
    /\ UNCHANGED <<script, client, requests, session, responses, lost>>

-----------------------------------------------------------------------------
(* The server's session.                                                    *)

\* sendResponse and sendFittedNodes: a fresh transport number every time.
Send(to, push, id) ==
    responses' = IF connected
        THEN responses (+) SetToBag({[to |-> to, push |-> push, id |-> id]})
        ELSE responses

\* Mutant: what is not cached is not a repeat.
IsRepeatByCache(c) == cache[c] # {}
\* A request that MarkReceived does not take for new.
IsRepeat(c) == IsDuplicate(receiver, c)

\* A repeat is answered from the cache, or not at all.
\* Mutant: repeats are dropped.
AnswerRepeatNever(c) == UNCHANGED responses
AnswerRepeat(c) ==
    \/ \E id \in cache[c] : Send(c, FALSE, id)
    \/ cache[c] = {} /\ UNCHANGED responses

Repeated(c) ==
    /\ IsRepeat(c)
    /\ AnswerRepeat(c)
    /\ UNCHANGED <<serving, effects, runners>>

\* handleQuery: a results node and, for a recurring query, an entry in the
\* session's maps and a goroutine with a context of its own.  Start of a once
\* query returns with its work done, and its entry is dropped again.
Register(q) ==
    /\ results' = results \cup {q}
    /\ active' = active \cup ({q} \cap Recurring)
    /\ stopped' = stopped \ {q}

\* Mutant: the entry of a cancelled query is dropped, its Runner goes on.
ReapForgets == active' = active \cap results' /\ UNCHANGED stopped
\* reapCancelledQueries: a query whose results node has left the tree stops.
Reap ==
    /\ active' = active \cap results'
    /\ stopped' = stopped \cup (active \ results')

\* handleDelete
Cancel == results' = {} /\ Reap

\* handleSet, handleCreate and every refusal: an effect, and no runner.
HandleOther == UNCHANGED runners

\* A handler carries out what the request asks for, up to the response.
Handle(c) ==
    /\ ~ IsRepeat(c)
    /\ serving' = c
    /\ effects' = [effects EXCEPT ![c] =
            @ \cup {1 + Cardinality(UNION {effects[d] : d \in Commands})}]
    /\ \/ c \in Queries /\ Register(c)
       \/ script[c] = "delete" /\ Cancel
       \/ script[c] = "create" /\ HandleOther
    /\ UNCHANGED responses

\* handleMessage up to the response, on the session's one reading goroutine.
Arrive(c) ==
    /\ up /\ serving = 0 /\ copies[c] > 0
    /\ copies' = [copies EXCEPT ![c] = @ - 1]
    /\ receiver' = MarkReceived(receiver, c)
    /\ Repeated(c) \/ Handle(c)
    /\ UNCHANGED <<script, client, sends, acked, cache, pushes, up,
                   connected, faults, lost>>

\* respondAndCache
Respond ==
    /\ serving # 0
    /\ \E id \in effects[serving] :
        /\ Send(serving, FALSE, id)
        /\ cache' = [cache EXCEPT ![serving] = {id}]
    /\ serving' = 0
    /\ UNCHANGED <<script, client, requests, receiver, effects, pushes, up,
                   runners, connected, faults, lost>>

\* Start returned: a recurring runner is a goroutine of its own, a once query
\* has its single push behind it when the ack is sent.  A stopped runner's
\* select may still pick a ready ticker before it picks the cancellation.
MayPush(q) ==
    /\ effects[q] # {}
    /\ IF q \in Recurring THEN pushes[q] < MaxPushes
       ELSE serving = q /\ pushes[q] = 0

\* Mutant: a push is cached like an answer.
CacheAfterPushToo(q) == cache' = [cache EXCEPT ![q] = {0}]
\* sendFittedNodes with cache = false.
CacheAfterPush(q) == UNCHANGED cache

\* DeliverResults; the transfer goes below the query's own results node,
\* whether or not that is still in the tree.
Push(q) ==
    /\ MayPush(q)
    /\ pushes' = [pushes EXCEPT ![q] = @ + 1]
    /\ Send(q, TRUE, 0)
    /\ CacheAfterPush(q)
    /\ UNCHANGED <<script, client, requests, receiver, serving, effects, up,
                   runners, connected, faults, lost>>

\* cacheResponseAt drops an entry older than respCacheTTL (30 s), which is
\* long after the client's command is over (requestTimeout, 5 s).
Expire(c) ==
    /\ cache[c] # {} /\ wait[c] # "open"
    /\ cache' = [cache EXCEPT ![c] = {}]
    /\ UNCHANGED <<script, client, requests, receiver, serving, effects, pushes,
                   up, runners, network>>

\* Mutant: run returns without looking after its runners.
TeardownLeavesRunners == UNCHANGED stopped
\* The deferred calls of run: the runners stop, as does everything else that
\* has the session's context.
Teardown == stopped' = stopped \cup active

\* ReceiveDatagram fails, and run returns.  The session's nodes stay.
End ==
    /\ up /\ serving = 0 /\ ~ connected
    /\ up' = FALSE
    /\ Teardown
    /\ UNCHANGED <<script, client, requests, receiver, serving, effects, cache,
                   pushes, results, active, network>>

-----------------------------------------------------------------------------
Next ==
    \/ \E c \in Commands :
        \/ Call(c) \/ Retransmit(c) \/ Take(c) \/ Close(c) \/ Timeout(c)
        \/ ConnectionClosed(c) \/ LoseRequest(c) \/ Arrive(c) \/ Expire(c)
    \/ \E r \in BagToSet(responses) : Deliver(r) \/ LoseResponse(r)
    \/ HandleAck \/ Respond \/ Disconnect \/ End
    \/ \E q \in Queries : Push(q)

Spec == Init /\ [][Next]_vars

(***************************************************************************)
(* The goroutines run, what is pending is retransmitted, and what is not     *)
(* lost arrives while the connection is open; its end is noticed on both     *)
(* sides.  Timeouts, acks, losses, expiry, pushes and the end of the         *)
(* connection need not happen: an ack may come before a retransmission,      *)
(* after it or never, and the timer is not what answers a command.           *)
(***************************************************************************)
Fairness ==
    /\ \A c \in Commands :
        /\ WF_vars(Retransmit(c)) /\ WF_vars(Take(c)) /\ WF_vars(ConnectionClosed(c))
        /\ SF_vars(connected /\ Arrive(c))
    /\ WF_vars(Respond) /\ WF_vars(End)
    /\ WF_vars(\E r \in BagToSet(responses) : ~ r.push /\ connected /\ Deliver(r))

FairSpec == Spec /\ Fairness

-----------------------------------------------------------------------------
\* Type invariant.
TypeOK ==
    /\ script \in Scripts
    /\ wait \in [Commands -> Wait]
    /\ \A c \in Commands :
        /\ inbox[c] \subseteq Response /\ Cardinality(inbox[c]) <= 1
        /\ outcome[c] \subseteq Response /\ Cardinality(outcome[c]) <= 1
        /\ effects[c] \subseteq Nat /\ cache[c] \subseteq Nat
    /\ unseen \subseteq Response
    /\ sends \in [Commands -> 0..MaxSends] /\ copies \in [Commands -> 0..MaxSends]
    /\ acked \subseteq Commands /\ lost \subseteq Commands
    /\ receiver \in [contiguous : Nat, above : SUBSET Commands]
    /\ serving \in {0} \cup Commands
    /\ pushes \in [Commands -> Nat]
    /\ up \in BOOLEAN /\ connected \in BOOLEAN
    /\ results \subseteq Queries
    /\ active \cup stopped \subseteq Recurring
    /\ BagToSet(responses) \subseteq Response

\* "re-running it would create a second node": a command is carried out at
\* most once, however often its request arrives and whatever was cached.
CarriedOutOnce ==
    \A c \in Commands : IsFiniteSet(effects[c]) /\ Cardinality(effects[c]) <= 1

\* What a command returns, and what a repeat is answered from the cache, is
\* the answer to its one execution; only a query may return a push first.
AnswersAgree ==
    \A c \in Commands :
        /\ cache[c] \subseteq effects[c]
        /\ \A r \in outcome[c] :
            /\ r.to = c
            /\ IF r.push THEN c \in Queries ELSE {r.id} = effects[c]

\* A Runner is at work exactly as long as its results can be found in the tree
\* and its session is up: a Delete that detaches the results node cancels the
\* query, whatever else is on its way, and only that (reapCancelledQueries).
RunnersMatchResults ==
    \A q \in Recurring : effects[q] # {} =>
        (q \notin stopped <=> up /\ q \in results)

\* When the connection is gone the session ends, and no Runner it has ever
\* started works on, whatever was being handled or was still to be read.
ClosedSessionsEnd ==
    ~ connected ~> ~ up /\ \A q \in Recurring : effects[q] # {} => q \in stopped

\* The request is not transmitted again, although its answer was lost.
Stranded(c) ==
    /\ c \in acked \cap lost
    /\ copies[c] = 0 /\ serving # c /\ inbox[c] = {}
    /\ \A r \in BagToSet(responses) : r.to = c => r.push

\* A command gets its answer, or is told that the connection is gone, without
\* the timer's help, although datagrams are lost, as long as there are fewer
\* faults than transmissions.  Only two things leave it to requestTimeout
\* (main.go:229): the receiver wrote the request off before it arrived, or the
\* answer was lost for good after the request had been acked.
CommandsAnswered ==
    \A c \in Commands :
        wait[c] = "open" ~> \/ outcome[c] # {} \/ ~ Running \/ Stranded(c)
                            \/ c <= receiver.contiguous /\ effects[c] = {}

\* Every push the client accepted, and so never gets again, is shown: the
\* results "arrive later via pushHandler".
PushesAreShown == unseen = {}
=============================================================================
