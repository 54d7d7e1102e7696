------------------------------ MODULE RespCache ------------------------------
(***************************************************************************)
(* A session's cache of responses to answer retransmitted requests with     *)
(* (server.go, cacheResponseAt): a map from the request's sequence number   *)
(* to the time it was cached, and a queue of the insertions, oldest first,  *)
(* from which expiry works.  All of cacheResponseAt runs under respCacheMu; *)
(* the lookup in handleMessage reads the map only.                          *)
(***************************************************************************)
EXTENDS Integers, Sequences, FiniteSets

CONSTANTS
    Keys,         \* request sequence numbers
    TTL,          \* respCacheTTL
    CompactMin,   \* spent records before the queue may be compacted (1024)
    Horizon,      \* bound: the clock
    MaxQueue      \* bound: length of the queue

ASSUME TTLAssumption        == TTL \in Nat
ASSUME CompactMinAssumption == CompactMin \in Nat \ {0}
ASSUME HorizonAssumption    == Horizon \in Nat
ASSUME MaxQueueAssumption   == MaxQueue \in Nat

VARIABLES
    clock,      \* time.Now()
    respCache,  \* [Keys -> insertion time or None]
    respOrder,  \* sequence of records [seq, at]
    respHead    \* how many records at the front are spent

vars == <<clock, respCache, respOrder, respHead>>

None == -1

Init ==
    /\ clock = 0
    /\ respCache = [k \in Keys |-> None]
    /\ respOrder = <<>>
    /\ respHead = 0

Advance ==
    /\ clock < Horizon
    /\ clock' = clock + 1
    /\ UNCHANGED <<respCache, respOrder, respHead>>

IsOld(rec) == clock - rec.at > TTL

\* The records the expiry loop visits: from the head to the first young one.
Expired(order, head) ==
    {i \in (head+1)..Len(order) : \A j \in (head+1)..i : IsOld(order[j])}

\* Mutant: the record's time is not compared.
DropsByKey(rec, map, k) == rec.seq = k
\* A record drops the entry of k only if it is still the one it recorded.
Drops(rec, map, k) == rec.seq = k /\ map[k] = rec.at

\* Mutants: no compaction, the head not reset.
NeverCompacted(order, head) == [order |-> order, head |-> head]
CompactedKeepsHead(order, head) ==
    IF head >= CompactMin /\ head * 2 >= Len(order)
    THEN [order |-> SubSeq(order, head + 1, Len(order)), head |-> head]
    ELSE [order |-> order, head |-> head]
\* The queue is compacted once most of it is spent.
Compacted(order, head) ==
    IF head >= CompactMin /\ head * 2 >= Len(order)
    THEN [order |-> SubSeq(order, head + 1, Len(order)), head |-> 0]
    ELSE [order |-> order, head |-> head]

Stored(k) == [respCache EXCEPT ![k] = clock]

\* cacheResponseAt(k, resp, now)
CacheResponse(k) ==
    LET map   == Stored(k)
        order == Append(respOrder, [seq |-> k, at |-> clock])
        gone  == Expired(order, respHead)
        queue == Compacted(order, respHead + Cardinality(gone))
    IN  /\ Len(respOrder) < MaxQueue
        /\ respCache' = [j \in Keys |-> IF \E i \in gone : Drops(order[i], map, j)
                                        THEN None ELSE map[j]]
        /\ respOrder' = queue.order
        /\ respHead' = queue.head
        /\ UNCHANGED clock

Next == Advance \/ \E k \in Keys : CacheResponse(k)

Spec == Init /\ [][Next]_vars
-----------------------------------------------------------------------------
\* Type invariant.
TypeOK ==
    /\ clock \in 0..Horizon
    /\ respCache \in [Keys -> 0..Horizon \cup {None}]
    /\ respOrder \in Seq([seq : Keys, at : 0..Horizon])
    /\ respHead \in 0..Len(respOrder)

\* Spent records are not hoarded: beyond CompactMin of them, the live ones
\* outnumber them.
SpentBounded ==
    respHead < CompactMin \/ respHead < Len(respOrder) - respHead

\* The queue expires exactly what a scan of the whole map would.
Scan == INSTANCE TTLCache WITH entry <- respCache

ImplementsTTLCache == Scan!Spec
=============================================================================
