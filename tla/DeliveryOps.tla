----------------------------- MODULE DeliveryOps -----------------------------
(***************************************************************************)
(* The receiving half of goimpl/internal/reliability/reliability.go as     *)
(* pure operators.  A receiver is a record                                  *)
(*   contiguous  every sequence number in 1..contiguous is done with        *)
(*   above       the numbers held individually above it                     *)
(* and MarkReceived/BuildAck are the two methods the sessions call, each    *)
(* of which runs under the Receiver's own lock, hence atomically.           *)
(***************************************************************************)
EXTENDS Integers, FiniteSets

CONSTANTS
    MaxOutOfOrder,   \* maxOutOfOrder: how many numbers are held above the mark
    MaxAckRanges     \* maxAckRanges: ranges in one SummaryAck

ASSUME MaxOutOfOrderAssumption == MaxOutOfOrder \in Nat \ {0}
ASSUME MaxAckRangesAssumption  == MaxAckRanges \in Nat \ {0}

NewReceiver == [contiguous |-> 0, above |-> {}]

\* The held numbers that follow the mark c without a gap.
Run(c, held) == {s \in held : s > c /\ (c+1)..s \subseteq held}

\* advance(): the mark moves over the run, whose members are no longer held.
Advance(c, held) ==
    [contiguous |-> c + Cardinality(Run(c, held)), above |-> held \ Run(c, held)]

\* lowestAbove()
Lowest(held) == CHOOSE s \in held : \A t \in held : s <= t

\* The jump over the oldest gap in the loop of MarkReceived.  The loop body
\* runs at most once, since one number was added to a set within the limit.
SkipOldestGap(r) == Advance(Lowest(r.above) - 1, r.above)

\* Mutant: the contiguous prefix is not consulted.
IsDuplicateUnlessHeld(r, seq) == seq \in r.above
IsDuplicate(r, seq) == seq <= r.contiguous \/ seq \in r.above

\* seq is recorded; beyond limit numbers held, the oldest gap is given up.
Record(r, seq, limit) ==
    LET next == Advance(r.contiguous, r.above \cup {seq})
    IN  IF IsDuplicate(r, seq) THEN r
        ELSE IF Cardinality(next.above) > limit THEN SkipOldestGap(next)
        ELSE next

\* Mutants of MarkReceived: off by one, and without its bound.
MarkReceivedEagerSkip(r, seq) == Record(r, seq, MaxOutOfOrder - 1)
MarkReceivedNoSkip(r, seq) ==
    IF IsDuplicate(r, seq) THEN r ELSE Advance(r.contiguous, r.above \cup {seq})

\* MarkReceived(seq): the receiver it leaves (its result is ~IsDuplicate).
MarkReceived(r, seq) == Record(r, seq, MaxOutOfOrder)

\* The position, among the ranges of an untruncated ack, of the range that
\* holds s: the contiguous prefix is the first one if there is a prefix.
RangeIndex(r, s) ==
    (IF r.contiguous > 0 THEN 1 ELSE 0)
      + Cardinality({t \in r.above : t <= s /\ t - 1 \notin r.above})

\* Mutant: one range from the first number to the last held.
BuildAckHull(r) ==
    1..r.contiguous \cup UNION {1..t : t \in r.above}

\* BuildAck(): the numbers the SummaryAck covers, lowest ranges first.
BuildAck(r) ==
    1..r.contiguous \cup {s \in r.above : RangeIndex(r, s) <= MaxAckRanges}
=============================================================================
