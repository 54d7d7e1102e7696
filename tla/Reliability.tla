---------------------------- MODULE Reliability ----------------------------
(***************************************************************************)
(* One direction of the reliability layer: the sequence allocator and the  *)
(* goroutines that send (server.go, client main.go), Sender with its        *)
(* retransmit loop, the datagram network, the peer's Receiver, and the      *)
(* SummaryAcks that travel back.                                            *)
(*                                                                          *)
(* Sends of different goroutines interleave: allocSeq, the insertion into   *)
(* pending and the transmission are three steps.  The retransmit tick       *)
(* copies the due payloads under the lock and transmits them after it.      *)
(* Time is abstracted: a tick finds any non-empty set of entries due.       *)
(***************************************************************************)
EXTENDS DeliveryOps

CONSTANTS
    MaxSeq,        \* bound: messages allocated
    MaxAttempts,   \* maxRetransmits: transmissions before giving up
    MaxFaults,     \* bound: lost copies and failed transmissions
    MaxAcks        \* bound: SummaryAcks in flight

ASSUME MaxSeqAssumption      == MaxSeq \in Nat
ASSUME MaxAttemptsAssumption == MaxAttempts \in Nat \ {0}
ASSUME MaxFaultsAssumption   == MaxFaults \in Nat
ASSUME MaxAcksAssumption     == MaxAcks \in Nat

VARIABLES
    nextSeq,    \* the last number allocSeq returned
    phase,      \* [Seqs -> Phase]: how far the sending goroutine is
    attempts,   \* [Seqs -> Nat]: pending[s].attempts, 0 when s is not pending
    resend,     \* toResend of the tick in progress
    gaveUp,     \* numbers the sender gave up on (onGiveUp only logs them)
    copies,     \* [Seqs -> Nat]: datagrams carrying s in flight
    receiver,   \* the peer's Receiver
    acks,       \* SummaryAcks in flight, as the sets they cover
    processed,  \* [Seqs -> Nat]: how often MarkReceived(s) returned true
    faults      \* lost copies and failed transmissions so far

senderVars   == <<nextSeq, phase, attempts, resend, gaveUp>>
receiverVars == <<receiver, processed>>
vars == <<senderVars, copies, receiverVars, acks, faults>>

Seqs == 1..MaxSeq

(***************************************************************************)
(* "allocated" the number is taken, nothing is pending yet                  *)
(* "tracked"   pending, sendFunc not yet called                             *)
(* "refit"     cancelled after DatagramTooLargeError, to be sent once more  *)
(* "retracked" pending again under the same number with the refitted payload*)
(* "sent"      Send has returned (with or without an error)                 *)
(* "skipped"   never sent: not even one node fits                           *)
(* "dropped"   cancelled after the last DatagramTooLargeError               *)
(***************************************************************************)
Phase == {"none", "allocated", "tracked", "refit", "retracked", "sent",
          "skipped", "dropped"}

\* Between the insertion into pending and the return of sendFunc.
Sending(s) == phase[s] \in {"tracked", "retracked"}

\* What follows a DatagramTooLargeError: one more attempt, or none.
Refitted(p) == IF p = "tracked" THEN {"refit", "dropped"} ELSE {"dropped"}

Pending == {s \in Seqs : attempts[s] > 0}

Init ==
    /\ nextSeq = 0
    /\ phase = [s \in Seqs |-> "none"]
    /\ attempts = [s \in Seqs |-> 0]
    /\ resend = {}
    /\ gaveUp = {}
    /\ copies = [s \in Seqs |-> 0]
    /\ receiver = NewReceiver
    /\ acks = {}
    /\ processed = [s \in Seqs |-> 0]
    /\ faults = 0

-----------------------------------------------------------------------------
(* The sending goroutines.                                                  *)

\* allocSeq
Alloc ==
    /\ nextSeq < MaxSeq
    /\ nextSeq' = nextSeq + 1
    /\ phase' = [phase EXCEPT ![nextSeq + 1] = "allocated"]
    /\ UNCHANGED <<attempts, resend, gaveUp, copies, receiverVars, acks, faults>>

\* sendFittedNodes returns before its first Send: the number stays unused.
Skip(s) ==
    /\ phase[s] = "allocated"
    /\ phase' = [phase EXCEPT ![s] = "skipped"]
    /\ UNCHANGED <<nextSeq, attempts, resend, gaveUp, copies, receiverVars, acks, faults>>

\* Send: the insertion into pending.
Track(s) ==
    /\ phase[s] \in {"allocated", "refit"}
    /\ phase' = [phase EXCEPT ![s] = IF @ = "refit" THEN "retracked" ELSE "tracked"]
    /\ attempts' = [attempts EXCEPT ![s] = 1]
    /\ UNCHANGED <<nextSeq, resend, gaveUp, copies, receiverVars, acks, faults>>

\* Send: sendFunc succeeds.
Transmit(s) ==
    /\ Sending(s)
    /\ phase' = [phase EXCEPT ![s] = "sent"]
    /\ copies' = [copies EXCEPT ![s] = @ + 1]
    /\ UNCHANGED <<nextSeq, attempts, resend, gaveUp, receiverVars, acks, faults>>

\* Send: sendFunc fails and the caller leaves the entry pending.
SendError(s) ==
    /\ Sending(s)
    /\ faults < MaxFaults
    /\ phase' = [phase EXCEPT ![s] = "sent"]
    /\ faults' = faults + 1
    /\ UNCHANGED <<nextSeq, attempts, resend, gaveUp, copies, receiverVars, acks>>

\* Send: DatagramTooLargeError, answered by Cancel and a refitted payload
\* under the same number, or by giving the response up.
TooLarge(s) ==
    /\ Sending(s)
    /\ \E p \in Refitted(phase[s]) : phase' = [phase EXCEPT ![s] = p]
    /\ attempts' = [attempts EXCEPT ![s] = 0]
    /\ UNCHANGED <<nextSeq, resend, gaveUp, copies, receiverVars, acks, faults>>

-----------------------------------------------------------------------------
(* RunRetransmitLoop.                                                       *)

\* The entries in due are visited: those in expired go to toGiveUp, the rest
\* are counted and copied; those in deleted leave the pending map.
VisitDue(due, expired, deleted) ==
    /\ resend = {}
    /\ due # {} /\ due \subseteq Pending
    /\ attempts' = [s \in Seqs |-> IF s \in deleted THEN 0
                                   ELSE IF s \in due \ expired THEN attempts[s] + 1
                                   ELSE attempts[s]]
    /\ resend' = due \ expired
    /\ gaveUp' = gaveUp \cup expired
    /\ UNCHANGED <<nextSeq, phase, copies, receiverVars, acks, faults>>

\* Mutants of Tick: the delete is forgotten, the limit is off by one.
TickForgetsToDelete(due) ==
    VisitDue(due, {s \in due : attempts[s] >= MaxAttempts}, {})
TickGivesUpEarly(due) ==
    LET expired == {s \in due : attempts[s] + 1 >= MaxAttempts}
    IN  VisitDue(due, expired, expired)
TickGivesUpLate(due) ==
    LET expired == {s \in due : attempts[s] > MaxAttempts}
    IN  VisitDue(due, expired, expired)

\* retransmitDue, the part under the lock.
Tick(due) ==
    LET expired == {s \in due : attempts[s] >= MaxAttempts}
    IN  VisitDue(due, expired, expired)

\* retransmitDue, after the lock: one payload goes out, or its send fails.
Resend(s) ==
    /\ s \in resend
    /\ resend' = resend \ {s}
    /\ \/ copies' = [copies EXCEPT ![s] = @ + 1] /\ UNCHANGED faults
       \/ faults < MaxFaults /\ faults' = faults + 1 /\ UNCHANGED copies
    /\ UNCHANGED <<nextSeq, phase, attempts, gaveUp, receiverVars, acks>>

-----------------------------------------------------------------------------
(* The network and the receiving session.                                   *)

Lose(s) ==
    /\ copies[s] > 0 /\ faults < MaxFaults
    /\ copies' = [copies EXCEPT ![s] = @ - 1]
    /\ faults' = faults + 1
    /\ UNCHANGED <<senderVars, receiverVars, acks>>

\* A copy arrives: MarkReceived, and the handler if it returned true.
Arrive(s) ==
    /\ copies[s] > 0
    /\ copies' = [copies EXCEPT ![s] = @ - 1]
    /\ receiver' = MarkReceived(receiver, s)
    /\ processed' = IF IsDuplicate(receiver, s) THEN processed
                    ELSE [processed EXCEPT ![s] = @ + 1]
    /\ UNCHANGED <<senderVars, acks, faults>>

\* One turn of ackLoop; an ack that covers nothing is not sent.
SendAck ==
    /\ Cardinality(acks) < MaxAcks
    /\ BuildAck(receiver) # {}
    /\ acks' = acks \cup {BuildAck(receiver)}
    /\ UNCHANGED <<senderVars, copies, receiverVars, faults>>

LoseAck(a) ==
    /\ a \in acks
    /\ acks' = acks \ {a}
    /\ UNCHANGED <<senderVars, copies, receiverVars, faults>>

\* The entries in covered are no longer pending.
Settle(a, covered) ==
    /\ a \in acks
    /\ acks' = acks \ {a}
    /\ attempts' = [s \in Seqs |-> IF s \in covered THEN 0 ELSE attempts[s]]
    /\ UNCHANGED <<nextSeq, phase, resend, gaveUp, copies, receiverVars, faults>>

\* Mutant: an ack read as a high-water mark.
HandleAckHighWater(a) == Settle(a, {s \in Seqs : \E t \in a : s <= t})

\* HandleAck
HandleAck(a) == Settle(a, a)

-----------------------------------------------------------------------------
SendStep(s) == Skip(s) \/ Track(s) \/ Transmit(s) \/ SendError(s) \/ TooLarge(s)

Next ==
    \/ Alloc
    \/ \E s \in Seqs : SendStep(s) \/ Resend(s) \/ Lose(s) \/ Arrive(s)
    \/ \E due \in SUBSET Pending : Tick(due)
    \/ SendAck
    \/ \E a \in acks : LoseAck(a) \/ HandleAck(a)

Spec == Init /\ [][Next]_vars

(***************************************************************************)
(* Goroutines run (a send in progress proceeds, a copied payload is         *)
(* transmitted, a datagram in flight arrives or is lost).  The ticker ticks *)
(* for ever and an entry that is not resent becomes due, but another tick's *)
(* resends may be in progress just then, hence strong fairness.             *)
(***************************************************************************)
Fairness ==
    \A s \in Seqs :
        /\ WF_vars(SendStep(s))
        /\ WF_vars(Resend(s))
        /\ WF_vars(Arrive(s))
        /\ SF_vars(\E due \in SUBSET Pending : s \in due /\ Tick(due))

FairSpec == Spec /\ Fairness
-----------------------------------------------------------------------------
Arrived == {s \in Seqs : processed[s] > 0}

\* Type invariant.
TypeOK ==
    /\ nextSeq \in 0..MaxSeq
    /\ phase \in [Seqs -> Phase]
    /\ attempts \in [Seqs -> 0..MaxAttempts]
    /\ resend \subseteq Seqs
    /\ gaveUp \subseteq Seqs
    /\ copies \in [Seqs -> Nat]
    /\ receiver \in [contiguous : 0..MaxSeq, above : SUBSET Seqs]
    /\ acks \subseteq SUBSET Seqs
    /\ processed \in [Seqs -> Nat]
    /\ faults \in 0..MaxFaults

\* No message is handed to a handler twice, however often it is
\* retransmitted and whatever the receiver has stopped waiting for.
AtMostOnce == \A s \in Seqs : processed[s] <= 1

\* A receiver gives a gap up only after more than MaxOutOfOrder later
\* numbers arrived, so an ack covers nothing else that never arrived.
WrittenOffOnlyAfterOverflow ==
    \A s \in Seqs :
        s <= receiver.contiguous /\ s \notin Arrived
            => Cardinality({t \in Arrived : t > s}) > MaxOutOfOrder

\* At most MaxOutOfOrder numbers are held individually, and never the one
\* that would extend the contiguous prefix.
HeldBounded ==
    /\ Cardinality(receiver.above) <= MaxOutOfOrder
    /\ \A s \in receiver.above : s > receiver.contiguous + 1

\* A sent message stops being pending only when it was handed over, when the
\* receiver wrote it off, or when the sender gave up on it.
NoSilentLoss ==
    \A s \in Seqs :
        phase[s] = "sent" /\ attempts[s] = 0
            => s \in Arrived \/ s <= receiver.contiguous \/ s \in gaveUp

\* An ack that arrives late still tells the truth about the receiver.
AcksStayTrue ==
    \A a \in acks : a \subseteq 1..receiver.contiguous \cup receiver.above

\* Nothing is retransmitted for ever.
PendingDrains == \A s \in Seqs : attempts[s] > 0 ~> attempts[s] = 0

\* With fewer faults than attempts, every sent message is handed over,
\* unless the receiver wrote it off.
SentIsHandedOver ==
    \A s \in Seqs :
        phase[s] = "sent" ~> s \in Arrived \/ s <= receiver.contiguous

\* The layer implements Delivery.
StatusOf(s) ==
    IF s \in Arrived THEN "delivered"
    ELSE IF s <= receiver.contiguous THEN "writtenOff"
    ELSE IF phase[s] \in {"none", "allocated", "skipped"} THEN "unsent"
    ELSE "sent"

deliveryStatus == [s \in Seqs |-> StatusOf(s)]

D == INSTANCE Delivery WITH Window <- MaxOutOfOrder, status <- deliveryStatus

ImplementsDelivery == D!Spec
=============================================================================
