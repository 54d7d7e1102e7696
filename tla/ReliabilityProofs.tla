-------------------------- MODULE ReliabilityProofs --------------------------
(***************************************************************************)
(* The safety of one direction of the reliability layer, for any number of *)
(* messages, attempts, faults and acks, and any receiver limit.             *)
(***************************************************************************)
EXTENDS Reliability, DeliveryOpsProofs

\* Every number ever handed over is remembered, below the mark or above it.
Remembered ==
    \A s \in Arrived : s <= receiver.contiguous \/ s \in receiver.above

\* AtMostOnce is inductive only with Remembered, and
\* WrittenOffOnlyAfterOverflow only with the held numbers having arrived.
IInv ==
    /\ TypeOK
    /\ ReceiverOK(receiver)
    /\ receiver.above \subseteq Arrived
    /\ Remembered
    /\ AtMostOnce
    /\ WrittenOffOnlyAfterOverflow

\* Nothing has been sent or received at first.
LEMMA InitIInv == Init => IInv
<1> SUFFICES ASSUME Init PROVE IInv
  OBVIOUS
<1>1. Arrived = {} /\ Seqs \subseteq Nat
  BY MaxSeqAssumption DEF Init, Arrived, Seqs
<1>2. TypeOK
  BY MaxSeqAssumption, MaxAttemptsAssumption, MaxFaultsAssumption
     DEF Init, TypeOK, NewReceiver, Phase
<1>3. ReceiverOK(receiver)
  BY FS_EmptySet, MaxOutOfOrderAssumption DEF Init, NewReceiver, ReceiverOK
<1>4. receiver.above \subseteq Arrived /\ Remembered /\ AtMostOnce
  BY <1>1 DEF Init, NewReceiver, Remembered, AtMostOnce
<1>5. WrittenOffOnlyAfterOverflow
  BY MaxSeqAssumption DEF Init, NewReceiver, WrittenOffOnlyAfterOverflow, Seqs
<1> QED BY <1>2, <1>3, <1>4, <1>5 DEF IInv

\* An ack covers only numbers of messages that were allocated.
LEMMA AckInSeqs ==
    ASSUME TypeOK PROVE BuildAck(receiver) \subseteq Seqs
BY MaxSeqAssumption DEF TypeOK, BuildAck, Seqs

\* The sender's steps and the network's keep the types; the receiver is the
\* subject of ArriveIInv.
LEMMA SenderType ==
    ASSUME TypeOK, [Next]_vars, UNCHANGED receiverVars
    PROVE  TypeOK'
<1> USE MaxSeqAssumption, MaxAttemptsAssumption, MaxFaultsAssumption
<1>0. Seqs \subseteq Nat
  BY DEF Seqs
<1>1. CASE Alloc
  BY <1>1 DEF Alloc, TypeOK, Phase, receiverVars, Seqs
<1>2. ASSUME NEW s \in Seqs, SendStep(s) PROVE TypeOK'
  <2>1. CASE Skip(s)
    BY <2>1 DEF Skip, TypeOK, Phase, receiverVars
  <2>2. CASE Track(s)
    BY <2>2 DEF Track, TypeOK, Phase, receiverVars
  <2>3. CASE Transmit(s)
    BY <2>3 DEF Transmit, TypeOK, Phase, receiverVars
  <2>4. CASE SendError(s)
    BY <2>4 DEF SendError, TypeOK, Phase, receiverVars
  <2>5. CASE TooLarge(s)
    BY <2>5 DEF TooLarge, TypeOK, Phase, Refitted, receiverVars
  <2> QED BY <1>2, <2>1, <2>2, <2>3, <2>4, <2>5 DEF SendStep
<1>3. ASSUME NEW s \in Seqs, Resend(s) PROVE TypeOK'
  BY <1>3 DEF Resend, TypeOK, receiverVars
<1>4. ASSUME NEW s \in Seqs, Lose(s) PROVE TypeOK'
  BY <1>4 DEF Lose, TypeOK, senderVars, receiverVars
<1>5. ASSUME NEW s \in Seqs, Arrive(s) PROVE TypeOK'
  <2>1. copies' \in [Seqs -> Nat]
    BY <1>5 DEF Arrive, TypeOK
  <2> QED BY <1>5, <2>1 DEF Arrive, TypeOK, senderVars, receiverVars
<1>6. ASSUME NEW due \in SUBSET Pending, Tick(due) PROVE TypeOK'
  <2>1. due \subseteq Seqs
    BY DEF Pending
  <2>2. attempts' \in [Seqs -> 0..MaxAttempts]
    BY <1>6 DEF Tick, VisitDue, TypeOK
  <2> QED BY <1>6, <2>1, <2>2 DEF Tick, VisitDue, TypeOK, receiverVars
<1>7. CASE SendAck
  BY <1>7, AckInSeqs DEF SendAck, TypeOK, senderVars, receiverVars
<1>8. ASSUME NEW a \in acks, LoseAck(a) PROVE TypeOK'
  BY <1>8 DEF LoseAck, TypeOK, senderVars, receiverVars
<1>9. ASSUME NEW a \in acks, HandleAck(a) PROVE TypeOK'
  BY <1>9 DEF HandleAck, Settle, TypeOK, receiverVars
<1>10. CASE UNCHANGED vars
  BY <1>10 DEF vars, TypeOK, senderVars, receiverVars
<1> QED
  BY <1>1, <1>2, <1>3, <1>4, <1>5, <1>6, <1>7, <1>8, <1>9, <1>10 DEF Next

\* Every step but an arrival leaves the receiver's side of IInv alone.
LEMMA OtherIInv ==
    ASSUME IInv, [Next]_vars, UNCHANGED receiverVars
    PROVE  IInv'
<1>1. TypeOK'
  BY SenderType DEF IInv
<1>2. Arrived' = Arrived /\ receiver' = receiver /\ processed' = processed
  BY DEF receiverVars, Arrived
<1>3. ReceiverOK(receiver)' /\ Remembered' /\ AtMostOnce'
  BY <1>2 DEF IInv, Remembered, AtMostOnce, ReceiverOK
<1>4. WrittenOffOnlyAfterOverflow'
  BY <1>2 DEF IInv, WrittenOffOnlyAfterOverflow
<1>5. (receiver.above \subseteq Arrived)'
  BY <1>2 DEF IInv
<1> QED BY <1>1, <1>3, <1>4, <1>5 DEF IInv

\* A copy arrives: MarkReceived decides whether the handler runs.
LEMMA ArriveIInv ==
    ASSUME IInv, NEW s \in Seqs, Arrive(s)
    PROVE  IInv'
<1> DEFINE r == receiver
           q == MarkReceived(r, s)
           held == r.above \cup {s}
<1>1. Seqs \subseteq Nat /\ s \in Nat /\ Arrived \subseteq Seqs
  BY MaxSeqAssumption DEF Seqs, Arrived
<1>2. /\ TypeOK /\ ReceiverOK(r) /\ r.above \subseteq Arrived /\ Remembered
      /\ AtMostOnce /\ WrittenOffOnlyAfterOverflow
  BY DEF IInv
<1>3. receiver' = q
  BY DEF Arrive
<1>4. /\ ReceiverOK(q)
      /\ q.contiguous >= r.contiguous
      /\ q.contiguous > r.contiguous => q.contiguous \in held
      /\ q.above \subseteq held
      /\ \A t \in held : t <= q.contiguous \/ t \in q.above
      /\ \A t \in Nat :
            t > r.contiguous /\ t <= q.contiguous
            => \/ t \in held
               \/ \E later \in SUBSET held :
                     /\ IsFiniteSet(later)
                     /\ Cardinality(later) > MaxOutOfOrder
                     /\ \A u \in later : u > t
  BY <1>1, <1>2, MarkReceivedSpec
<1>5. processed' = IF IsDuplicate(r, s) THEN processed
                   ELSE [processed EXCEPT ![s] = @ + 1]
  BY DEF Arrive
<1>6. IsDuplicate(r, s) = (s <= r.contiguous \/ s \in r.above)
  BY DEF IsDuplicate
<1>7. r.contiguous \in Nat /\ q.contiguous \in Nat /\ r.above \subseteq Seqs
  BY <1>2, <1>4 DEF ReceiverOK, TypeOK
<1> HIDE DEF q, r
<1>8. ASSUME ~ IsDuplicate(r, s) PROVE processed[s] = 0
  <2>1. processed[s] \in Nat
    BY <1>2 DEF TypeOK
  <2>2. s \notin Arrived
    BY <1>2, <1>6, <1>8 DEF Remembered, r
  <2> QED BY <2>1, <2>2 DEF Arrived
<1>9. /\ processed' \in [Seqs -> Nat]
      /\ AtMostOnce'
      /\ Arrived' = IF IsDuplicate(r, s) THEN Arrived ELSE Arrived \cup {s}
  <2> DEFINE dup == IsDuplicate(r, s)
  <2>1. processed \in [Seqs -> Nat] /\ \A t \in Seqs : processed[t] <= 1
    BY <1>2 DEF TypeOK, AtMostOnce
  <2>2. dup => processed' = processed
    BY <1>5
  <2>3. ~ dup => processed[s] = 0 /\ processed' = [processed EXCEPT ![s] = @ + 1]
    BY <1>5, <1>8
  <2> HIDE DEF dup
  <2>4. CASE dup
    BY <2>1, <2>2, <2>4 DEF AtMostOnce, Arrived, dup
  <2>5. CASE ~ dup
    <3>1. processed' \in [Seqs -> Nat]
      BY <2>1, <2>3, <2>5
    <3>2. \A t \in Seqs : processed'[t] = IF t = s THEN 1 ELSE processed[t]
      BY <2>1, <2>3, <2>5
    <3>3. AtMostOnce'
      BY <2>1, <3>2 DEF AtMostOnce
    <3>4. Arrived' = Arrived \cup {s}
      BY <2>1, <3>2 DEF Arrived
    <3> QED BY <2>5, <3>1, <3>3, <3>4 DEF dup
  <2> QED BY <2>4, <2>5
<1>10. TypeOK'
  <2>1. q \in [contiguous : 0..MaxSeq, above : SUBSET Seqs]
    <3>1. q.contiguous \in 0..MaxSeq
      BY <1>2, <1>4, <1>7, MaxSeqAssumption DEF TypeOK, Seqs, r
    <3>2. q.above \subseteq Seqs
      BY <1>4, <1>7
    <3> QED BY <1>4, <3>1, <3>2 DEF ReceiverOK
  <2>2. copies' \in [Seqs -> Nat]
    BY <1>2 DEF Arrive, TypeOK
  <2> QED BY <1>2, <1>3, <1>9, <2>1, <2>2 DEF Arrive, TypeOK, senderVars
<1>11. (receiver.above \subseteq Arrived)'
  BY <1>2, <1>3, <1>4, <1>6, <1>9 DEF MarkReceived, Record, q, r
<1>12. Remembered'
  <2> SUFFICES ASSUME NEW t \in Arrived'
               PROVE  t <= q.contiguous \/ t \in q.above
    BY <1>3 DEF Remembered
  <2>1. t \in Arrived \cup {s} /\ t \in Nat
    BY <1>1, <1>9
  <2>2. t \in held \/ t <= r.contiguous
    BY <1>2, <2>1 DEF Remembered, r
  <2> QED BY <1>4, <1>7, <2>1, <2>2
<1>13. WrittenOffOnlyAfterOverflow'
  <2> SUFFICES ASSUME NEW t \in Seqs, t <= q.contiguous, t \notin Arrived'
               PROVE  Cardinality({u \in Arrived' : u > t}) > MaxOutOfOrder
    BY <1>3 DEF WrittenOffOnlyAfterOverflow
  <2> DEFINE after == {u \in Arrived' : u > t}
  <2>1. IsFiniteSet(after) /\ Cardinality(after) \in Nat
    <3>1. IsFiniteSet(Seqs)
      BY MaxSeqAssumption, FS_Interval DEF Seqs
    <3>2. after \in SUBSET Seqs
      BY DEF Arrived
    <3> HIDE DEF after
    <3> QED BY <3>1, <3>2, FS_Subset, FS_CardinalityType
  <2>2. PICK later \in SUBSET after :
             IsFiniteSet(later) /\ Cardinality(later) > MaxOutOfOrder
    <3>1. CASE t <= r.contiguous
      <4>1. Cardinality({u \in Arrived : u > t}) > MaxOutOfOrder
        BY <1>2, <1>9, <3>1 DEF WrittenOffOnlyAfterOverflow, r
      <4>2. {u \in Arrived : u > t} \in SUBSET after
        BY <1>9
      <4>3. IsFiniteSet({u \in Arrived : u > t})
        BY <2>1, <4>2, FS_Subset
      <4> QED BY <4>1, <4>2, <4>3
    <3>2. CASE t > r.contiguous
      <4>1. ~ IsDuplicate(r, s) => held \subseteq Arrived'
        BY <1>2, <1>9 DEF r
      <4>2. ~ IsDuplicate(r, s)
        BY <1>3, <3>2, <1>7, <1>1 DEF MarkReceived, Record, q
      <4>3. t \notin held
        BY <4>1, <4>2
      <4>4. PICK later \in SUBSET held :
                 /\ IsFiniteSet(later)
                 /\ Cardinality(later) > MaxOutOfOrder
                 /\ \A u \in later : u > t
        BY <1>1, <1>4, <3>2, <4>3
      <4>5. later \in SUBSET after
        BY <4>1, <4>2, <4>4
      <4> QED BY <4>4, <4>5
    <3> QED BY <1>1, <1>7, <3>1, <3>2
  <2>3. Cardinality(later) <= Cardinality(after) /\ Cardinality(later) \in Nat
    <3> HIDE DEF after
    <3> QED BY <2>1, <2>2, FS_Subset, FS_CardinalityType
  <2> HIDE DEF after
  <2>4. Cardinality(after) > MaxOutOfOrder
    BY <2>1, <2>2, <2>3, MaxOutOfOrderAssumption
  <2> QED BY <2>4 DEF after
<1> QED BY <1>3, <1>4, <1>9, <1>10, <1>11, <1>12, <1>13 DEF IInv

\* IInv is inductive: an arrival is the only step that touches the receiver.
LEMMA NextIInv == IInv /\ [Next]_vars => IInv'
<1> SUFFICES ASSUME IInv, [Next]_vars PROVE IInv'
  OBVIOUS
<1>1. ASSUME NEW s \in Seqs, Arrive(s) PROVE IInv'
  BY <1>1, ArriveIInv
<1>2. CASE UNCHANGED receiverVars
  BY <1>2, OtherIInv
<1>3. (\E s \in Seqs : Arrive(s)) \/ UNCHANGED receiverVars
  BY DEF Next, Alloc, SendStep, Skip, Track, Transmit, SendError, TooLarge,
         Resend, Lose, Tick, VisitDue, SendAck, LoseAck, HandleAck, Settle,
         vars, receiverVars
<1> QED BY <1>1, <1>2, <1>3

\* IInv holds for ever.
LEMMA Invariance == Spec => []IInv
BY InitIInv, NextIInv, PTL DEF Spec

\* The variables of a direction keep their types; in particular no entry is
\* ever counted beyond MaxAttempts and the mark never passes the last number.
THEOREM TypeCorrect == Spec => []TypeOK
<1>1. IInv => TypeOK
  BY DEF IInv
<1> QED BY <1>1, Invariance, PTL

\* MarkReceived lets no message through twice: not after its retransmission,
\* not after a lost ack, not after the receiver stopped waiting for it.
THEOREM HandedOverAtMostOnce == Spec => []AtMostOnce
<1>1. IInv => AtMostOnce
  BY DEF IInv
<1> QED BY <1>1, Invariance, PTL

\* The receiver's memory is bounded by maxOutOfOrder.
THEOREM ReceiverBounded == Spec => []HeldBounded
<1>1. IInv => HeldBounded
  BY DEF IInv, ReceiverOK, HeldBounded
<1> QED BY <1>1, Invariance, PTL

\* A number is acknowledged without having arrived only when more than
\* maxOutOfOrder later ones did.
THEOREM WriteOffJustified == Spec => []WrittenOffOnlyAfterOverflow
<1>1. IInv => WrittenOffOnlyAfterOverflow
  BY DEF IInv
<1> QED BY <1>1, Invariance, PTL
-----------------------------------------------------------------------------
(* What the sender may forget.                                              *)

\* NoSilentLoss is inductive only for the messages being sent as well: an ack
\* or the retransmit loop may visit an entry before sendFunc returns.
Accounted ==
    \A s \in Seqs :
        (Sending(s) \/ phase[s] = "sent") /\ attempts[s] = 0
            => s \in Arrived \/ s <= receiver.contiguous \/ s \in gaveUp

LossInv == AcksStayTrue /\ Accounted

\* The receiver only ever settles more numbers.
LEMMA ReceiverGrows ==
    ASSUME IInv, [Next]_vars
    PROVE  /\ receiver.contiguous \in Nat /\ receiver'.contiguous \in Nat
           /\ receiver'.contiguous >= receiver.contiguous
           /\ \A s \in receiver.above :
                  s <= receiver'.contiguous \/ s \in receiver'.above
           /\ Arrived \subseteq Arrived'
<1>0. receiver.contiguous \in Nat /\ IInv' /\ receiver'.contiguous \in Nat
  BY NextIInv DEF IInv, ReceiverOK
<1>1. ASSUME NEW s \in Seqs, Arrive(s)
      PROVE  /\ receiver'.contiguous >= receiver.contiguous
             /\ \A t \in receiver.above :
                    t <= receiver'.contiguous \/ t \in receiver'.above
             /\ Arrived \subseteq Arrived'
  <2>1. receiver' = MarkReceived(receiver, s) /\ s \in Nat /\ ReceiverOK(receiver)
    BY <1>1, MaxSeqAssumption DEF Arrive, Seqs, IInv
  <2>2. \A t \in Seqs : processed[t] > 0 => processed'[t] > 0
    BY <1>1 DEF Arrive, IInv, TypeOK
  <2> QED BY <2>1, <2>2, MarkReceivedSpec DEF Arrived
<1>2. CASE UNCHANGED receiverVars
  BY <1>0, <1>2 DEF receiverVars, Arrived
<1>3. (\E s \in Seqs : Arrive(s)) \/ UNCHANGED receiverVars
  BY DEF Next, Alloc, SendStep, Skip, Track, Transmit, SendError, TooLarge,
         Resend, Lose, Tick, VisitDue, SendAck, LoseAck, HandleAck, Settle,
         vars, receiverVars
<1> QED BY <1>0, <1>1, <1>2, <1>3

\* No ack in flight is made false by what the receiver does after sending it.
LEMMA AcksTrueStep ==
    ASSUME IInv, AcksStayTrue, [Next]_vars
    PROVE  AcksStayTrue'
<1> SUFFICES ASSUME NEW a \in acks', NEW t \in a
             PROVE  t \in 1..receiver'.contiguous \cup receiver'.above
  BY DEF AcksStayTrue
<1>1. CASE a \in acks
  <2>1. t \in 1..receiver.contiguous \cup receiver.above
    BY <1>1 DEF AcksStayTrue
  <2>2. t \in Nat /\ t >= 1
    BY <2>1, MaxSeqAssumption, ReceiverGrows DEF IInv, TypeOK, Seqs
  <2> QED BY <2>1, <2>2, ReceiverGrows
<1>2. CASE a \notin acks
  <2>1. SendAck
    BY <1>2 DEF Next, Alloc, SendStep, Skip, Track, Transmit, SendError,
            TooLarge, Resend, Lose, Arrive, Tick, VisitDue, LoseAck,
            HandleAck, Settle, vars, senderVars, receiverVars
  <2> QED BY <1>2, <2>1 DEF SendAck, BuildAck, receiverVars
<1> QED BY <1>1, <1>2

\* An entry leaves the pending map only for one of the three reasons.
LEMMA AccountedStep ==
    ASSUME IInv, LossInv, [Next]_vars
    PROVE  Accounted'
<1> DEFINE Reason(s) == s \in Arrived \/ s <= receiver.contiguous \/ s \in gaveUp
<1> SUFFICES ASSUME NEW s \in Seqs, (Sending(s) \/ phase[s] = "sent")',
                    attempts'[s] = 0
             PROVE  Reason(s)'
  BY DEF Accounted
<1>1. gaveUp \subseteq gaveUp'
  BY DEF Next, Alloc, SendStep, Skip, Track, Transmit, SendError, TooLarge,
         Resend, Lose, Arrive, Tick, VisitDue, SendAck, LoseAck, HandleAck,
         Settle, vars, senderVars, receiverVars
<1>2. Reason(s) => Reason(s)'
  BY <1>1, ReceiverGrows, MaxSeqAssumption DEF Seqs
<1>3. /\ phase \in [Seqs -> Phase] /\ attempts \in [Seqs -> 0..MaxAttempts]
      /\ nextSeq \in 0..MaxSeq
  BY DEF IInv, TypeOK
<1>4. CASE (Sending(s) \/ phase[s] = "sent") /\ attempts[s] = 0
  BY <1>2, <1>4 DEF LossInv, Accounted
<1>5. CASE attempts[s] # 0
  <2>1. ASSUME NEW due \in SUBSET Pending, Tick(due) PROVE Reason(s)'
    BY <1>3, <1>5, <2>1, MaxAttemptsAssumption DEF Tick, VisitDue
  <2>2. ASSUME NEW a \in acks, HandleAck(a) PROVE Reason(s)'
    <3>1. s \in a
      BY <1>3, <1>5, <2>2 DEF HandleAck, Settle
    <3>2. s \in 1..receiver.contiguous \cup receiver.above
      BY <3>1 DEF LossInv, AcksStayTrue
    <3> QED BY <1>2, <3>2, ReceiverGrows DEF IInv
  <2>3. ASSUME NEW u \in Seqs, SendStep(u) PROVE Reason(s)'
    BY <1>3, <1>5, <2>3
       DEF SendStep, Skip, Track, Transmit, SendError, TooLarge, Sending,
           Refitted, Phase
  <2>4. attempts' = attempts
        \/ (\E due \in SUBSET Pending : Tick(due))
        \/ (\E a \in acks : HandleAck(a))
        \/ (\E u \in Seqs : SendStep(u))
    BY DEF Next, Alloc, Resend, Lose, Arrive, SendAck, LoseAck, vars,
           senderVars, receiverVars
  <2> QED BY <1>5, <2>1, <2>2, <2>3, <2>4
<1>6. CASE ~ (Sending(s) \/ phase[s] = "sent")
  <2>1. ASSUME NEW u \in Seqs, SendStep(u) PROVE FALSE
    BY <1>3, <1>6, <2>1
       DEF SendStep, Skip, Track, Transmit, SendError, TooLarge, Sending,
           Refitted, Phase
  <2>2. CASE Alloc
    BY <1>3, <1>6, <2>2, MaxSeqAssumption DEF Alloc, Sending, Phase, Seqs
  <2>3. phase' = phase \/ Alloc \/ (\E u \in Seqs : SendStep(u))
    BY DEF Next, Resend, Lose, Arrive, Tick, VisitDue, SendAck, LoseAck,
           HandleAck, Settle, vars, senderVars, receiverVars
  <2> QED BY <1>6, <2>1, <2>2, <2>3 DEF Sending
<1> QED BY <1>4, <1>5, <1>6

\* The two facts together are an invariant.
LEMMA LossInvariance == Spec => []LossInv
<1>1. Init => LossInv
  BY DEF Init, LossInv, AcksStayTrue, Accounted, Sending
<1>2. IInv /\ LossInv /\ [Next]_vars => LossInv'
  BY AcksTrueStep, AccountedStep DEF LossInv
<1> QED BY <1>1, <1>2, Invariance, PTL DEF Spec

\* A SummaryAck that arrives late, after others or after the receiver moved
\* on, covers nothing the receiver has not settled, however it was truncated.
THEOREM LateAcksAreTrue == Spec => []AcksStayTrue
<1>1. LossInv => AcksStayTrue
  BY DEF LossInv
<1> QED BY <1>1, LossInvariance, PTL

\* A sent message is retransmitted until it was handed over, written off by
\* the receiver or given up by the sender.
THEOREM NothingSilentlyLost == Spec => []NoSilentLoss
<1>1. LossInv => NoSilentLoss
  BY DEF LossInv, Accounted, NoSilentLoss
<1> QED BY <1>1, LossInvariance, PTL

-----------------------------------------------------------------------------
(* Reliability implements Delivery: every step of the detailed layer is a   *)
(* Send, a HandOver or no step at all of the abstract one.                   *)

Unsent(s) == phase[s] \in {"none", "allocated", "skipped"}

\* Only a number its owner took up leaves a trace in the layer, and numbers
\* not yet allocated are untouched.
SentFirst ==
    /\ \A s \in Seqs : s > nextSeq => phase[s] = "none"
    /\ \A s \in Seqs :
          attempts[s] > 0 \/ s \in resend \/ copies[s] > 0 \/ s \in Arrived
              => ~ Unsent(s)

\* A step that changes neither phase nor Arrived and brings no trace of a
\* message that had none keeps SentFirst.
LEMMA SentFirstKept ==
    ASSUME SentFirst, UNCHANGED <<nextSeq, phase>>,
           \A s \in Seqs :
              (attempts[s] > 0 \/ s \in resend \/ copies[s] > 0 \/ s \in Arrived)'
                => attempts[s] > 0 \/ s \in resend \/ copies[s] > 0 \/ s \in Arrived
    PROVE  SentFirst'
BY DEF SentFirst, Unsent

\* A sending goroutine's step turns only the number it tracks into a sent one.
LEMMA SendStepSentFirst ==
    ASSUME IInv, SentFirst, NEW s \in Seqs, SendStep(s)
    PROVE  SentFirst'
<1>1. /\ phase \in [Seqs -> Phase] /\ attempts \in [Seqs -> 0..MaxAttempts]
      /\ copies \in [Seqs -> Nat]
  BY DEF IInv, TypeOK
<1>2. nextSeq' = nextSeq /\ resend' = resend /\ Arrived' = Arrived
  BY DEF SendStep, Skip, Track, Transmit, SendError, TooLarge, receiverVars, Arrived
<1>3. phase[s] # "none" /\ \A t \in Seqs : t # s => phase'[t] = phase[t]
  BY <1>1 DEF SendStep, Skip, Track, Transmit, SendError, TooLarge, Sending
<1>4. \A t \in Seqs : t # s => attempts'[t] = attempts[t] /\ copies'[t] = copies[t]
  BY <1>1 DEF SendStep, Skip, Track, Transmit, SendError, TooLarge
<1>5. Unsent(s)' => /\ Unsent(s)
                    /\ attempts'[s] = attempts[s] /\ copies'[s] = copies[s]
  BY <1>1 DEF SendStep, Skip, Track, Transmit, SendError, TooLarge, Sending,
              Refitted, Unsent
<1> QED BY <1>2, <1>3, <1>4, <1>5 DEF SentFirst, Unsent

\* SentFirst is an invariant.
LEMMA NextSentFirst == IInv /\ SentFirst /\ [Next]_vars => SentFirst'
<1> SUFFICES ASSUME IInv, SentFirst, [Next]_vars PROVE SentFirst'
  OBVIOUS
<1> DEFINE Trace(s) == attempts[s] > 0 \/ s \in resend \/ copies[s] > 0 \/ s \in Arrived
<1>0. /\ phase \in [Seqs -> Phase] /\ attempts \in [Seqs -> 0..MaxAttempts]
      /\ copies \in [Seqs -> Nat] /\ processed \in [Seqs -> Nat]
      /\ nextSeq \in 0..MaxSeq
  BY DEF IInv, TypeOK
<1>1. CASE Alloc
  <2>1. Arrived' = Arrived
    BY <1>1 DEF Alloc, receiverVars, Arrived
  <2>2. nextSeq + 1 \in Seqs /\ phase[nextSeq + 1] = "none"
    BY <1>0, <1>1, MaxSeqAssumption DEF Alloc, Seqs, SentFirst
  <2> QED BY <1>0, <1>1, <2>1, <2>2, MaxSeqAssumption
          DEF Alloc, SentFirst, Unsent, Seqs
<1>2. ASSUME NEW s \in Seqs, SendStep(s) PROVE SentFirst'
  BY <1>2, SendStepSentFirst
<1>3. ASSUME NEW s \in Seqs, Resend(s) PROVE SentFirst'
  BY <1>0, <1>3, SentFirstKept DEF Resend, receiverVars, Arrived
<1>4. ASSUME NEW s \in Seqs, Lose(s) PROVE SentFirst'
  BY <1>0, <1>4, SentFirstKept DEF Lose, senderVars, receiverVars, Arrived
<1>5. ASSUME NEW s \in Seqs, Arrive(s) PROVE SentFirst'
  BY <1>0, <1>5, SentFirstKept DEF Arrive, senderVars, Arrived
<1>6. ASSUME NEW due \in SUBSET Pending, Tick(due) PROVE SentFirst'
  <2>1. \A s \in Seqs : attempts'[s] > 0 => attempts[s] > 0
    BY <1>0, <1>6, MaxAttemptsAssumption DEF Tick, VisitDue, Pending
  <2>2. \A s \in resend' : attempts[s] > 0
    BY <1>6 DEF Tick, VisitDue, Pending
  <2> QED BY <1>6, <2>1, <2>2, SentFirstKept DEF Tick, VisitDue, receiverVars, Arrived
<1>7. CASE SendAck
  BY <1>7, SentFirstKept DEF SendAck, senderVars, receiverVars, Arrived
<1>8. ASSUME NEW a \in acks, LoseAck(a) PROVE SentFirst'
  BY <1>8, SentFirstKept DEF LoseAck, senderVars, receiverVars, Arrived
<1>9. ASSUME NEW a \in acks, HandleAck(a) PROVE SentFirst'
  BY <1>9, SentFirstKept DEF HandleAck, Settle, receiverVars, Arrived
<1>10. CASE UNCHANGED vars
  BY <1>10, SentFirstKept DEF vars, senderVars, receiverVars, Arrived
<1> QED
  BY <1>1, <1>2, <1>3, <1>4, <1>5, <1>6, <1>7, <1>8, <1>9, <1>10 DEF Next
-----------------------------------------------------------------------------
(* Steps of the layer are steps of Delivery.                                *)

\* A step that leaves the receiver, and who was sent at all, alone is no step
\* of Delivery.
LEMMA Stutter ==
    ASSUME UNCHANGED receiverVars, \A s \in Seqs : Unsent(s)' = Unsent(s)
    PROVE  UNCHANGED deliveryStatus
<1>1. Arrived' = Arrived /\ receiver' = receiver
  BY DEF receiverVars, Arrived
<1>2. \A s \in Seqs : StatusOf(s)' = StatusOf(s)
  BY <1>1 DEF StatusOf, Unsent
<1> QED BY <1>2 DEF deliveryStatus

\* Track is the Send of Delivery, unless the receiver passed the number over
\* before it was sent; every other step of the sender is invisible.
LEMMA SendStepRefines ==
    ASSUME IInv, NEW s \in Seqs, SendStep(s)
    PROVE  D!Send(s) \/ UNCHANGED deliveryStatus
<1>1. phase \in [Seqs -> Phase]
  BY DEF IInv, TypeOK
<1>2. UNCHANGED receiverVars
  BY DEF SendStep, Skip, Track, Transmit, SendError, TooLarge
<1>3. CASE phase[s] = "allocated" /\ Track(s)
  <2>1. Arrived' = Arrived /\ receiver' = receiver
    BY <1>2 DEF receiverVars, Arrived
  <2>2. \A t \in Seqs : phase'[t] = IF t = s THEN "tracked" ELSE phase[t]
    BY <1>1, <1>3 DEF Track
  <2>3. CASE s \in Arrived \/ s <= receiver.contiguous
    <3>1. \A t \in Seqs : StatusOf(t)' = StatusOf(t)
      BY <2>1, <2>2, <2>3 DEF StatusOf
    <3> QED BY <3>1 DEF deliveryStatus
  <2>4. CASE ~ (s \in Arrived \/ s <= receiver.contiguous)
    <3>1. StatusOf(s) = "unsent" /\ StatusOf(s)' = "sent"
      BY <1>3, <2>1, <2>2, <2>4 DEF StatusOf
    <3>2. \A t \in Seqs : t # s => StatusOf(t)' = StatusOf(t)
      BY <2>1, <2>2 DEF StatusOf
    <3> QED BY <3>1, <3>2 DEF D!Send, deliveryStatus
  <2> QED BY <2>3, <2>4
<1>4. CASE ~ (phase[s] = "allocated" /\ Track(s))
  <2>1. \A t \in Seqs : Unsent(t)' = Unsent(t)
    BY <1>1, <1>4 DEF SendStep, Skip, Track, Transmit, SendError, TooLarge,
                      Sending, Refitted, Unsent
  <2> QED BY <1>2, <2>1, Stutter
<1> QED BY <1>3, <1>4

\* Both modules count with the same Cardinality.
LEMMA SameCardinality == \A S : D!Cardinality(S) = Cardinality(S)
BY DEF D!Cardinality, Cardinality

\* The first arrival of a number is its HandOver; the numbers the mark passes
\* over meanwhile are the ones given up.
LEMMA ArriveRefines ==
    ASSUME IInv, IInv', SentFirst, NEW s \in Seqs, Arrive(s)
    PROVE  (\E late \in SUBSET Seqs : D!HandOver(s, late)) \/ UNCHANGED deliveryStatus
<1> DEFINE r == receiver
           q == receiver'
<1>1. /\ phase' = phase /\ copies[s] > 0
      /\ q = MarkReceived(r, s)
      /\ processed' = IF IsDuplicate(r, s) THEN processed
                      ELSE [processed EXCEPT ![s] = @ + 1]
  BY DEF Arrive, senderVars
<1>2. /\ Arrived \subseteq Seqs /\ Seqs \subseteq Nat
      /\ r.contiguous \in Nat /\ q.contiguous \in Nat
      /\ q.contiguous >= r.contiguous
  BY MaxSeqAssumption, ReceiverGrows DEF Arrived, Seqs, Next
<1>3. CASE IsDuplicate(r, s)
  <2>1. UNCHANGED receiverVars
    BY <1>1, <1>3 DEF MarkReceived, Record, receiverVars
  <2> QED BY <1>1, <2>1, Stutter DEF Unsent
<1>4. CASE ~ IsDuplicate(r, s)
  <2> DEFINE late == {t \in Seqs : t \notin Arrived' /\ t > r.contiguous
                                   /\ t <= q.contiguous}
  <2>1. Arrived' = Arrived \cup {s}
    BY <1>1, <1>4 DEF IInv, TypeOK, Arrived
  <2>2. s \notin Arrived /\ s > r.contiguous
    BY <1>2, <1>4 DEF IsDuplicate, IInv, Remembered
  <2>3. StatusOf(s) = "sent"
    BY <1>1, <1>2, <2>2 DEF StatusOf, SentFirst, Unsent
  <2>4. \A t \in Seqs : StatusOf(t)' = IF t = s THEN "delivered"
                                       ELSE IF t \in late THEN "writtenOff"
                                       ELSE StatusOf(t)
    BY <1>1, <1>2, <2>1 DEF StatusOf
  <2>5. late \subseteq {t \in Seqs \ {s} : StatusOf(t) \in {"unsent", "sent"}}
    <3> SUFFICES ASSUME NEW t \in late
                 PROVE  t # s /\ StatusOf(t) \in {"unsent", "sent"}
      OBVIOUS
    <3>1. t \in Nat /\ t > r.contiguous /\ t \notin Arrived /\ t # s
      BY <1>2, <2>1
    <3>2. ~ (t <= receiver.contiguous)
      BY <1>2, <3>1
    <3> QED BY <3>1, <3>2 DEF StatusOf
  <2>6. ASSUME NEW t \in late
        PROVE  Cardinality({u \in Seqs : u > t /\ StatusOf(u)' = "delivered"})
                 > MaxOutOfOrder
    <3>1. Cardinality({u \in Arrived' : u > t}) > MaxOutOfOrder
      BY DEF IInv, WrittenOffOnlyAfterOverflow
    <3>2. {u \in Seqs : u > t /\ StatusOf(u)' = "delivered"} = {u \in Arrived' : u > t}
      BY DEF StatusOf, Arrived
    <3> QED BY <3>1, <3>2
  <2> HIDE DEF late, r, q
  <2>7. D!HandOver(s, late)
    <3>1. deliveryStatus[s] = "sent"
      BY <2>3 DEF deliveryStatus
    <3>2. late \subseteq {t \in Seqs \ {s} : deliveryStatus[t] \in {"unsent", "sent"}}
      BY <2>5 DEF deliveryStatus
    <3>3. deliveryStatus' = [t \in Seqs |-> IF t = s THEN "delivered"
                                            ELSE IF t \in late THEN "writtenOff"
                                            ELSE deliveryStatus[t]]
      BY <2>4 DEF deliveryStatus
    <3>4. \A t \in late :
             Cardinality({u \in Seqs : u > t /\ deliveryStatus'[u] = "delivered"})
               > MaxOutOfOrder
      <4>1. \A u \in Seqs : deliveryStatus'[u] = StatusOf(u)'
        BY DEF deliveryStatus
      <4>2. \A t \in late :
               {u \in Seqs : u > t /\ deliveryStatus'[u] = "delivered"}
                 = {u \in Seqs : u > t /\ StatusOf(u)' = "delivered"}
        BY <4>1
      <4> QED BY <2>6, <4>2
    <3> QED BY <3>1, <3>2, <3>3, <3>4, SameCardinality DEF D!HandOver
  <2>8. late \in SUBSET Seqs
    BY DEF late
  <2> QED BY <2>7, <2>8
<1> QED BY <1>3, <1>4

\* Every step of the layer is a step of Delivery or none.
LEMMA NextRefines ==
    IInv /\ IInv' /\ SentFirst /\ [Next]_vars => [D!Next]_deliveryStatus
<1> SUFFICES ASSUME IInv, IInv', SentFirst, [Next]_vars
             PROVE  D!Next \/ UNCHANGED deliveryStatus
  OBVIOUS
<1>1. CASE Alloc
  <2>1. phase \in [Seqs -> Phase] /\ nextSeq \in 0..MaxSeq
    BY DEF IInv, TypeOK
  <2>2. nextSeq + 1 \in Seqs /\ phase[nextSeq + 1] = "none"
    BY <1>1, <2>1, MaxSeqAssumption DEF Alloc, Seqs, SentFirst
  <2>3. \A s \in Seqs : Unsent(s)' = Unsent(s)
    BY <1>1, <2>1, <2>2 DEF Alloc, Unsent
  <2> QED BY <1>1, <2>3, Stutter DEF Alloc
<1>2. ASSUME NEW s \in Seqs, SendStep(s) PROVE D!Next \/ UNCHANGED deliveryStatus
  BY <1>2, SendStepRefines DEF D!Next
<1>3. ASSUME NEW s \in Seqs, Arrive(s) PROVE D!Next \/ UNCHANGED deliveryStatus
  BY <1>3, ArriveRefines DEF D!Next
<1>4. CASE UNCHANGED <<phase, receiverVars>>
  BY <1>4, Stutter DEF Unsent
<1>5. \/ Alloc \/ \E s \in Seqs : SendStep(s) \/ Arrive(s)
      \/ UNCHANGED <<phase, receiverVars>>
  BY DEF Next, Resend, Lose, Tick, VisitDue, SendAck, LoseAck, HandleAck,
         Settle, vars, senderVars
<1> QED BY <1>1, <1>2, <1>3, <1>4, <1>5

\* What the layer does with acks, copies, retransmission, refitted payloads
\* and a bounded receiver is what Delivery allows without any of them: each
\* message is handed over at most once, and only one that more than
\* maxOutOfOrder later arrivals overtook is given up.
THEOREM LayerImplementsDelivery == Spec => ImplementsDelivery
<1>1. Init => D!Init
  <2> SUFFICES ASSUME Init PROVE D!Init
    OBVIOUS
  <2>1. \A s \in Seqs : StatusOf(s) = "unsent"
    BY MaxSeqAssumption DEF Init, NewReceiver, StatusOf, Arrived, Seqs
  <2> QED BY <2>1 DEF D!Init, deliveryStatus
<1>2. Init => SentFirst
  BY DEF Init, SentFirst, Unsent, Arrived
<1>3. Spec => []SentFirst
  BY <1>2, NextSentFirst, Invariance, PTL DEF Spec
<1> QED
  BY <1>1, <1>3, NextRefines, Invariance, PTL DEF Spec, ImplementsDelivery, D!Spec
=============================================================================
