------------------------------ MODULE Delivery ------------------------------
(***************************************************************************)
(* What the reliability layer promises to the handlers above it, without   *)
(* acks, copies or retransmission: messages are handed over unordered, each *)
(* at most once, and one that was never handed over is written off only     *)
(* when more than Window later ones have been.                              *)
(***************************************************************************)
EXTENDS Integers, FiniteSets

CONSTANTS Seqs,     \* the sequence numbers, naturals from 1
          Window    \* how many later arrivals a message may lag behind

VARIABLE status     \* [Seqs -> Status]

Status == {"unsent", "sent", "delivered", "writtenOff"}

Init == status = [s \in Seqs |-> "unsent"]

Send(s) ==
    /\ status[s] = "unsent"
    /\ status' = [status EXCEPT ![s] = "sent"]

\* Message s is handed over; the older ones in late are given up for good.
HandOver(s, late) ==
    /\ status[s] = "sent"
    /\ late \subseteq {t \in Seqs \ {s} : status[t] \in {"unsent", "sent"}}
    /\ status' = [t \in Seqs |-> IF t = s THEN "delivered"
                                 ELSE IF t \in late THEN "writtenOff"
                                 ELSE status[t]]
    /\ \A t \in late :
          Cardinality({u \in Seqs : u > t /\ status'[u] = "delivered"}) > Window

Next == \E s \in Seqs :
            \/ Send(s)
            \/ \E late \in SUBSET Seqs : HandOver(s, late)

Spec == Init /\ [][Next]_status
=============================================================================
