------------------------------ MODULE TTLCache ------------------------------
(***************************************************************************)
(* What a session's response cache promises: after an insertion it holds    *)
(* exactly the insertions of the last TTL, the newest one of each key.      *)
(* This is the full scan that cacheResponseAt replaced by a queue.          *)
(***************************************************************************)
EXTENDS Integers

CONSTANTS Keys, TTL, Horizon    \* Horizon bounds the clock

VARIABLES clock,    \* the time of the next insertion
          entry     \* [Keys -> 0..Horizon \cup {None}]: insertion time held

None == -1

Init == clock = 0 /\ entry = [k \in Keys |-> None]

Advance == clock < Horizon /\ clock' = clock + 1 /\ UNCHANGED entry

Insert(k) ==
    /\ entry' = [j \in Keys |->
                    IF j = k THEN clock
                    ELSE IF entry[j] # None /\ clock - entry[j] > TTL THEN None
                    ELSE entry[j]]
    /\ UNCHANGED clock

Next == Advance \/ \E k \in Keys : Insert(k)

Spec == Init /\ [][Next]_<<clock, entry>>
=============================================================================
