-------------------------------- MODULE Lists --------------------------------
(***************************************************************************)
(* What Go's loops over a slice do that keep some of its elements.          *)
(***************************************************************************)
EXTENDS Integers, Sequences

\* The elements of s at the positions in I, in order.
Picked(s, I) ==
    LET kept[i \in 0..Len(s)] ==
            IF i = 0 THEN <<>>
            ELSE IF i \in I THEN Append(kept[i-1], s[i])
            ELSE kept[i-1]
    IN  kept[Len(s)]

\* No element occurs twice.
Once(s) == \A i, j \in DOMAIN s : s[i] = s[j] => i = j
=============================================================================
