----------------------------- MODULE Expressions -----------------------------
(***************************************************************************)
(* The text of match expressions (goimpl/internal/tree/tree.go): "/" ends a *)
(* segment, "=" its key, "@" an expression that a resume index follows, and *)
(* a backslash escapes.  A text is a sequence of tokens: the four special   *)
(* characters, other characters, which are the numbers below them, and a    *)
(* natural number for an index, which is one token.                         *)
(***************************************************************************)
EXTENDS Lists, SequencesExt, FiniteSetsExt

Slash     == -1
Equals    == -2
At        == -3
Backslash == -4

\* Backslashes escape from the left: one that an even number of backslashes
\* precedes escapes what follows it, and is not escaped itself.
Unescaped(s, i) ==
    (i - Max({0} \cup {j \in 1..(i-1) : s[j] # Backslash})) % 2 = 1

\* Mutant: every escape is resolved, not only the delimiter's own.
UnescapeAll(s, delim) ==
    Picked(s, {i \in DOMAIN s : ~ (s[i] = Backslash /\ Unescaped(s, i) /\ i < Len(s))})
\* An escaped delimiter or backslash stands for itself; other escapes stay.
Unescape(s, delim) ==
    Picked(s, {i \in DOMAIN s :
        ~ (/\ s[i] = Backslash /\ Unescaped(s, i) /\ i < Len(s)
           /\ s[i+1] \in {delim, Backslash})})

Delimiters(s, delim) == {i \in DOMAIN s : s[i] = delim /\ Unescaped(s, i)}

\* splitUnescaped
SplitUnescaped(s, delim) ==
    LET cuts == <<0>> \o Picked([i \in DOMAIN s |-> i], Delimiters(s, delim))
                      \o <<Len(s) + 1>>
    IN  [n \in 1..(Len(cuts) - 1) |->
            Unescape(SubSeq(s, cuts[n] + 1, cuts[n+1] - 1), delim)]

\* splitFirstUnescaped; what comes after the delimiter is left as it is.
SplitFirstUnescaped(s, delim) ==
    LET cut == Min({Len(s) + 1} \cup Delimiters(s, delim))
    IN  [before |-> Unescape(SubSeq(s, 1, cut - 1), delim),
         found  |-> cut <= Len(s),
         after  |-> SubSeq(s, cut + 1, Len(s))]

\* SplitResumeSuffix
SplitResumeSuffix(raw) ==
    LET split == SplitFirstUnescaped(raw, At)
    IN  IF split.found /\ Len(split.after) = 1 /\ split.after[1] >= 0
        THEN [base |-> split.before, index |-> split.after[1]]
        ELSE [base |-> raw, index |-> 0]

Continuation(base, i) == base \o <<At, i>>

\* What a regular expression without operators matches: itself, the escapes
\* resolved.
Literal(re) == Picked(re, {i \in DOMAIN re : ~ (re[i] = Backslash /\ Unescaped(re, i))})

\* ParseExpression: the keys and values that the segments ask for.
ParseExpression(s) ==
    LET Segment(part) ==
          LET split == SplitFirstUnescaped(part, Equals)
          IN  [key   |-> Literal(split.before),
               value |-> IF split.found THEN {Literal(split.after)} ELSE {}]
        parts == SelectSeq(SplitUnescaped(s, Slash), LAMBDA part : part # <<>>)
    IN  [n \in DOMAIN parts |-> Segment(parts[n])]
\* A text that a continuation can be made of: no "@", and no escape of one or
\* of a backslash, which SplitResumeSuffix would resolve.
Plain(s) ==
    \A i \in DOMAIN s :
        /\ s[i] # At
        /\ s[i] = Backslash => i < Len(s) /\ s[i+1] \notin {At, Backslash}
=============================================================================
