---------------------------- MODULE CacheAndCodec ----------------------------
(***************************************************************************)
(* The parts of a session in which nothing runs concurrently, checked side   *)
(* by side: the response cache as the state machine it is, and, while the    *)
(* cache is untouched, one message of a catalogue through the codec and, if  *)
(* it is a Query, through what the server then does with it.                 *)
(***************************************************************************)
EXTENDS RespCache, Messages, Aggregation

VARIABLE message    \* a set of at most one message of the catalogue

-----------------------------------------------------------------------------
(* The catalogue: every alternative of every choice, every combination of    *)
(* optional fields, numbers and lengths at the edges of their encodings.     *)

Edges == {-129, -128, -127, -1, 0, 1, 127, 128, 255, 256}
EdgesOf(range) == range \cap
    (Edges \cup UNION {{-h - 1, -h, h - 1, h, 2 * h - 1, 2 * h} :
                        h \in {Power[LongOctets] \div 2, Power[WordOctets] \div 2}})

Int64s == EdgesOf(Signed(LongOctets))

\* Lengths on both sides of the long form's edges.
Text(n)  == [i \in 1..n |-> 97 + (i % 26)]
Strings  == {Text(n) : n \in {0, 1, 127, 128, 130, 256}}

Pointers == {[kind |-> "absolute", absolute |-> x] : x \in Strings}
            \cup {[kind |-> "offset", offset |-> n] : n \in Int64s}
            \cup {[kind |-> "none"]}

Values == {[kind |-> "octetString", octets |-> x] : x \in Strings}
          \cup {[kind |-> "real", real |-> [i \in 1..RealOctets |-> b]] : b \in {0, 255}}
          \cup {[kind |-> "noValue"]}
          \cup UNION {{[kind |-> k, number |-> n] : n \in EdgesOf(NumberRange(k))} :
                        k \in ToSet(NumberKind)}

SomePointer == [kind |-> "offset", offset |-> 1]
SomeValue   == [kind |-> "counter64", number |-> Power[LongOctets] - 1]
Maybe(v)    == {{}, {v}}

Leaf(k, v, f, s) == [key |-> k, value |-> v, firstChild |-> f, nextSibling |-> s]
Nodes ==
    {Leaf(x, SomeValue, SomePointer, SomePointer) : x \in Strings}
    \cup {Leaf(Text(1), v, SomePointer, SomePointer) : v \in Values}
    \cup {Leaf(Text(1), SomeValue, p, q) :
            p \in Pointers, q \in {SomePointer, [kind |-> "none"]}}
    \cup {Leaf(Text(1), SomeValue, SomePointer, p) : p \in Pointers}

Gets == {[kind |-> "Get", seq |-> n, target |-> SomePointer] : n \in Int64s}
        \cup {[kind |-> "Get", seq |-> 1, target |-> p] : p \in Pointers}

Edits == {[target |-> x, newValue |-> v, newFirstChild |-> f,
           newNextSibling |-> n, newParent |-> p] :
            x \in {Text(0), Text(1)}, v \in Maybe(SomeValue), f \in Maybe([kind |-> "none"]),
            n \in Maybe(SomePointer), p \in Maybe(Text(130))}
Sets == {[kind |-> "Set", seq |-> 2, edits |-> es] :
            es \in {<<>>} \cup {<<e>> : e \in Edits} \cup {<<e, f>> : e, f \in Edits}}

Deletes == {[kind |-> "Delete", seq |-> 3, targets |-> xs] :
            xs \in UNION {[1..n -> Strings] : n \in 0..2}}

Creates == {[kind |-> "Create", seq |-> n, key |-> x, value |-> v, parent |-> p] :
            n \in {1, 128}, x \in Strings,
            v \in {{}} \cup {{w} : w \in Values}, p \in Maybe(Text(1))}

\* Seconds, also the last that fit a Duration and some that do not.
Periods == {-1, 0, 1, 128} \cup (Signed(LongOctets) \cap
              {LongestPeriod, LongestPeriod + 1, Power[LongOctets] \div Second + 1})
Modes == {[kind |-> "once"], [kind |-> "onChange"]}
         \cup {[kind |-> "interval", interval |-> n] : n \in Periods}
Methods == {[kind |-> k] : k \in ToSet(PlainMethod)}
           \cup {[kind |-> "percentile", percentile |-> p] :
                    p \in {-1, 0, 1, 50, 95, 99, 100, 101, 128}}
SomeQueries == {[kind |-> "Query", seq |-> 5, expression |-> Text(1), mode |-> m,
             aggregationInterval |-> i, aggregationMethod |-> a, transferInterval |-> t] :
            m \in Modes, i \in {{}} \cup {{n} : n \in Periods},
            a \in {{}} \cup {{k} : k \in Methods}, t \in Periods}

SomeErrorNodes == {{}} \cup {{q} : q \in Pointers}
FewNodes == {<<>>} \cup {<<Leaf(Text(1), SomeValue, SomePointer, SomePointer)>>}
ManyNodes == {<<n>> : n \in Nodes} \cup {<<n, n, n>> : n \in Nodes}

Responses ==
    {[kind |-> "Response", seq |-> n, inReplyTo |-> 1, error |-> e, errorNode |-> p, nodes |-> ns] :
        n \in {1, 256}, e \in BOOLEAN, p \in SomeErrorNodes, ns \in FewNodes}
    \cup {[kind |-> "Response", seq |-> 1, inReplyTo |-> 128, error |-> FALSE,
           errorNode |-> {}, nodes |-> ns] : ns \in ManyNodes}

SummaryAcks ==
    {[kind |-> "SummaryAck", received |-> rs] :
        rs \in UNION {[1..n -> {[first |-> 1, last |-> m] : m \in {1, 127, 128, 256}}] : n \in 0..2}}

Catalogue == Gets \cup Sets \cup Deletes \cup Creates \cup SomeQueries
             \cup Responses \cup SummaryAcks

\* Samples as a Runner collects them for one key.
Number(n) == [kind |-> "integer32", number |-> n]
SampleSequences ==
    UNION {[1..n -> {Number(-3), Number(0), Number(1), Number(4)}] : n \in 0..3}
    \cup {<<Number(0), Number(1), Number(1), Number(2), Number(9)>>,
          <<Number(1), [kind |-> "noValue"]>>}

-----------------------------------------------------------------------------
InitAll == Init /\ message \in {{}} \cup {{m} : m \in Catalogue}

\* The cache runs when no message was chosen.
NextAll == message = {} /\ Next /\ UNCHANGED message

SpecAll == InitAll /\ [][NextAll]_<<vars, message>>

-----------------------------------------------------------------------------
Percentiles(m) == IF m.kind # "Query" THEN {}
                  ELSE {a.percentile : a \in {b \in m.aggregationMethod : b.kind = "percentile"}}

\* What the other side reads from a datagram is the message that was sent,
\* whichever optional fields it has and whatever its numbers and lengths, and
\* a message cut short is not taken for another one (ber.go, codec.go).  The
\* only message that is sent and refused is a Query with a percentile that is
\* none.  No slice is longer than an int can count.
MessagesRoundTrip ==
    \A m \in message :
        LET data == MarshalMessage(m)
        IN  Len(data) <= MaxLong =>
                /\ UnmarshalMessage(data) = IF Percentiles(m) \subseteq 0..100 THEN {m} ELSE {}
                /\ \A n \in 0..(Len(data) - 1) : UnmarshalMessage(SubSeq(data, 1, n)) = {}

\* A percentile exists, grows with p and is mirrored when the samples are.
SoundPercentile(v, p) ==
    /\ Ranks(v, p) \subseteq DOMAIN v
    /\ p < 100 => LessEq(Percentile(v, p), Percentile(v, p + 1))
    /\ LET mirrored == Percentile([i \in DOMAIN v |-> -v[i]], 100 - p)
       IN  mirrored.num * Percentile(v, p).den = -Percentile(v, p).num * mirrored.den

\* An aggregate lies between the smallest and the largest sample, a deviation
\* is at most half their distance, and what cannot be aggregated is refused.
Sound(method, samples) ==
    LET v == [i \in DOMAIN samples |-> samples[i].number]
        range == Max(ToSet(v)) - Min(ToSet(v))
    IN  IF samples = <<>> \/ \E i \in DOMAIN samples : ~ IsNumeric(samples[i])
        THEN Aggregate(method, samples) = {}
        ELSE /\ method.kind = "percentile" => SoundPercentile(v, method.percentile)
             /\ \A a \in Aggregate(method, samples) :
                    IF method.kind = "stdDev"
                    THEN a.num >= 0 /\ 4 * a.num <= range^2 * a.den
                    ELSE LessEq(MinOf(v), a) /\ LessEq(a, MaxOf(v))

\* A Query that arrives and is accepted can be run: no ticker of its Runner
\* has a period that NewTicker panics for, or another one than was asked for,
\* and its method has a sound aggregate for all samples.  ValidateQuery leaves
\* the percentile to the codec, and the codec leaves the periods to
\* ValidateQuery.  Neither has an upper bound: a period above LongestPeriod is
\* accepted and wraps, to one that panics or to a wrong one, and is left out.
AcceptedQueriesRun ==
    \A m \in message : m.kind = "Query" =>
        \A q \in UnmarshalMessage(MarshalMessage(m)) :
            ValidateQuery(q) =>
                /\ \A n \in Tickers(q) : n <= LongestPeriod =>
                        Duration(n) > 0 /\ Duration(n) = n * Second
                /\ \A method \in q.aggregationMethod :
                    \A samples \in SampleSequences : Sound(method, samples)
=============================================================================
