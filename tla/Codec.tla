------------------------------- MODULE Codec -------------------------------
(***************************************************************************)
(* The messages of node.asn on the wire (goimpl/internal/wire/codec.go and   *)
(* types.go).  A choice is a record with its kind, an OPTIONAL field the set *)
(* of its value or of nothing, a string the sequence of its octets, a real   *)
(* its IEEE 754 octets.                                                      *)
(***************************************************************************)
EXTENDS Ber

CONSTANT RealOctets     \* realByteLen (8)

ASSUME RealAssumption == RealOctets \in Nat \ {0}

\* The elements of a SEQUENCE OF, each decoded; an error in one is an error.
Each(ts, Decode(_)) ==
    LET decoded == UNION {Decode(ts[i]) : i \in DOMAIN ts}
    IN  {vs \in [DOMAIN ts -> decoded] : \A i \in DOMAIN ts : vs[i] \in Decode(ts[i])}

\* The encodings of the elements, one after the other.
All(values, Encode(_)) == FlattenSeq([i \in DOMAIN values |-> Encode(values[i])])

\* An OPTIONAL field: absent, or its one encoding.
Option(field, Encode(_)) ==
    IF field = {} THEN <<>> ELSE Encode(CHOOSE v \in field : TRUE)

\* Fields in any order after the positional ones: each must decode, and the
\* last with a tag counts.  Field decodes an element according to its tag.
Decodable(ts, from, Field(_)) == \A i \in from..Len(ts) : Field(ts[i]) # {}
Optional(ts, from, tag, Field(_)) ==
    LET at == {i \in from..Len(ts) : ts[i].tag = tag}
    IN  IF at = {} THEN {} ELSE Field(ts[Max(at)])

-----------------------------------------------------------------------------
(* The choices: each alternative is an element with its own context tag.    *)

Alternative(data, Decode(_, _)) ==
    UNION {Decode(t.tag, t.content) :
            t \in {u \in ReadOnly(data) : u.class = Context}}

EncodeNodePointer(p) ==
    CASE p.kind = "absolute" -> Primitive(0, p.absolute)
      [] p.kind = "offset"   -> Integer(1, p.offset)
      [] p.kind = "none"     -> Primitive(2, <<>>)

DecodeNodePointer(data) ==
    LET Decode(tag, c) ==
          CASE tag = 0 -> {[kind |-> "absolute", absolute |-> c]}
            [] tag = 1 -> {[kind |-> "offset", offset |-> v] : v \in DecodeInt64(c)}
            [] tag = 2 -> {[kind |-> "none"]}
            [] OTHER   -> {}
    IN  Alternative(data, Decode)

\* The numeric kinds by tag, with the numbers they hold.
NumberKind  == <<"integer32", "unsigned32", "counter32", "counter64", "timeTicks">>
NumberRange(kind) == IF kind = "integer32" THEN Signed(WordOctets)
                     ELSE IF kind = "counter64" THEN Unsigned(LongOctets)
                     ELSE Unsigned(WordOctets)

EncodeNodeValue(v) ==
    CASE v.kind = "octetString" -> Primitive(5, v.octets)
      [] v.kind = "real"        -> Primitive(6, v.real)
      [] v.kind = "noValue"     -> Primitive(7, <<>>)
      [] OTHER -> LET tag == CHOOSE t \in DOMAIN NumberKind : NumberKind[t] = v.kind
                  IN  Integer(tag - 1, v.number)

DecodeNumber(kind, c) ==
    {[kind |-> kind, number |-> n] :
        n \in (IF kind = "integer32" THEN DecodeInt64(c) ELSE DecodeUint64(c))
                \cap NumberRange(kind)}

DecodeNodeValue(data) ==
    LET Decode(tag, c) ==
          CASE tag \in 0..4 -> DecodeNumber(NumberKind[tag + 1], c)
            [] tag = 5 -> {[kind |-> "octetString", octets |-> c]}
            [] tag = 6 -> IF Len(c) = RealOctets
                          THEN {[kind |-> "real", real |-> c]} ELSE {}
            [] tag = 7 -> {[kind |-> "noValue"]}
            [] OTHER   -> {}
    IN  Alternative(data, Decode)

\* The methods without a parameter, by tag.
PlainMethod == <<"min", "max", "mean", "stdDev">>

EncodeAggregationMethod(m) ==
    IF m.kind = "percentile" THEN Integer(4, m.percentile)
    ELSE Primitive((CHOOSE t \in DOMAIN PlainMethod : PlainMethod[t] = m.kind) - 1, <<>>)

\* Mutant: the percentile is not checked here either.
DecodePercentileUnchecked(c) ==
    {[kind |-> "percentile", percentile |-> p] : p \in DecodeInt64(c)}
\* The only check that a percentile is one.
DecodePercentile(c) ==
    {[kind |-> "percentile", percentile |-> p] : p \in DecodeInt64(c) \cap 0..100}

DecodeAggregationMethod(data) ==
    LET Decode(tag, c) ==
          CASE tag \in 0..3 -> {[kind |-> PlainMethod[tag + 1]]}
            [] tag = 4      -> DecodePercentile(c)
            [] OTHER        -> {}
    IN  Alternative(data, Decode)

EncodeCollectionMode(m) ==
    CASE m.kind = "once"     -> Primitive(0, <<>>)
      [] m.kind = "interval" -> Integer(1, m.interval)
      [] m.kind = "onChange" -> Primitive(2, <<>>)

DecodeCollectionMode(data) ==
    LET Decode(tag, c) ==
          CASE tag = 0 -> {[kind |-> "once"]}
            [] tag = 1 -> {[kind |-> "interval", interval |-> v] : v \in DecodeInt64(c)}
            [] tag = 2 -> {[kind |-> "onChange"]}
            [] OTHER   -> {}
    IN  Alternative(data, Decode)
=============================================================================
