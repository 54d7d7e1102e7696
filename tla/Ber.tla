-------------------------------- MODULE Ber --------------------------------
(***************************************************************************)
(* The BER subset of goimpl/internal/wire/ber.go: tag, length and content    *)
(* octets, and INTEGER contents in two's complement.  Octets are numbers     *)
(* 0..255.  The widths of the code's int64 (an int is one as well) and of    *)
(* its 32-bit kinds are constants, since TLC's own integers have 32 bits.    *)
(*                                                                           *)
(* A decoder returns the set of its results: one, or none for an error.      *)
(***************************************************************************)
EXTENDS Integers, Sequences, SequencesExt, FiniteSetsExt

CONSTANTS
    LongOctets,     \* octets of an int64, an int and a uint64 (8)
    WordOctets      \* octets of an int32 and a uint32 (4)

ASSUME WidthAssumption ==
    /\ LongOctets \in Nat \ {0} /\ WordOctets \in Nat \ {0}
    /\ WordOctets < LongOctets

Radix == 256
HighBit == 128      \* 0x80

\* How many numbers k octets have.
Power[k \in Nat] == IF k = 0 THEN 1 ELSE Radix * Power[k - 1]

Signed(width)   == -(Power[width] \div 2)..(Power[width] \div 2 - 1)
Unsigned(width) == 0..(Power[width] - 1)

\* The largest int64, and what a number beyond the int64s wraps to.
MaxLong == Power[LongOctets] \div 2 - 1
Wrapped(n) == ((n + MaxLong + 1) % Power[LongOctets]) - (MaxLong + 1)

\* Tag classes and universal tags.
Universal == 0
Context   == 2
TagUTF8String == 12
TagSequence   == 16
Constructed   == 32

-----------------------------------------------------------------------------
(* Octet strings and numbers.                                               *)

\* big.Int.Bytes and the loop of writeLength: no leading zero.
Bytes[n \in Nat] == IF n = 0 THEN <<>> ELSE Append(Bytes[n \div Radix], n % Radix)

\* The number of a string of octets, as readTLV and big.Int.SetBytes add it up.
SetBytes(octets) ==
    LET number[k \in 0..Len(octets)] ==
            IF k = 0 THEN 0 ELSE Radix * number[k - 1] + octets[k]
    IN  number[Len(octets)]

BitLen[n \in Nat] == IF n = 0 THEN 0 ELSE 1 + BitLen[n \div 2]

\* The two's complement of a negative number, in as many octets as its
\* magnitude's bits and a sign bit need.
Negative(v) ==
    LET k == BitLen[-v] \div 8 + 1
        octets == Bytes[Power[k] + v]
    IN  [i \in 1..(k - Len(octets)) |-> 0] \o octets

\* Mutant: the octet that keeps a large number positive is forgotten.
UnpaddedTwosComplement(v) ==
    IF v = 0 THEN <<0>> ELSE IF v > 0 THEN Bytes[v] ELSE Negative(v)
\* minimalTwosComplement.  A negative power of two at an octet's edge, -128
\* say, takes one octet more than it needs.
TwosComplement(v) ==
    IF v = 0 THEN <<0>>
    ELSE IF v > 0
         THEN IF Bytes[v][1] >= HighBit THEN <<0>> \o Bytes[v] ELSE Bytes[v]
    ELSE Negative(v)

DecodeBigInt(content) ==
    IF content = <<>> THEN {}
    ELSE IF content[1] >= HighBit
         THEN {SetBytes(content) - Power[Len(content)]}
    ELSE {SetBytes(content)}

DecodeInt64(content)  == DecodeBigInt(content) \cap Signed(LongOctets)
DecodeUint64(content) == DecodeBigInt(content) \cap Unsigned(LongOctets)

EncodeBool(b) == IF b THEN <<255>> ELSE <<0>>
DecodeBool(content) == IF Len(content) = 1 THEN {content[1] # 0} ELSE {}

-----------------------------------------------------------------------------
(* Tag, length, content.                                                    *)

\* Mutant: 128 is still written in the short form.
LengthOctetsOffByOne(n) ==
    IF n <= HighBit THEN <<n>> ELSE <<HighBit + Len(Bytes[n])>> \o Bytes[n]
\* writeLength: the short form below 128, else the number of length octets.
LengthOctets(n) ==
    IF n < HighBit THEN <<n>> ELSE <<HighBit + Len(Bytes[n])>> \o Bytes[n]

\* writeTagLen, followed by the content; no tag here is above 30.
TLV(class, form, tag, content) ==
    <<64 * class + form + tag>> \o LengthOctets(Len(content)) \o content

Primitive(tag, content) == TLV(Context, 0, tag, content)
Explicit(tag, content)  == TLV(Context, Constructed, tag, content)
Integer(tag, v)         == Primitive(tag, TwosComplement(v))
SequenceOf(content)     == TLV(Universal, Constructed, TagSequence, content)

\* readTLV: the first element of data and the octets after it.  Whether it is
\* marked as constructed is never looked at.  The length is summed up in an
\* int, which wraps; a negative one passes the comparison with what is left and
\* panics where the content is sliced: no element comes of it either.
ReadTLV(data) ==
    LET short  == data[2] < HighBit
        header == IF short THEN 2 ELSE 2 + data[2] - HighBit
        length == IF short THEN data[2] ELSE Wrapped(SetBytes(SubSeq(data, 3, header)))
    IN  IF \/ Len(data) < 2
           \/ data[1] % 32 = 31
           \/ ~ short /\ header = 2
           \/ Len(data) < header
           \/ Len(data) - header < length
           \/ length < 0
        THEN {}
        ELSE {[class   |-> data[1] \div 64,
               tag     |-> data[1] % 32,
               content |-> SubSeq(data, header + 1, header + length),
               rest    |-> SubSeq(data, header + length + 1, Len(data))]}

\* The elements read one after the other until the data is used up.
ReadAll(data) ==
    LET last(n) == SubSeq(data, Len(data) - n + 1, Len(data))
        elements[n \in 0..Len(data)] ==
            IF n = 0 THEN {<<>>}
            ELSE UNION {{<<t>> \o ts : ts \in elements[Len(t.rest)]} :
                         t \in ReadTLV(last(n))}
    IN  elements[Len(data)]

\* The one element that data consists of.
ReadOnly(data) == {t \in ReadTLV(data) : t.rest = <<>>}
=============================================================================
