------------------------------ MODULE Messages ------------------------------
(***************************************************************************)
(* Nodes and the seven messages as SEQUENCEs, and the envelope that carries  *)
(* one of them in a datagram (goimpl/internal/wire/codec.go).  Every number  *)
(* of a message is an int64.                                                 *)
(***************************************************************************)
EXTENDS Codec

\* The decoded fields of data, read by Fields from all its elements.
Decoded(data, Fields(_)) == UNION {Fields(ts) : ts \in ReadAll(data)}

\* An element of a SEQUENCE OF, which must have this class and tag.
IsElement(t, tag) == t.class = Universal /\ t.tag = tag

-----------------------------------------------------------------------------
(* Nodes: four positional fields whose tags are not looked at.              *)

EncodeNode(n) ==
    SequenceOf(Primitive(0, n.key) \o Explicit(1, EncodeNodeValue(n.value))
               \o Explicit(2, EncodeNodePointer(n.firstChild))
               \o Explicit(3, EncodeNodePointer(n.nextSibling)))

NodeFields(ts) ==
    IF Len(ts) # 4 THEN {}
    ELSE {[key |-> ts[1].content, value |-> v, firstChild |-> f, nextSibling |-> s] :
            v \in DecodeNodeValue(ts[2].content),
            f \in DecodeNodePointer(ts[3].content),
            s \in DecodeNodePointer(ts[4].content)}

DecodeNode(t) ==
    IF IsElement(t, TagSequence) THEN Decoded(t.content, NodeFields) ELSE {}

-----------------------------------------------------------------------------
(* Get, Set, Delete, Create.                                                *)

EncodeGet(g) == Integer(0, g.seq) \o Explicit(1, EncodeNodePointer(g.target))

GetFields(ts) ==
    IF Len(ts) # 2 THEN {}
    ELSE {[kind |-> "Get", seq |-> s, target |-> p] :
            s \in DecodeInt64(ts[1].content), p \in DecodeNodePointer(ts[2].content)}

EncodeSetEdit(e) ==
    SequenceOf(Primitive(0, e.target)
        \o Option(e.newValue, LAMBDA v : Explicit(1, EncodeNodeValue(v)))
        \o Option(e.newFirstChild, LAMBDA p : Explicit(2, EncodeNodePointer(p)))
        \o Option(e.newNextSibling, LAMBDA p : Explicit(3, EncodeNodePointer(p)))
        \o Option(e.newParent, LAMBDA x : Primitive(4, x)))

SetEditField(t) ==
    CASE t.tag = 1        -> DecodeNodeValue(t.content)
      [] t.tag \in {2, 3} -> DecodeNodePointer(t.content)
      [] t.tag = 4        -> {t.content}
      [] OTHER            -> {}

SetEditFields(ts) ==
    IF ts = <<>> \/ ts[1].tag # 0 \/ ~ Decodable(ts, 2, SetEditField) THEN {}
    ELSE {[target |-> ts[1].content,
           newValue       |-> Optional(ts, 2, 1, SetEditField),
           newFirstChild  |-> Optional(ts, 2, 2, SetEditField),
           newNextSibling |-> Optional(ts, 2, 3, SetEditField),
           newParent      |-> Optional(ts, 2, 4, SetEditField)]}

DecodeSetEdit(t) ==
    IF IsElement(t, TagSequence) THEN Decoded(t.content, SetEditFields) ELSE {}

EncodeSet(s) == Integer(0, s.seq) \o Explicit(1, All(s.edits, EncodeSetEdit))

SetFields(ts) ==
    IF Len(ts) # 2 \/ ts[2].tag # 1 THEN {}
    ELSE {[kind |-> "Set", seq |-> s, edits |-> es] :
            s \in DecodeInt64(ts[1].content),
            es \in Decoded(ts[2].content, LAMBDA us : Each(us, DecodeSetEdit))}

EncodeDelete(d) ==
    Integer(0, d.seq)
      \o Explicit(1, All(d.targets, LAMBDA x : TLV(Universal, 0, TagUTF8String, x)))

DecodeTarget(t) == IF IsElement(t, TagUTF8String) THEN {t.content} ELSE {}

DeleteFields(ts) ==
    IF Len(ts) # 2 \/ ts[2].tag # 1 THEN {}
    ELSE {[kind |-> "Delete", seq |-> s, targets |-> xs] :
            s \in DecodeInt64(ts[1].content),
            xs \in Decoded(ts[2].content, LAMBDA us : Each(us, DecodeTarget))}

EncodeCreate(c) ==
    Integer(0, c.seq) \o Primitive(1, c.key)
      \o Option(c.value, LAMBDA v : Explicit(2, EncodeNodeValue(v)))
      \o Option(c.parent, LAMBDA x : Primitive(3, x))

CreateField(t) ==
    CASE t.tag = 2 -> DecodeNodeValue(t.content)
      [] t.tag = 3 -> {t.content}
      [] OTHER     -> {}

CreateFields(ts) ==
    IF Len(ts) < 2 \/ ~ Decodable(ts, 3, CreateField) THEN {}
    ELSE {[kind |-> "Create", seq |-> s, key |-> ts[2].content,
           value  |-> Optional(ts, 3, 2, CreateField),
           parent |-> Optional(ts, 3, 3, CreateField)] :
            s \in DecodeInt64(ts[1].content)}

-----------------------------------------------------------------------------
(* Query, Response, SummaryAck.                                             *)

EncodeQuery(q) ==
    Integer(0, q.seq) \o Primitive(1, q.expression)
      \o Explicit(2, EncodeCollectionMode(q.mode))
      \o Option(q.aggregationInterval, LAMBDA n : Integer(3, n))
      \o Option(q.aggregationMethod, LAMBDA m : Explicit(4, EncodeAggregationMethod(m)))
      \o Integer(5, q.transferInterval)

QueryField(t) ==
    CASE t.tag \in {3, 5} -> DecodeInt64(t.content)
      [] t.tag = 4        -> DecodeAggregationMethod(t.content)
      [] OTHER            -> {}

\* A transferInterval that is not there is 0.
QueryFields(ts) ==
    IF Len(ts) < 3 \/ ~ Decodable(ts, 4, QueryField) THEN {}
    ELSE {[kind |-> "Query", seq |-> s, expression |-> ts[2].content, mode |-> m,
           aggregationInterval |-> Optional(ts, 4, 3, QueryField),
           aggregationMethod   |-> Optional(ts, 4, 4, QueryField),
           transferInterval    |-> IF Optional(ts, 4, 5, QueryField) = {} THEN 0
               ELSE CHOOSE n \in Optional(ts, 4, 5, QueryField) : TRUE] :
            s \in DecodeInt64(ts[1].content),
            m \in DecodeCollectionMode(ts[3].content)}

EncodeResponse(r) ==
    Integer(0, r.seq) \o Integer(1, r.inReplyTo) \o Primitive(2, EncodeBool(r.error))
      \o Option(r.errorNode, LAMBDA p : Explicit(3, EncodeNodePointer(p)))
      \o Explicit(4, All(r.nodes, EncodeNode))

\* Where the nodes are: errorNode is recognised by its tag, before them.
NodesAt(ts) == IF ts[4].tag = 3 THEN 5 ELSE 4

ResponseFields(ts) ==
    IF Len(ts) < 4 \/ Len(ts) # NodesAt(ts) \/ ts[NodesAt(ts)].tag # 4 THEN {}
    ELSE {[kind |-> "Response", seq |-> s, inReplyTo |-> to, error |-> e,
           errorNode |-> p, nodes |-> ns] :
            s \in DecodeInt64(ts[1].content), to \in DecodeInt64(ts[2].content),
            e \in DecodeBool(ts[3].content),
            p \in IF NodesAt(ts) = 4 THEN {{}}
                  ELSE {{q} : q \in DecodeNodePointer(ts[4].content)},
            ns \in Decoded(ts[NodesAt(ts)].content, LAMBDA us : Each(us, DecodeNode))}

EncodeSequenceRange(r) == SequenceOf(Integer(0, r.first) \o Integer(1, r.last))

SequenceRangeFields(ts) ==
    IF Len(ts) # 2 THEN {}
    ELSE {[first |-> a, last |-> b] :
            a \in DecodeInt64(ts[1].content), b \in DecodeInt64(ts[2].content)}

\* A range's own class and tag are not looked at.
DecodeSequenceRange(t) == Decoded(t.content, SequenceRangeFields)

EncodeSummaryAck(a) == Explicit(0, All(a.received, EncodeSequenceRange))

SummaryAckFields(ts) ==
    IF Len(ts) # 1 \/ ts[1].tag # 0 THEN {}
    ELSE {[kind |-> "SummaryAck", received |-> rs] :
            rs \in Decoded(ts[1].content, LAMBDA us : Each(us, DecodeSequenceRange))}

-----------------------------------------------------------------------------
(* The envelope: the tag says which message it is.                          *)

MarshalMessage(m) ==
    CASE m.kind = "Get"        -> Explicit(0, EncodeGet(m))
      [] m.kind = "Set"        -> Explicit(1, EncodeSet(m))
      [] m.kind = "Create"     -> Explicit(2, EncodeCreate(m))
      [] m.kind = "Query"      -> Explicit(3, EncodeQuery(m))
      [] m.kind = "Response"   -> Explicit(4, EncodeResponse(m))
      [] m.kind = "SummaryAck" -> Explicit(5, EncodeSummaryAck(m))
      [] m.kind = "Delete"     -> Explicit(6, EncodeDelete(m))

DecodeMessage(tag, content) ==
    CASE tag = 0 -> Decoded(content, GetFields)
      [] tag = 1 -> Decoded(content, SetFields)
      [] tag = 2 -> Decoded(content, CreateFields)
      [] tag = 3 -> Decoded(content, QueryFields)
      [] tag = 4 -> Decoded(content, ResponseFields)
      [] tag = 5 -> Decoded(content, SummaryAckFields)
      [] tag = 6 -> Decoded(content, DeleteFields)
      [] OTHER   -> {}

UnmarshalMessage(data) == Alternative(data, DecodeMessage)
=============================================================================
