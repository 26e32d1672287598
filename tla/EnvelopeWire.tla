----------------------------- MODULE EnvelopeWire -----------------------------
(***************************************************************************)
(* The encoding of the message envelope (message/codec.go), in which a     *)
(* message travels between nodes and rests in the queue log.               *)
(*                                                                         *)
(* Every part of the envelope is a table of its append function, which     *)
(* says the field each number carries, and a table of its decode function. *)
(* The fields of all parts are fields of one message (see Wire).  In the   *)
(* metadata mode the payload and the publisher's key are kept outside the  *)
(* encoding, by the log record that holds it.                              *)
(***************************************************************************)
EXTENDS Wire

VarintType == 0
BytesType == 2

Zero == "zero"   \* an Optional that holds zero

(***************************************************************************)
(* Appending (the helpers at the end of codec.go).                         *)
(***************************************************************************)
\* binary.PutUvarint: base 128, least significant digit first.
RECURSIVE Uvarint(_)
Uvarint(n) == IF n < 128 THEN <<Digit(n)>>
              ELSE <<Digit((n % 128) + 128)>> \o Uvarint(n \div 128)

Tag(number, wireType) == <<Digit(8 * number + wireType)>>

\* appendVarint; a number the envelope only carries is one byte.
AppendVarint(enc, number, v) ==
    enc \o Tag(number, VarintType) \o (IF v = Zero THEN <<Digit(0)>> ELSE Raw(v, 1))

\* appendString and appendBytes: nothing for an empty value.
AppendText(enc, number, v) ==
    IF v = "" THEN enc
    ELSE enc \o Tag(number, BytesType) \o Uvarint(SizeOf(v)) \o Text(v)

\* The tag and one byte for the length; at is where the body starts.
BeginNested(enc, number) == enc \o Tag(number, BytesType) \o <<Digit(0)>>

(* Mutant: the body is not moved when the length outgrows its byte. *)
EndNestedOverwrites(enc, at) ==
    LET prefix == Uvarint(Len(enc) - at)
    IN  IF Len(enc) = at THEN SubSeq(enc, 1, at - 2)
        ELSE SubSeq(enc, 1, at - 1) \o prefix \o SubSeq(enc, at + Len(prefix), Len(enc))

\* endNested: an empty part is dropped with its tag, and the body moves up when
\* its length takes more than the one byte.
EndNested(enc, at) ==
    LET prefix == Uvarint(Len(enc) - at)
        extra  == Len(prefix) - 1
        grown  == enc \o SubSeq(prefix, 1, extra)
        moved  == SubSeq(grown, 1, at + extra) \o SubSeq(enc, at + 1, Len(enc))
    IN  IF Len(enc) = at THEN SubSeq(enc, 1, at - 2)
        ELSE SubSeq(moved, 1, at - 1) \o prefix \o SubSeq(moved, at + extra + 1, Len(moved))

(***************************************************************************)
(* The parts.  An entry is <<number, how, field>>: "text", "num" (left out *)
(* when zero), "opt" (an Optional number), "time", "bool", "enum", "map",  *)
(* "packed", or "part" with the name of a nested part.                     *)
(***************************************************************************)
AppendEnvelope == <<<<1, "num", "Version">>, <<2, "text", "Topic">>, <<3, "text", "Payload">>,
                    <<4, "part", "Publisher">>, <<5, "part", "Broker">>>>

DecodeEnvelope == AppendEnvelope

AppendPublisher ==
    <<<<1, "text", "Key">>, <<2, "map", "Headers">>, <<3, "map", "Properties">>,
      <<4, "text", "ContentType">>, <<5, "text", "ContentEncoding">>,
      <<6, "text", "ResponseTopic">>, <<7, "text", "CorrelationData">>,
      <<8, "opt", "PayloadFormat">>, <<9, "opt", "MessageExpiry">>,
      <<10, "text", "MessageID">>>>

DecodeUser ==
    <<<<1, "text", "Key">>, <<2, "map", "Headers">>, <<3, "map", "Properties">>,
      <<4, "text", "ContentType">>, <<5, "text", "ContentEncoding">>,
      <<6, "text", "ResponseTopic">>, <<7, "text", "CorrelationData">>,
      <<8, "opt", "PayloadFormat">>, <<9, "opt", "MessageExpiry">>,
      <<10, "text", "MessageID">>>>

AppendBroker == <<<<1, "part", "Source">>, <<2, "part", "Delivery">>, <<3, "part", "Queue">>,
                  <<4, "part", "Transfer">>, <<5, "part", "Trace">>>>

DecodeBroker == <<<<1, "part", "Source">>, <<2, "part", "Delivery">>, <<3, "part", "Queue">>,
                  <<4, "part", "Transfer">>, <<5, "part", "Trace">>>>

AppendSource == <<<<1, "text", "ClientID">>, <<2, "text", "ExternalID">>,
                  <<3, "enum", "Protocol">>, <<4, "text", "SourceTopic">>>>

DecodeSource == <<<<1, "text", "ClientID">>, <<2, "text", "ExternalID">>,
                  <<3, "enum", "Protocol">>, <<4, "text", "SourceTopic">>>>

AppendDelivery ==
    <<<<1, "time", "PublishedAt">>, <<2, "time", "ExpiresAt">>,
      <<3, "packed", "SubscriptionIDs">>, <<4, "num", "PacketID">>, <<5, "num", "QoS">>,
      <<6, "num", "InflightDirection">>, <<7, "num", "InflightState">>,
      <<8, "bool", "Retain">>, <<9, "bool", "Duplicate">>>>

DecodeDelivery ==
    <<<<1, "time", "PublishedAt">>, <<2, "time", "ExpiresAt">>,
      <<3, "packed", "SubscriptionIDs">>, <<4, "num", "PacketID">>, <<5, "num", "QoS">>,
      <<6, "num", "InflightDirection">>, <<7, "num", "InflightState">>,
      <<8, "bool", "Retain">>, <<9, "bool", "Duplicate">>>>

AppendQueue ==
    <<<<2, "text", "QueueName">>, <<3, "text", "GroupID">>, <<4, "num", "Offset">>,
      <<5, "enum", "State">>, <<6, "time", "CreatedAt">>, <<7, "time", "DeliveredAt">>,
      <<8, "time", "NextRetryAt">>, <<9, "num", "RetryCount">>,
      <<10, "time", "QueueExpiresAt">>, <<11, "part", "Stream">>>>

DecodeQueue ==
    <<<<2, "text", "QueueName">>, <<3, "text", "GroupID">>, <<4, "num", "Offset">>,
      <<5, "enum", "State">>, <<6, "time", "CreatedAt">>, <<7, "time", "DeliveredAt">>,
      <<8, "time", "NextRetryAt">>, <<9, "num", "RetryCount">>,
      <<10, "time", "QueueExpiresAt">>, <<11, "part", "Stream">>>>

AppendStream ==
    <<<<1, "num", "StreamOffset">>, <<2, "time", "Timestamp">>,
      <<3, "num", "CommittedOffset">>, <<4, "bool", "HasCommittedOffset">>,
      <<5, "bool", "WorkAcknowledged">>, <<6, "text", "WorkGroup">>>>

DecodeStream ==
    <<<<1, "num", "StreamOffset">>, <<2, "time", "Timestamp">>,
      <<3, "num", "CommittedOffset">>, <<4, "bool", "HasCommittedOffset">>,
      <<5, "bool", "WorkAcknowledged">>, <<6, "text", "WorkGroup">>>>

AppendTransfer ==
    <<<<1, "text", "ID">>, <<2, "text", "FailureReason">>, <<3, "time", "FirstAttempt">>,
      <<4, "time", "LastAttempt">>, <<5, "time", "CompletedAt">>,
      <<6, "text", "SourceQueue">>, <<7, "text", "SourceGroup">>,
      <<8, "num", "SourceOffset">>, <<9, "num", "DeliveryCount">>>>

DecodeTransfer ==
    <<<<1, "text", "ID">>, <<2, "text", "FailureReason">>, <<3, "time", "FirstAttempt">>,
      <<4, "time", "LastAttempt">>, <<5, "time", "CompletedAt">>,
      <<6, "text", "SourceQueue">>, <<7, "text", "SourceGroup">>,
      <<8, "num", "SourceOffset">>, <<9, "num", "DeliveryCount">>>>

AppendTrace == <<<<1, "text", "TraceParent">>, <<2, "text", "TraceState">>, <<3, "text", "TraceID">>>>

DecodeTrace == <<<<1, "text", "TraceParent">>, <<2, "text", "TraceState">>, <<3, "text", "TraceID">>>>

AppendParts ==
    [Publisher |-> AppendPublisher, Broker |-> AppendBroker, Source |-> AppendSource,
     Delivery |-> AppendDelivery, Queue |-> AppendQueue, Stream |-> AppendStream,
     Transfer |-> AppendTransfer, Trace |-> AppendTrace]

DecodeParts ==
    [Publisher |-> DecodeUser, Broker |-> DecodeBroker, Source |-> DecodeSource,
     Delivery |-> DecodeDelivery, Queue |-> DecodeQueue, Stream |-> DecodeStream,
     Transfer |-> DecodeTransfer, Trace |-> DecodeTrace]

\* protocolNumber and queueStateNumber, and their inverses.
ProtocolNumbers == <<"mqtt", "amqp", "amqp1", "http", "coap">>
StateNumbers == <<"queued", "delivered", "acked", "retry", "dlq">>

Enum(f) == IF f = "Protocol" THEN ProtocolNumbers ELSE StateNumbers

(***************************************************************************)
(* Marshalling.                                                            *)
(***************************************************************************)
\* The bytes an append function adds to the buffer for one entry.
RECURSIVE Entry(_, _)
Entry(m, e) ==
    LET vs == Get(m, e[3])
        begun == BeginNested(<<>>, e[1])
        pair(v) == EndNested(AppendText(AppendText(begun, 1, v), 2, v), Len(begun))
    IN  CASE e[2] = "part" ->
               EndNested(begun \o Concat([i \in DOMAIN AppendParts[e[3]] |->
                                             Entry(m, AppendParts[e[3]][i])]), Len(begun))
          [] vs = <<>> -> <<>>
          [] e[2] = "map" -> Concat([i \in DOMAIN vs |-> pair(vs[i])])
          [] e[2] = "packed" ->
               EndNested(begun \o [i \in DOMAIN vs |-> Raw(vs[i], 1)[1]], Len(begun))
          [] e[2] = "text" -> AppendText(<<>>, e[1], vs[1])
          [] e[2] = "bool" -> Tag(e[1], VarintType) \o <<Digit(1)>>
          [] e[2] = "enum" ->
               Tag(e[1], VarintType) \o
                   <<Digit(CHOOSE n \in DOMAIN Enum(e[3]) : Enum(e[3])[n] = vs[1])>>
          [] OTHER -> AppendVarint(<<>>, e[1], vs[1])

\* marshalBinary; the metadata mode leaves the payload and the key out.
Marshal(m, metadata) ==
    LET inside == [f \in DOMAIN m \ (IF metadata THEN {"Payload", "Key"} ELSE {}) |-> m[f]]
    IN  Concat([i \in DOMAIN AppendEnvelope |-> Entry(inside, AppendEnvelope[i])])

(***************************************************************************)
(* Unmarshalling.                                                          *)
(***************************************************************************)
\* protowire.ConsumeVarint of a length: its value, and the bytes after it.
RECURSIVE Length(_, _, _)
Length(bs, acc, shift) ==
    IF bs = <<>> \/ bs[1].s # "" THEN [ok |-> FALSE, n |-> 0, in |-> <<>>]
    ELSE IF bs[1].k < 128 THEN [ok |-> TRUE, n |-> acc + bs[1].k * shift, in |-> Tail(bs)]
    ELSE Length(Tail(bs), acc + (bs[1].k - 128) * shift, shift * 128)

\* Whether an entry takes a varint or bytes; requireWireType.
WireTypeOf(e) == IF e[2] \in {"text", "map", "packed", "part"} THEN BytesType ELSE VarintType

\* The first field of a part as its tag, its bytes and what follows it; a field
\* that does not parse has tag -1.
Unparsed == [tag |-> -1, raw |-> <<>>, rest |-> <<>>]

FirstField(bs) ==
    LET wt   == bs[1].k % 8
        body == IF wt = BytesType THEN Length(Tail(bs), 0, 1)
                ELSE [ok |-> Len(bs) > 1, n |-> 1, in |-> Tail(bs)]
    IN  IF bs[1].s # "" \/ wt \notin {VarintType, BytesType} \/ ~ body.ok
           \/ Len(body.in) < body.n
        THEN Unparsed
        ELSE [tag |-> bs[1].k, raw |-> SubSeq(body.in, 1, body.n),
              rest |-> SubSeq(body.in, body.n + 1, Len(body.in))]

RECURSIVE WalkFields(_, _, _)

\* What the visitor of a part does with one field.
Visit(rd, e, raw) ==
    LET f == e[3]
        pair == WalkFields(Reader(<<>>), raw, <<<<1, "text", "key">>, <<2, "text", "value">>>>)
        v == ValueOf(raw)
    IN  CASE e[2] = "part" -> WalkFields(rd, raw, DecodeParts[f])
          [] e[2] = "map" ->
               IF ~ Ok(pair) THEN Fail(rd, pair.st)
               ELSE Store(rd, f, Append(Get(rd.m, f),
                        IF Get(pair.m, "key") = Get(pair.m, "value")
                        THEN pair.m.key[1] ELSE Garbled))
          [] e[2] = "packed" ->
               Store(rd, f, Get(rd.m, f) \o [i \in DOMAIN raw |-> ValueOf(<<raw[i]>>)[1]])
          [] e[2] = "bool" -> IF raw[1].k # 0 THEN Store(rd, f, <<f>>) ELSE rd
          [] e[2] = "enum" ->
               IF raw[1].k \notin DOMAIN Enum(f) THEN Fail(rd, "unsupported")
               ELSE Store(rd, f, <<Enum(f)[raw[1].k]>>)
          [] OTHER -> Store(rd, f, IF v = <<>> /\ e[2] = "opt" THEN <<Zero>> ELSE v)

\* walkFields: a field no table names is skipped, and the first error ends it.
WalkFields(rd, bs, table) ==
    LET visit(x, named) ==
            CASE x.tag = -1 -> Fail(rd, "parse error")
              [] x.tag # -1 /\ named = {} -> rd
              [] OTHER -> LET e == CHOOSE y \in named : TRUE
                          IN  IF WireTypeOf(e) # x.tag % 8 THEN Fail(rd, "wire type")
                              ELSE Visit(rd, e, x.raw)
        walk(x) == WalkFields(visit(x, {e \in Range(table) : e[1] = x.tag \div 8}), x.rest, table)
    IN  IF ~ Ok(rd) \/ bs = <<>> THEN rd ELSE walk(FirstField(bs))

\* unmarshalBinary: in the metadata mode neither a payload nor a key may be
\* inside, and both come from outside.
Unmarshal(bs, metadata, payload, key) ==
    LET rd == WalkFields(Reader(<<>>), bs, DecodeEnvelope)
        m  == Put(Put(rd.m, "Payload", payload), "Key", key)
    IN  CASE ~ Ok(rd) \/ Get(rd.m, "Version") # <<"Version">> -> [ok |-> FALSE]
          [] metadata /\ (Has(rd.m, "Payload") \/ Has(rd.m, "Key")) -> [ok |-> FALSE]
          [] OTHER -> [ok |-> TRUE, m |-> IF metadata THEN m ELSE rd.m]

(***************************************************************************)
(* The container: whatever carries the envelope knows where it ends, and   *)
(* in the metadata mode carries the payload and the key beside it.         *)
(***************************************************************************)
Kinds == {"Full", "Metadata"}

Framed(bs) == Num(Len(bs), 4) \o bs

Unframed(bs) == SubSeq(bs, 5, 4 + NumOf(SubSeq(bs, 1, 4)))

After(bs) == SubSeq(bs, 5 + NumOf(SubSeq(bs, 1, 4)), Len(bs))

Encode(kind, m) ==
    LET outside(f) == IF Has(m, f) THEN Text(m[f][1]) ELSE <<>>
    IN  Framed(Marshal(m, kind = "Metadata")) \o Framed(Raw(kind, 1)) \o
            (IF kind = "Metadata" THEN Framed(outside("Payload")) \o Framed(outside("Key"))
             ELSE <<>>)

Decode(bs) ==
    LET r1 == After(bs)
        r2 == After(r1)
        metadata == Unframed(r1)[1].s = "Metadata"
        text(r) == IF Unframed(r) = <<>> THEN <<>> ELSE ValueOf(Unframed(r))
        d == IF metadata THEN Unmarshal(Unframed(bs), TRUE, text(r2), text(After(r2)))
             ELSE Unmarshal(Unframed(bs), FALSE, <<>>, <<>>)
    IN  [kind |-> IF d.ok THEN Unframed(r1)[1].s ELSE "error",
         m |-> IF d.ok THEN d.m ELSE NoFields,
         rest |-> IF metadata THEN After(After(r2)) ELSE r2]

\* The messages to send: with one or two fields set, with all of them, with
\* all Optionals zero, and with texts long enough to move a nested body.
Fields ==
    {e[3] : e \in {x \in UNION {Range(AppendParts[p]) : p \in DOMAIN AppendParts}
                            \cup Range(AppendEnvelope) : x[2] # "part"}}

Optionals == {"PayloadFormat", "MessageExpiry"}

Fill(S, form) ==
    [f \in S \cup {"Version"} |->
        CASE f \in {"Headers", "Properties", "SubscriptionIDs"} -> <<"a", "b">>
          [] f = "Protocol" -> <<ProtocolNumbers[IF form = "long" THEN 1 ELSE 5]>>
          [] f = "State" -> <<StateNumbers[IF form = "long" THEN 5 ELSE 2]>>
          [] f \in Optionals /\ form = "zero" -> <<Zero>>
          [] f \in {"ContentType", "QueueName", "WorkGroup", "TraceState", "Topic"}
                /\ form = "long" -> <<Long130>>
          [] OTHER -> <<f>>]

Samples(kind) ==
    {Fill(S, "plain") : S \in Selections(Fields)} \cup
    {Fill(S, form) : S \in {Fields, Optionals, {"ContentType"}, {"WorkGroup"}, {"QueueName"}},
                     form \in {"zero", "long"}}
=============================================================================
