------------------------------ MODULE MqttWire ------------------------------
(***************************************************************************)
(* The MQTT 3.1, 3.1.1 and 5 packets: Encode, Unpack and UnpackBytes of    *)
(* every packet, properties, the fixed header, version detection and the   *)
(* reset of pooled PUBLISH packets (mqtt/packets, mqtt/codec).             *)
(*                                                                         *)
(* A packet is a pair of tables: the parts Encode writes and the parts     *)
(* Unpack reads, in order; a property table pairs property identifiers     *)
(* with parts.  A flag field and a variable byte integer hold numbers, a   *)
(* list of entries holds one message for each entry.                       *)
(***************************************************************************)
EXTENDS Wire

(***************************************************************************)
(* Parts (mqtt/codec).                                                     *)
(***************************************************************************)
U8(f) == <<"val", f, 1>>

U16(f) == <<"val", f, 2>>

\* Fields behind a pointer: nil and a pointer to zero differ.
Ptr8(f) == <<"ptr", f, 1>>

Ptr16(f) == <<"ptr", f, 2>>

Ptr32(f) == <<"ptr", f, 4>>

Str(f) == <<"str", f>>

Vbi(f) == <<"vbi", f>>

User(f) == <<"user", f>>

Number(f) == <<"number", f>>

\* A flag octet: <<field, shift, width, largest value accepted>>.
BitField(bits) == <<"bits", bits>>

Bit(f, shift) == <<f, shift, 1, 1>>

TwoBits(f, shift, max) == <<f, shift, 2, max>>

Props(write, read) == <<"props", write, read>>

When(f, parts) == <<"when", f, parts>>

\* Entries until the bytes run out; ends is "any" when running out inside an
\* entry also ends the list, "first" when only running out in its first part
\* does, "none" when the number of bytes left decides.
Each(f, parts, ends) == <<"each", f, parts, ends>>

Remainder(f) == <<"rest", f>>

\* A part that may be missing at the end of the packet.
OrEnd(part) == <<"orEnd", part>>

AckTail(write) == <<"ackTail", write>>

(***************************************************************************)
(* Properties (mqtt/packets/v5).                                           *)
(***************************************************************************)
PropIDs ==
    [PayloadFormat |-> 1, MessageExpiry |-> 2, ContentType |-> 3,
     ResponseTopic |-> 8, CorrelationData |-> 9, SubscriptionIdentifier |-> 11,
     SessionExpiryInterval |-> 17, AssignedClientID |-> 18,
     ServerKeepAlive |-> 19, AuthMethod |-> 21, AuthData |-> 22,
     RequestProblemInfo |-> 23, WillDelayInterval |-> 24,
     RequestResponseInfo |-> 25, ResponseInfo |-> 26, ServerReference |-> 28,
     ReasonString |-> 31, ReceiveMaximum |-> 33, TopicAliasMaximum |-> 34,
     TopicAlias |-> 35, MaximumQOS |-> 36, RetainAvailable |-> 37, User |-> 38,
     MaximumPacketSize |-> 39, WildcardSubAvailable |-> 40,
     SubIDAvailable |-> 41, SharedSubAvailable |-> 42]

Prop(name, part) == [id |-> <<Digit(PropIDs[name])>>, part |-> part]

\* A property whose field has the property's name.
Own(part) == Prop(part[2], part)

\* A property written without its identifier.
Bare(part) == [id |-> <<>>, part |-> part]

ConnectPropsEncode ==
    <<Own(Ptr32("SessionExpiryInterval")), Own(Ptr16("ReceiveMaximum")),
      Own(Ptr32("MaximumPacketSize")), Own(Ptr16("TopicAliasMaximum")),
      Own(Ptr8("RequestResponseInfo")), Own(Ptr8("RequestProblemInfo")),
      Own(User("User")), Own(Str("AuthMethod")), Own(Str("AuthData"))>>

ConnectPropsUnpack ==
    <<Own(Ptr32("SessionExpiryInterval")), Own(Ptr16("ReceiveMaximum")),
      Own(Ptr32("MaximumPacketSize")), Own(Ptr16("TopicAliasMaximum")),
      Own(Ptr8("RequestResponseInfo")), Own(Ptr8("RequestProblemInfo")),
      Own(User("User")), Own(Str("AuthMethod")), Own(Str("AuthData"))>>

ConnectPropsUnpackBytes ==
    <<Own(Ptr32("SessionExpiryInterval")), Own(Ptr16("ReceiveMaximum")),
      Own(Ptr32("MaximumPacketSize")), Own(Ptr16("TopicAliasMaximum")),
      Own(Ptr8("RequestResponseInfo")), Own(Ptr8("RequestProblemInfo")),
      Own(User("User")), Own(Str("AuthMethod")), Own(Str("AuthData"))>>

WillPropsEncode ==
    <<Prop("WillDelayInterval", Ptr32("Will.WillDelayInterval")),
      Prop("PayloadFormat", Ptr8("Will.PayloadFormat")),
      Prop("MessageExpiry", Ptr32("Will.MessageExpiry")),
      Prop("ContentType", Str("Will.ContentType")),
      Prop("ResponseTopic", Str("Will.ResponseTopic")),
      Prop("CorrelationData", Str("Will.CorrelationData")),
      Prop("User", User("Will.User"))>>

WillPropsUnpack ==
    <<Prop("WillDelayInterval", Ptr32("Will.WillDelayInterval")),
      Prop("PayloadFormat", Ptr8("Will.PayloadFormat")),
      Prop("MessageExpiry", Ptr32("Will.MessageExpiry")),
      Prop("ContentType", Str("Will.ContentType")),
      Prop("ResponseTopic", Str("Will.ResponseTopic")),
      Prop("CorrelationData", Str("Will.CorrelationData")),
      Prop("User", User("Will.User"))>>

WillPropsUnpackBytes ==
    <<Prop("WillDelayInterval", Ptr32("Will.WillDelayInterval")),
      Prop("PayloadFormat", Ptr8("Will.PayloadFormat")),
      Prop("MessageExpiry", Ptr32("Will.MessageExpiry")),
      Prop("ContentType", Str("Will.ContentType")),
      Prop("ResponseTopic", Str("Will.ResponseTopic")),
      Prop("CorrelationData", Str("Will.CorrelationData")),
      Prop("User", User("Will.User"))>>

ConnAckPropsEncode ==
    <<Own(Ptr32("SessionExpiryInterval")),
      Prop("ReceiveMaximum", Ptr16("ReceiveMax")),
      Prop("MaximumQOS", Ptr8("MaxQoS")), Own(Ptr8("RetainAvailable")),
      Own(Ptr32("MaximumPacketSize")), Own(Str("AssignedClientID")),
      Prop("TopicAliasMaximum", Ptr16("TopicAliasMax")),
      Own(Str("ReasonString")), Own(User("User")),
      Own(Ptr8("WildcardSubAvailable")), Own(Ptr8("SubIDAvailable")),
      Own(Ptr16("ServerKeepAlive")), Own(Str("ResponseInfo")),
      Own(Str("ServerReference")), Own(Str("AuthMethod")),
      Own(Str("AuthData"))>>

ConnAckPropsUnpack ==
    <<Own(Ptr32("SessionExpiryInterval")),
      Prop("ReceiveMaximum", Ptr16("ReceiveMax")),
      Prop("MaximumQOS", Ptr8("MaxQoS")), Own(Ptr8("RetainAvailable")),
      Own(Ptr32("MaximumPacketSize")), Own(Str("AssignedClientID")),
      Prop("TopicAliasMaximum", Ptr16("TopicAliasMax")),
      Own(Str("ReasonString")), Own(User("User")),
      Own(Ptr8("WildcardSubAvailable")), Own(Ptr8("SubIDAvailable")),
      Own(Ptr16("ServerKeepAlive")), Own(Str("ResponseInfo")),
      Own(Str("ServerReference")), Own(Str("AuthMethod")),
      Own(Str("AuthData"))>>

PublishPropsEncode ==
    <<Own(Ptr8("PayloadFormat")), Own(Ptr32("MessageExpiry")),
      Own(Ptr16("TopicAlias")), Own(Str("ResponseTopic")),
      Own(Str("CorrelationData")), Own(User("User")),
      Prop("SubscriptionIdentifier", Vbi("SubscriptionID")),
      Own(Str("ContentType"))>>

PublishPropsUnpack ==
    <<Own(Ptr8("PayloadFormat")), Own(Ptr32("MessageExpiry")),
      Own(Str("ContentType")), Own(Ptr16("TopicAlias")),
      Own(Str("ResponseTopic")), Own(Str("CorrelationData")),
      Own(User("User")),
      Prop("SubscriptionIdentifier", Vbi("SubscriptionID"))>>

PublishPropsUnpackBytes ==
    <<Own(Ptr8("PayloadFormat")), Own(Ptr32("MessageExpiry")),
      Own(Str("ContentType")), Own(Ptr16("TopicAlias")),
      Own(Str("ResponseTopic")), Own(Str("CorrelationData")),
      Own(User("User")),
      Prop("SubscriptionIdentifier", Vbi("SubscriptionID"))>>

SubscribePropsEncode ==
    <<Own(Vbi("SubscriptionIdentifier")), Own(User("User"))>>

SubscribePropsUnpack ==
    <<Own(Vbi("SubscriptionIdentifier")), Own(User("User"))>>

SubscribePropsUnpackBytes ==
    <<Own(Vbi("SubscriptionIdentifier")), Own(User("User"))>>

UnsubscribePropsEncode == <<Bare(User("User"))>>

UnsubscribePropsUnpack == <<Own(User("User"))>>

DisconnectPropsEncode ==
    <<Own(Ptr32("SessionExpiryInterval")), Own(Str("ReasonString")),
      Own(User("User")), Own(Str("ServerReference"))>>

DisconnectPropsUnpack ==
    <<Own(Ptr32("SessionExpiryInterval")), Own(Str("ReasonString")),
      Own(User("User")), Own(Str("ServerReference"))>>

AuthPropsEncode ==
    <<Own(Str("AuthMethod")), Own(Str("AuthData")), Own(Str("ReasonString")),
      Own(User("User"))>>

AuthPropsUnpack ==
    <<Own(Str("AuthMethod")), Own(Str("AuthData")), Own(Str("ReasonString")),
      Own(User("User"))>>

BasicPropsEncode == <<Own(Str("ReasonString")), Own(User("User"))>>

BasicPropsUnpack == <<Own(Str("ReasonString")), Own(User("User"))>>

(***************************************************************************)
(* The packets of MQTT 5 (mqtt/packets/v5).                                *)
(***************************************************************************)
Packet(type, header, write, read) ==
    [type |-> type, header |-> header, write |-> write, read |-> read]

\* A packet that is read the way it is written.
SamePacket(type, header, parts) == Packet(type, header, parts, parts)

Acked == [QoS |-> <<1>>]   \* the header of PUBREL, SUBSCRIBE and UNSUBSCRIBE

PackFlags ==
    BitField(<<Bit("UsernameFlag", 7), Bit("PasswordFlag", 6), Bit("WillRetain", 5),
               TwoBits("WillQoS", 3, 3), Bit("WillFlag", 2), Bit("Clean", 1)>>)

UnpackFlags ==
    BitField(<<Bit("ReservedBit", 0), Bit("Clean", 1), Bit("WillFlag", 2),
               TwoBits("WillQoS", 3, 3), Bit("WillRetain", 5),
               Bit("PasswordFlag", 6), Bit("UsernameFlag", 7)>>)

ConnectParts(flags, props, will) ==
    <<Str("ProtocolName"), Number("ProtocolVersion"), flags, U16("KeepAlive")>> \o
        props \o
        <<Str("ClientID"),
          When("WillFlag", will \o <<Str("WillTopic"), Str("WillPayload")>>),
          When("UsernameFlag", <<Str("Username")>>),
          When("PasswordFlag", <<Str("Password")>>)>>

V5Connect ==
    Packet(1, NoFields,
           ConnectParts(PackFlags, <<Props(ConnectPropsEncode, <<>>)>>,
                        <<Props(WillPropsEncode, <<>>)>>),
           ConnectParts(UnpackFlags, <<Props(<<>>, ConnectPropsUnpack)>>,
                        <<Props(<<>>, WillPropsUnpack)>>))

V5ConnectBytes ==
    ConnectParts(UnpackFlags, <<Props(<<>>, ConnectPropsUnpackBytes)>>,
                 <<Props(<<>>, WillPropsUnpackBytes)>>)

V5ConnAck ==
    SamePacket(2, NoFields,
               <<BitField(<<Bit("SessionPresent", 0)>>), U8("ReasonCode"),
                 Props(ConnAckPropsEncode, ConnAckPropsUnpack)>>)

PublishUnpack(props) ==
    <<Str("TopicName"), When("QoS", <<U16("ID")>>), Props(<<>>, props),
      Remainder("Payload")>>

V5Publish ==
    Packet(3, NoFields,
           <<Str("TopicName"), When("QoS", <<U16("ID")>>),
             Props(PublishPropsEncode, <<>>), Remainder("Payload")>>,
           PublishUnpack(PublishPropsUnpack))

\* PUBACK, PUBREC, PUBREL and PUBCOMP.
AckUnpack ==
    <<U16("ID"), OrEnd(U8("ReasonCode")), OrEnd(Props(<<>>, BasicPropsUnpack))>>

V5PubAck ==
    Packet(4, NoFields,
           <<U16("ID"), U8("ReasonCode"), Props(BasicPropsEncode, <<>>)>>, AckUnpack)

V5PubRec ==
    Packet(5, NoFields, <<U16("ID"), AckTail(BasicPropsEncode)>>, AckUnpack)

V5PubRel ==
    Packet(6, Acked, <<U16("ID"), AckTail(BasicPropsEncode)>>, AckUnpack)

V5PubComp ==
    Packet(7, NoFields, <<U16("ID"), AckTail(BasicPropsEncode)>>, AckUnpack)

SubOptionEncode ==
    <<Str("Topic"),
      BitField(<<TwoBits("MaxQoS", 0, 3), Bit("NoLocal", 2), Bit("RetainAsPublished", 3),
                 TwoBits("RetainHandling", 4, 3)>>)>>

SubOptionUnpack ==
    <<Str("Topic"),
      BitField(<<TwoBits("MaxQoS", 0, 2), Bit("NoLocal", 2), Bit("RetainAsPublished", 3),
                 TwoBits("RetainHandling", 4, 2), TwoBits("reserved", 6, 0)>>)>>

V5Subscribe ==
    Packet(8, Acked,
           <<U16("ID"), Props(SubscribePropsEncode, <<>>),
             Each("Opts", SubOptionEncode, "any")>>,
           <<U16("ID"), Props(<<>>, SubscribePropsUnpack),
             Each("Opts", SubOptionUnpack, "any")>>)

V5SubscribeBytes ==
    <<U16("ID"), Props(<<>>, SubscribePropsUnpackBytes),
      Each("Opts", SubOptionEncode, "none")>>

V5SubAck ==
    SamePacket(9, NoFields,
               <<U16("ID"), Props(BasicPropsEncode, BasicPropsUnpack),
                 Remainder("ReasonCodes")>>)

V5Unsubscribe ==
    SamePacket(10, Acked,
               <<U16("ID"), Props(UnsubscribePropsEncode, UnsubscribePropsUnpack),
                 Each("Topics", <<Str("Topic")>>, "any")>>)

V5UnsubAck ==
    SamePacket(11, NoFields,
               <<U16("ID"), Props(BasicPropsEncode, BasicPropsUnpack),
                 Remainder("ReasonCodes")>>)

PingReq == Packet(12, NoFields, <<>>, <<>>)

PingResp == Packet(13, NoFields, <<>>, <<>>)

V5Disconnect ==
    Packet(14, NoFields, <<U8("ReasonCode"), Props(DisconnectPropsEncode, <<>>)>>,
           <<OrEnd(U8("ReasonCode")), Props(<<>>, DisconnectPropsUnpack)>>)

V5Auth ==
    SamePacket(15, NoFields,
               <<U8("ReasonCode"), Props(AuthPropsEncode, AuthPropsUnpack)>>)

(***************************************************************************)
(* The packets of MQTT 3.1 and 3.1.1 (mqtt/packets/v3).                    *)
(***************************************************************************)
V3Connect ==
    Packet(1, NoFields, ConnectParts(PackFlags, <<>>, <<>>),
           ConnectParts(UnpackFlags, <<>>, <<>>))

V3ConnAck ==
    SamePacket(2, NoFields,
               <<BitField(<<Bit("SessionPresent", 0)>>), U8("ReturnCode")>>)

V3Publish ==
    SamePacket(3, NoFields,
               <<Str("TopicName"), When("QoS", <<U16("ID")>>), Remainder("Payload")>>)

V3PubAck == Packet(4, NoFields, <<U16("ID")>>, <<U16("ID")>>)

V3PubRec == Packet(5, NoFields, <<U16("ID")>>, <<U16("ID")>>)

V3PubRel == Packet(6, Acked, <<U16("ID")>>, <<U16("ID")>>)

V3PubComp == Packet(7, NoFields, <<U16("ID")>>, <<U16("ID")>>)

V3Subscribe ==
    SamePacket(8, Acked,
               <<U16("ID"), Each("Topics", <<Str("Name"), U8("QoS")>>, "first")>>)

V3SubscribeBytes == <<U16("ID"), Each("Topics", <<Str("Name"), U8("QoS")>>, "none")>>

V3SubAck ==
    SamePacket(9, NoFields,
               <<U16("ID"), Remainder("ReturnCodes")>>)

V3Unsubscribe ==
    SamePacket(10, Acked,
               <<U16("ID"), Each("Topics", <<Str("Topic")>>, "any")>>)

V3UnSubAck == Packet(11, NoFields, <<U16("ID")>>, <<U16("ID")>>)

V3Disconnect == Packet(14, NoFields, <<>>, <<>>)

\* NewControlPacketWithHeader of each version.
V5Packets ==
    [CONNECT |-> V5Connect, CONNACK |-> V5ConnAck, PUBLISH |-> V5Publish,
     PUBACK |-> V5PubAck, PUBREC |-> V5PubRec, PUBREL |-> V5PubRel,
     PUBCOMP |-> V5PubComp, SUBSCRIBE |-> V5Subscribe, SUBACK |-> V5SubAck,
     UNSUBSCRIBE |-> V5Unsubscribe, UNSUBACK |-> V5UnsubAck, PINGREQ |-> PingReq,
     PINGRESP |-> PingResp, DISCONNECT |-> V5Disconnect, AUTH |-> V5Auth]

V3Packets ==
    [CONNECT |-> V3Connect, CONNACK |-> V3ConnAck, PUBLISH |-> V3Publish,
     PUBACK |-> V3PubAck, PUBREC |-> V3PubRec, PUBREL |-> V3PubRel,
     PUBCOMP |-> V3PubComp, SUBSCRIBE |-> V3Subscribe, SUBACK |-> V3SubAck,
     UNSUBSCRIBE |-> V3Unsubscribe, UNSUBACK |-> V3UnSubAck, PINGREQ |-> PingReq,
     PINGRESP |-> PingResp, DISCONNECT |-> V3Disconnect]

Packets(version) == IF version = 5 THEN V5Packets ELSE V3Packets

(***************************************************************************)
(* Variable byte integers.                                                 *)
(***************************************************************************)
RECURSIVE EncodeVBI(_)
EncodeVBI(n) ==
    IF n < 128 THEN <<Digit(n)>> ELSE <<Digit((n % 128) + 128)>> \o EncodeVBI(n \div 128)

RECURSIVE VbiLen(_)
VbiLen(n) == IF n < 128 THEN 1 ELSE 1 + VbiLen(n \div 128)

\* How many bytes the integer at the head of bs takes: 0 when it does not end
\* within four bytes.
VbiEnd(bs) ==
    LET first(ends) == IF ends = {} THEN 0 ELSE CHOOSE i \in ends : \A j \in ends : i <= j
    IN  first({i \in 1..(IF Len(bs) < 4 THEN Len(bs) ELSE 4) : bs[i].k < 128})

VbiValue(bs, n) ==
    FoldLeft(LAMBDA acc, i : acc + (bs[i].k % 128) * 128^(i - 1), 0,
             [i \in 1..n |-> i])

\* Why DecodeVBI fails.
VbiFault(bs) == IF Len(bs) < 4 THEN "eof" ELSE "max length exceeded"

(***************************************************************************)
(* Encode.                                                                 *)
(***************************************************************************)
PackBits(m, bits) ==
    FoldLeft(LAMBDA acc, b :
                 acc + ((IF Has(m, b[1]) THEN m[b[1]][1] ELSE 0) % 2^b[3]) * 2^b[2],
             0, bits)

PutStr(v) == Num(SizeOf(v), 2) \o Text(v)

PutPtr(v, n) == IF v = "0" THEN Zeros(n) ELSE Raw(v, n)

\* The properties that are set; a user property is a key and a value.
WriteProp(id, p, v) ==
    CASE v = <<>> -> <<>>
      [] p[1] = "ptr" -> id \o PutPtr(v[1], p[3])
      [] p[1] = "str" -> id \o PutStr(v[1])
      [] p[1] = "vbi" -> id \o EncodeVBI(v[1])
      [] p[1] = "user" ->
           Concat([j \in 1..(Len(v) \div 2) |-> id \o PutStr(v[2 * j - 1]) \o PutStr(v[2 * j])])

WriteProps(m, props) ==
    Concat([i \in DOMAIN props |->
               WriteProp(props[i].id, props[i].part, Get(m, props[i].part[2]))])

WithLength(bs) == EncodeVBI(Len(bs)) \o bs

\* The reason code and the properties of PUBREC, PUBREL and PUBCOMP: neither,
\* only the code, or both.
WriteAckTail(m, props) ==
    LET tail(body) == IF body # <<>> THEN WriteVal(m, "ReasonCode", 1) \o WithLength(body)
                      ELSE IF Has(m, "ReasonCode") THEN WriteVal(m, "ReasonCode", 1)
                      ELSE <<>>
    IN  tail(WriteProps(m, props))

RECURSIVE WriteParts(_, _)
WritePart(m, p) ==
    CASE p[1] = "val" -> WriteVal(m, p[2], p[3])
      [] p[1] = "str" -> WriteStr(m, p[2], 2)
      [] p[1] = "number" -> <<Digit(m[p[2]][1])>>
      [] p[1] = "bits" -> <<Digit(PackBits(m, p[2]))>>
      [] p[1] = "props" -> WithLength(WriteProps(m, p[2]))
      [] p[1] = "when" -> IF Has(m, p[2]) THEN WriteParts(m, p[3]) ELSE <<>>
      [] p[1] = "each" -> Concat([j \in DOMAIN Get(m, p[2]) |-> WriteParts(m[p[2]][j], p[3])])
      [] p[1] = "rest" -> IF Has(m, p[2]) THEN Text(m[p[2]][1]) ELSE <<>>
      [] p[1] = "ackTail" -> WriteAckTail(m, p[2])

WriteParts(m, parts) == Concat([i \in DOMAIN parts |-> WritePart(m, parts[i])])

HeaderBits == <<Bit("Dup", 3), TwoBits("QoS", 1, 3), Bit("Retain", 0)>>

FixedHeader(type, m, remaining) ==
    <<Digit(type * 16 + PackBits(m, HeaderBits))>> \o EncodeVBI(remaining)

StrSize(m, f) == IF Has(m, f) THEN SizeOf(m[f][1]) ELSE 0

\* PublishProperties.encodedLen: the bytes EncodeTo will append.
EncodedLen(m) ==
    LET fixed(f, n) == IF Has(m, f) THEN n ELSE 0
        str(f)      == IF Has(m, f) THEN 1 + 2 + StrSize(m, f) ELSE 0
    IN  fixed("PayloadFormat", 2) + fixed("MessageExpiry", 5) + fixed("TopicAlias", 3)
        + str("ResponseTopic") + str("CorrelationData") + str("ContentType")
        + FoldLeft(LAMBDA acc, v : acc + 2 + SizeOf(v), Len(Get(m, "User")) \div 2,
                   Get(m, "User"))
        + (IF Has(m, "SubscriptionID") THEN 1 + VbiLen(m["SubscriptionID"][1]) ELSE 0)

\* Publish.EncodeTo of MQTT 5: both lengths are computed before the bytes are.
EncodePublish5(m) ==
    LET encode(propsLen) ==
            FixedHeader(3, m, 2 + StrSize(m, "TopicName") + StrSize(m, "Payload")
                                + (IF Has(m, "QoS") THEN 2 ELSE 0) + VbiLen(propsLen) + propsLen)
            \o WriteParts(m, <<Str("TopicName"), When("QoS", <<U16("ID")>>)>>)
            \o EncodeVBI(propsLen) \o WriteProps(m, PublishPropsEncode)
            \o WriteParts(m, <<Remainder("Payload")>>)
    IN  encode(EncodedLen(m))

\* Publish.EncodeTo of MQTT 3.
EncodePublish3(m) ==
    FixedHeader(3, m, 2 + StrSize(m, "TopicName") + StrSize(m, "Payload")
                        + (IF Has(m, "QoS") THEN 2 ELSE 0))
        \o WriteParts(m, V3Publish.write)

EncodeBody(p, body) == FixedHeader(p.type, p.header, Len(body)) \o body

EncodeOther(p, m) == EncodeBody(p, WriteParts(m, p.write))

MqttEncode(version, kind, m) ==
    CASE kind # "PUBLISH" -> EncodeOther(Packets(version)[kind], m)
      [] version = 5 -> EncodePublish5(m)
      [] OTHER -> EncodePublish3(m)

(***************************************************************************)
(* Unpack from an io.Reader (bytes = FALSE) and from a ZeroCopyReader      *)
(* (bytes = TRUE), whose end is never io.EOF.                              *)
(***************************************************************************)
AtEnd(rd, bytes) == Fail(rd, IF bytes THEN "buffer too short" ELSE Ended(rd))

TakeVal(rd, f, n, bytes) ==
    IF Holds(rd, n) THEN ReadVal(rd, f, n) ELSE AtEnd(rd, bytes)

TakeStr(rd, f, bytes) ==
    LET ended(r) == IF ~ Ok(r) /\ bytes THEN Fail(r, "buffer too short") ELSE r
    IN  ended(ReadStr(rd, f, 2))

TakePtr(rd, f, n, bytes) ==
    IF Holds(rd, n) /\ Ahead(rd, n) = Zeros(n) THEN Store(Skip(rd, n), f, <<"0">>)
    ELSE TakeVal(rd, f, n, bytes)

TakeVbi(rd, f, bytes) ==
    LET value(n) == IF n = 0 THEN Fail(rd, IF bytes THEN "malformed" ELSE VbiFault(rd.in))
                    ELSE Store(Skip(rd, n), f, <<VbiValue(rd.in, n)>>)
    IN  value(VbiEnd(rd.in))

TakeBits(rd, bits, bytes) ==
    IF ~ Holds(rd, 1) THEN AtEnd(rd, bytes)
    ELSE LET k     == rd.in[1].k
             at(b) == (k \div 2^b[2]) % 2^b[3]
         IN  IF \E i \in DOMAIN bits : at(bits[i]) > bits[i][4]
             THEN Fail(rd, "invalid flags")
             ELSE FoldLeft(LAMBDA acc, b :
                               IF at(b) = 0 THEN acc ELSE Store(acc, b[1], <<at(b)>>),
                           Skip(rd, 1), bits)

TakeUser(rd, f, bytes) ==
    LET pair(r) == IF ~ Ok(r) THEN Fail(rd, "user")
                   ELSE [r EXCEPT !.m = Put(rd.m, f, Get(rd.m, f) \o Get(r.m, "k")
                                                        \o Get(r.m, "v"))]
    IN  pair(TakeStr(TakeStr([rd EXCEPT !.m = NoFields], "k", bytes), "v", bytes))

\* The properties of a packet, until their bytes run out; an identifier with no
\* case is an error in Unpack and is skipped in unpackBytes.
TakeProp(r, p, bytes) ==
    CASE p[1] = "ptr" -> TakePtr(r, p[2], p[3], bytes)
      [] p[1] = "str" -> TakeStr(r, p[2], bytes)
      [] p[1] = "vbi" -> TakeVbi(r, p[2], bytes)
      [] p[1] = "user" -> TakeUser(r, p[2], bytes)

\* The properties at the positions of props that have the identifier read.
TakeNamed(rd, named, bytes) ==
    CASE named # {} -> TakeProp(Skip(rd, 1), (CHOOSE p \in named : TRUE).part, bytes)
      [] bytes -> Skip(rd, 1)
      [] OTHER -> Fail(rd, "property")

RECURSIVE TakeProps(_, _, _)
TakeProps(rd, props, bytes) ==
    IF ~ Ok(rd) \/ rd.in = <<>> THEN rd
    ELSE TakeProps(TakeNamed(rd, {p \in Range(props) : p.id = <<rd.in[1]>>}, bytes), props, bytes)

\* A length and the properties: Read fills what it can of the buffer, ReadN
\* wants all of it.
TakePropsPart(rd, props, bytes) ==
    LET done(r, have, ps) ==
            IF ~ Ok(ps) THEN Fail(rd, ps.st) ELSE [Skip(r, have) EXCEPT !.m = ps.m]
        take(r, len, have) ==
            CASE len = 0 -> r
              [] len > 0 /\ (have = 0 \/ (bytes /\ have < len)) -> Fail(rd, "properties")
              [] OTHER -> done(r, have, TakeProps([in |-> Ahead(r, have) \o Zeros(len - have),
                                                   m |-> rd.m, st |-> "ok"], props, bytes))
        within(r, len) == take(r, len, IF Holds(r, len) THEN len ELSE Len(r.in))
        length(n) ==
            IF n = 0 THEN Fail(rd, IF bytes THEN "malformed" ELSE VbiFault(rd.in))
            ELSE within(Skip(rd, n), VbiValue(rd.in, n))
    IN  length(VbiEnd(rd.in))

RECURSIVE TakeParts(_, _, _), TakePart(_, _, _), TakeEach(_, _, _)
TakePart(rd, p, bytes) ==
    CASE p[1] = "val" -> TakeVal(rd, p[2], p[3], bytes)
      [] p[1] = "str" -> TakeStr(rd, p[2], bytes)
      [] p[1] = "number" ->
           IF Holds(rd, 1) THEN Store(Skip(rd, 1), p[2], <<rd.in[1].k>>)
                           ELSE AtEnd(rd, bytes)
      [] p[1] = "bits" -> TakeBits(rd, p[2], bytes)
      [] p[1] = "props" -> TakePropsPart(rd, p[3], bytes)
      [] p[1] = "when" -> IF Has(rd.m, p[2]) THEN TakeParts(rd, p[3], bytes) ELSE rd
      [] p[1] = "each" -> TakeEach(rd, p, bytes)
      [] p[1] = "rest" -> Store(Skip(rd, Len(rd.in)), p[2], ValueOf(rd.in))
      [] p[1] = "orEnd" ->
           LET orEnd(r) == IF r.st = "eof" THEN [rd EXCEPT !.st = "done"] ELSE r
           IN  orEnd(TakePart(rd, p[2], bytes))

TakeParts(rd, parts, bytes) ==
    IF ~ Ok(rd) \/ parts = <<>> THEN rd
    ELSE TakeParts(TakePart(rd, Head(parts), bytes), Tail(parts), bytes)

TakeEach(rd, p, bytes) ==
    LET next(first, entry) ==
            CASE \/ p[4] = "none" /\ rd.in = <<>>
                 \/ p[4] = "first" /\ first.st = "eof"
                 \/ p[4] = "any" /\ entry.st = "eof" -> [rd EXCEPT !.in = <<>>]
              [] OTHER ->
                 IF ~ Ok(entry) THEN Fail(rd, entry.st)
                 ELSE TakeEach([entry EXCEPT !.m = Put(rd.m, p[2],
                                                       Append(Get(rd.m, p[2]), entry.m))],
                               p, bytes)
        from(first) == next(first, TakeParts(first, Tail(p[3]), bytes))
    IN  from(TakePart([rd EXCEPT !.m = NoFields], Head(p[3]), bytes))

(***************************************************************************)
(* ReadPacketLimit and ReadPacketBytes.                                    *)
(***************************************************************************)
MaxPacketSize == 1000

\* FixedHeader.validateFlags; ReadPacketBytes does not call it.
ValidFlags(type, m) ==
    CASE type = 3 -> Get(m, "QoS") # <<3>>
      [] type \in {6, 8, 10} -> m = Acked
      [] OTHER -> type \in 1..15 /\ m = NoFields

\* What UnpackBytes reads where a packet has it, what Unpack reads otherwise.
BytesParts(version, kind, packets) ==
    CASE kind = "CONNECT" /\ version = 5 -> V5ConnectBytes
      [] kind = "PUBLISH" /\ version = 5 -> PublishUnpack(PublishPropsUnpackBytes)
      [] kind = "SUBSCRIBE" /\ version = 5 -> V5SubscribeBytes
      [] kind = "SUBSCRIBE" /\ version = 3 -> V3SubscribeBytes
      [] OTHER -> packets[kind].read

Undecoded == [kind |-> "error", m |-> NoFields, rest |-> <<>>]

\* The packet of kind whose remaining length is len, after n bytes of length.
DecodePacket(bytes, header, kind, parts, after, n, len) ==
    LET strip(m) == IF kind \in {"PUBREL", "SUBSCRIBE", "UNSUBSCRIBE"}
                    THEN [f \in DOMAIN m \ {"QoS"} |-> m[f]] ELSE m
        result(rd) == IF rd.st \notin {"ok", "done"} THEN Undecoded
                      ELSE [kind |-> kind, m |-> strip(rd.m),
                            rest |-> SubSeq(after, n + len + 1, Len(after))]
    IN  result(TakeParts([in |-> SubSeq(after, n + 1, n + len), m |-> header.m, st |-> "ok"],
                         parts, bytes))

DecodeHeader(version, bytes, type, header, after) ==
    LET named(kind, packets, n, len) ==
            DecodePacket(bytes, header, kind,
                         IF bytes THEN BytesParts(version, kind, packets) ELSE packets[kind].read,
                         after, n, len)
        known(kinds, packets, n, len) ==
            IF \/ n = 0 \/ (~ bytes /\ len > MaxPacketSize) \/ kinds = {}
               \/ Len(after) < n + len
            THEN Undecoded
            ELSE named(CHOOSE k \in kinds : TRUE, packets, n, len)
        sized(packets, n) ==
            known({k \in DOMAIN packets : packets[k].type = type}, packets, n,
                  VbiValue(after, n))
    IN  IF ~ bytes /\ ~ ValidFlags(type, header.m) THEN Undecoded
        ELSE sized(Packets(version), VbiEnd(after))

MqttDecode(version, bytes, bs) ==
    DecodeHeader(version, bytes, bs[1].k \div 16,
                 TakeBits(Reader(<<Digit(bs[1].k % 16)>>), HeaderBits, bytes),
                 SubSeq(bs, 2, Len(bs)))

\* DetectProtocolVersion: the first twelve bytes of the connection decide; 0
\* when they are not enough.
DetectProtocolVersion(bs) ==
    LET level(name, v) == IF \/ name = Text("MQTT") /\ v \in {4, 5}
                             \/ name = Text("MQIsdp") /\ v = 3
                          THEN v ELSE 0
        named(peek, idx, plen) ==
            IF idx + 2 + plen + 1 > Len(peek) THEN 0
            ELSE level(SubSeq(peek, idx + 3, idx + 2 + plen), peek[idx + 3 + plen].k)
        body(peek, idx) ==
            IF idx + 6 > Len(peek) THEN 0
            ELSE named(peek, idx, peek[idx + 1].k * 256 + peek[idx + 2].k)
        after(n) == 1 + (IF n = 0 THEN 4 ELSE n)
        sniff(peek) ==
            IF Len(peek) < 8 \/ peek[1].k \div 16 # 1 THEN 0
            ELSE body(peek, after(VbiEnd(Tail(peek))))
    IN  sniff(SubSeq(bs, 1, IF Len(bs) < 12 THEN Len(bs) ELSE 12))

\* connection.ReadPacket: the version is detected on the first packet, which
\* must be a CONNECT, and kept; got is what was read before.
MqttReceive(version, bytes, got, bs) ==
    LET decode(v) == IF v = 0 THEN Undecoded ELSE MqttDecode(v, bytes, bs)
        detected(v) == CASE v = 0 -> 0 [] v = 5 -> 5 [] OTHER -> 3
    IN  decode(IF got = <<>> /\ ~ bytes /\ bs[1].k \div 16 = 1
               THEN detected(DetectProtocolVersion(bs)) ELSE version)

(***************************************************************************)
(* The pool of PUBLISH packets: what is left in a packet that was released *)
(* (Publish.Reset, ResetPublishProperties, ReleasePublish).                *)
(***************************************************************************)
ResetFields == {"Dup", "QoS", "Retain", "ID", "TopicName", "Payload"}

V5ResetProperties ==
    {"PayloadFormat", "MessageExpiry", "TopicAlias", "ResponseTopic",
     "CorrelationData", "User", "SubscriptionID", "ContentType"}

ReleasePublish(version, m) ==
    LET cleared == IF version = 5 THEN ResetFields \cup V5ResetProperties ELSE ResetFields
    IN  [f \in DOMAIN m \ cleared |-> m[f]]

(***************************************************************************)
(* The packets to send: none, one, all but one or all of the fields, with  *)
(* the flags they depend on, and all fields with one of them at another    *)
(* value.                                                                  *)
(***************************************************************************)
RECURSIVE PartsWithin(_)
PartsWithin(parts) ==
    UNION {CASE p[1] = "when" -> PartsWithin(p[3])
             [] p[1] = "props" -> {p[2][j].part : j \in DOMAIN p[2]}
             [] p[1] = "ackTail" -> {U8("ReasonCode")} \cup
                                    {p[2][j].part : j \in DOMAIN p[2]}
             [] p[1] = "bits" -> {<<"bit", p[2][j][1], p[2][j][3]>> : j \in DOMAIN p[2]}
             [] OTHER -> {p} : p \in Range(parts)}

\* The parts of the packet; an UNSUBSCRIBE with user properties is not read
\* back, because they are written without their identifier.
FieldsOf(version, kind) ==
    {p \in PartsWithin(Packets(version)[kind].write) \cup
           (IF kind = "PUBLISH" THEN PartsWithin(<<BitField(HeaderBits)>>) ELSE {}) :
        ~ (kind = "UNSUBSCRIBE" /\ p = User("User"))}

\* The values of a part, the usual one first.
Values(version, p) ==
    CASE p[1] = "ptr" -> <<<<p[2]>>, <<"0">>>>
      [] p[1] = "vbi" -> <<<<1>>, <<127>>, <<128>>, <<16383>>, <<16384>>, <<2097151>>,
                           <<2097152>>, <<268435455>>>>
      [] p[1] = "user" -> <<<<"k1", "v1">>, <<"k1", "v1", "k2", "v2">>>>
      [] p[1] = "number" -> IF version = 5 THEN <<<<5>>>> ELSE <<<<4>>>>
      [] p[1] = "bit" -> IF p[3] = 1 THEN <<<<1>>>> ELSE <<<<1>>, <<2>>>>
      [] p[1] = "each" ->
           LET one(qs) == [f \in {q[2] : q \in qs} |->
                              IF \E q \in qs : q[1] = "bit" /\ q[2] = f THEN <<1>> ELSE <<f>>]
               some(full) == <<<<full>>, <<full, one({})>>, <<one({}), full>>>>
           IN  some(one(PartsWithin(p[3])))
      [] p[2] = "ProtocolName" -> <<<<"MQTT">>>>
      [] p[1] \in {"str", "rest"} -> <<<<p[2]>>, <<Long130>>>>
      [] OTHER -> <<<<p[2]>>>>

\* The flag a field depends on.
Needs(f) ==
    CASE f \in {"WillTopic", "WillPayload", "Will.WillDelayInterval", "Will.PayloadFormat",
                "Will.MessageExpiry", "Will.ContentType", "Will.ResponseTopic",
                "Will.CorrelationData", "Will.User"} -> {"WillFlag"}
      [] f = "Username" -> {"UsernameFlag"}
      [] f = "Password" -> {"PasswordFlag"}
      [] f = "ID" -> {"QoS"}
      [] OTHER -> {}

\* values gives every field of the packet its values.
SamplesOf(version, kind, values) ==
    LET full(S) == (S \cup UNION {Needs(f) : f \in S} \cup {"ProtocolName", "ProtocolVersion"})
                       \cap DOMAIN values
        fill(S) == [f \in full(S) |-> values[f][1]]
        other(m) ==
            UNION {{[m EXCEPT ![f] = values[f][i]] : i \in DOMAIN values[f]} :
                       f \in DOMAIN values} \cup
            IF kind = "CONNECT" /\ version = 3
            THEN {[m EXCEPT !["ProtocolName"] = <<"MQIsdp">>, !["ProtocolVersion"] = <<3>>,
                            !["ClientID"] = <<id>>] : id \in {"ClientID", Long130}}
            ELSE {}
    IN  {fill(S) : S \in Selections(DOMAIN values)} \cup other(fill(DOMAIN values))

MqttSamples(version, kind) ==
    LET valued(parts) == [f \in {p[2] : p \in parts} |->
                             Values(version, CHOOSE p \in parts : p[2] = f)]
    IN  SamplesOf(version, kind, valued(FieldsOf(version, kind)))

\* ReadPacketBytes reads the packets with an UnpackBytes and those whose Unpack
\* does not look for the end of the packet.
MqttKinds(version, bytes) ==
    IF bytes
    THEN {"CONNECT", "CONNACK", "PUBLISH", "PUBACK", "SUBSCRIBE", "PINGREQ", "PINGRESP"} \cup
         IF version = 5 THEN {"DISCONNECT", "AUTH"}
         ELSE {"PUBREC", "PUBREL", "PUBCOMP", "UNSUBACK", "DISCONNECT"}
    ELSE DOMAIN Packets(version)
=============================================================================
