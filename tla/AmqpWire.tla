------------------------------ MODULE AmqpWire ------------------------------
(***************************************************************************)
(* The AMQP 0.9.1 wire format: every method's Read and Write, content      *)
(* headers, field tables and frames (amqp/codec).                          *)
(*                                                                         *)
(* A method is a pair of tables: the fields its Read method reads and the  *)
(* fields its Write method writes, in order.  Reserved(n) is a field that  *)
(* Write does not take from the struct but writes as zero or "".           *)
(***************************************************************************)
EXTENDS Wire

(***************************************************************************)
(* The fields of a method (amqp/codec/types.go).                           *)
(***************************************************************************)
Octet(f) == <<"val", f, 1>>

Short(f) == <<"val", f, 2>>

Long(f) == <<"val", f, 4>>

LongLong(f) == <<"val", f, 8>>

ShortStr(f) == <<"str", f, 1>>

LongStr(f) == <<"str", f, 4>>

Table(f) == <<"table", f, 4>>

Bits(fs) == <<"bits", fs, 1>>

Reserved(n) == <<"zero", "", n>>

Method(read, write) == [read |-> read, write |-> write]

Both(fields) == Method(fields, fields)

(***************************************************************************)
(* The methods (amqp/codec/methods.go).                                    *)
(***************************************************************************)
ConnectionStart ==
    Both(<<Octet("VersionMajor"), Octet("VersionMinor"),
           Table("ServerProperties"), LongStr("Mechanisms"),
           LongStr("Locales")>>)

ConnectionStartOk ==
    Both(<<Table("ClientProperties"), ShortStr("Mechanism"),
           LongStr("Response"), ShortStr("Locale")>>)

ConnectionSecure == Both(<<LongStr("Challenge")>>)

ConnectionSecureOk == Both(<<LongStr("Response")>>)

ConnectionTune ==
    Both(<<Short("ChannelMax"), Long("FrameMax"), Short("Heartbeat")>>)

ConnectionTuneOk ==
    Both(<<Short("ChannelMax"), Long("FrameMax"), Short("Heartbeat")>>)

ConnectionOpen ==
    Method(<<ShortStr("VirtualHost"), ShortStr("Capabilities"),
             Bits(<<"Insist">>)>>,
           <<ShortStr("VirtualHost"), Reserved(1), Bits(<<"Insist">>)>>)

ConnectionOpenOk == Method(<<ShortStr("KnownHosts")>>, <<Reserved(1)>>)

ConnectionClose ==
    Both(<<Short("ReplyCode"), ShortStr("ReplyText"), Short("ClassID"),
           Short("MethodID")>>)

ConnectionCloseOk == Both(<<>>)

ChannelOpen == Method(<<ShortStr("Reserved1")>>, <<Reserved(1)>>)

ChannelOpenOk == Method(<<LongStr("Reserved1")>>, <<Reserved(4)>>)

ChannelFlow == Both(<<Bits(<<"Active">>)>>)

ChannelFlowOk == Both(<<Bits(<<"Active">>)>>)

ChannelClose ==
    Both(<<Short("ReplyCode"), ShortStr("ReplyText"), Short("ClassID"),
           Short("MethodID")>>)

ChannelCloseOk == Both(<<>>)

ExchangeDeclare ==
    Method(<<Short("Reserved1"), ShortStr("Exchange"), ShortStr("Type"),
             Bits(<<"Passive", "Durable", "AutoDelete", "Internal", "NoWait">>),
             Table("Arguments")>>,
           <<Reserved(2), ShortStr("Exchange"), ShortStr("Type"),
             Bits(<<"Passive", "Durable", "AutoDelete", "Internal", "NoWait">>),
             Table("Arguments")>>)

ExchangeDeclareOk == Both(<<>>)

ExchangeDelete ==
    Method(<<Short("Reserved1"), ShortStr("Exchange"),
             Bits(<<"IfUnused", "NoWait">>)>>,
           <<Reserved(2), ShortStr("Exchange"),
             Bits(<<"IfUnused", "NoWait">>)>>)

ExchangeDeleteOk == Both(<<>>)

ExchangeBind ==
    Method(<<Short("Reserved1"), ShortStr("Destination"),
             ShortStr("Source"), ShortStr("RoutingKey"), Bits(<<"NoWait">>),
             Table("Arguments")>>,
           <<Reserved(2), ShortStr("Destination"), ShortStr("Source"),
             ShortStr("RoutingKey"), Bits(<<"NoWait">>), Table("Arguments")>>)

ExchangeBindOk == Both(<<>>)

ExchangeUnbind ==
    Method(<<Short("Reserved1"), ShortStr("Destination"),
             ShortStr("Source"), ShortStr("RoutingKey"), Bits(<<"NoWait">>),
             Table("Arguments")>>,
           <<Reserved(2), ShortStr("Destination"), ShortStr("Source"),
             ShortStr("RoutingKey"), Bits(<<"NoWait">>), Table("Arguments")>>)

ExchangeUnbindOk == Both(<<>>)

QueueDeclare ==
    Method(<<Short("Reserved1"), ShortStr("Queue"),
             Bits(<<"Passive", "Durable", "Exclusive", "AutoDelete", "NoWait">>),
             Table("Arguments")>>,
           <<Reserved(2), ShortStr("Queue"),
             Bits(<<"Passive", "Durable", "Exclusive", "AutoDelete", "NoWait">>),
             Table("Arguments")>>)

QueueDeclareOk ==
    Both(<<ShortStr("Queue"), Long("MessageCount"), Long("ConsumerCount")>>)

QueueBind ==
    Method(<<Short("Reserved1"), ShortStr("Queue"), ShortStr("Exchange"),
             ShortStr("RoutingKey"), Bits(<<"NoWait">>), Table("Arguments")>>,
           <<Reserved(2), ShortStr("Queue"), ShortStr("Exchange"),
             ShortStr("RoutingKey"), Bits(<<"NoWait">>), Table("Arguments")>>)

QueueBindOk == Both(<<>>)

QueueUnbind ==
    Method(<<Short("Reserved1"), ShortStr("Queue"), ShortStr("Exchange"),
             ShortStr("RoutingKey"), Table("Arguments")>>,
           <<Reserved(2), ShortStr("Queue"), ShortStr("Exchange"),
             ShortStr("RoutingKey"), Table("Arguments")>>)

QueueUnbindOk == Both(<<>>)

QueuePurge ==
    Method(<<Short("Reserved1"), ShortStr("Queue"), Bits(<<"NoWait">>)>>,
           <<Reserved(2), ShortStr("Queue"), Bits(<<"NoWait">>)>>)

QueuePurgeOk == Both(<<Long("MessageCount")>>)

QueueDelete ==
    Method(<<Short("Reserved1"), ShortStr("Queue"),
             Bits(<<"IfUnused", "IfEmpty", "NoWait">>)>>,
           <<Reserved(2), ShortStr("Queue"),
             Bits(<<"IfUnused", "IfEmpty", "NoWait">>)>>)

QueueDeleteOk == Both(<<Long("MessageCount")>>)

BasicQos ==
    Both(<<Long("PrefetchSize"), Short("PrefetchCount"), Bits(<<"Global">>)>>)

BasicQosOk == Both(<<>>)

BasicConsume ==
    Method(<<Short("Reserved1"), ShortStr("Queue"), ShortStr("ConsumerTag"),
             Bits(<<"NoLocal", "NoAck", "Exclusive", "NoWait">>),
             Table("Arguments")>>,
           <<Reserved(2), ShortStr("Queue"), ShortStr("ConsumerTag"),
             Bits(<<"NoLocal", "NoAck", "Exclusive", "NoWait">>),
             Table("Arguments")>>)

BasicConsumeOk == Both(<<ShortStr("ConsumerTag")>>)

BasicCancel == Both(<<ShortStr("ConsumerTag"), Bits(<<"NoWait">>)>>)

BasicCancelOk == Both(<<ShortStr("ConsumerTag")>>)

BasicPublish ==
    Method(<<Short("Reserved1"), ShortStr("Exchange"),
             ShortStr("RoutingKey"), Bits(<<"Mandatory", "Immediate">>)>>,
           <<Reserved(2), ShortStr("Exchange"), ShortStr("RoutingKey"),
             Bits(<<"Mandatory", "Immediate">>)>>)

BasicReturn ==
    Both(<<Short("ReplyCode"), ShortStr("ReplyText"), ShortStr("Exchange"),
           ShortStr("RoutingKey")>>)

BasicDeliver ==
    Both(<<ShortStr("ConsumerTag"), LongLong("DeliveryTag"),
           Bits(<<"Redelivered">>), ShortStr("Exchange"),
           ShortStr("RoutingKey")>>)

BasicGet ==
    Method(<<Short("Reserved1"), ShortStr("Queue"), Bits(<<"NoAck">>)>>,
           <<Reserved(2), ShortStr("Queue"), Bits(<<"NoAck">>)>>)

BasicGetOk ==
    Both(<<LongLong("DeliveryTag"), Bits(<<"Redelivered">>),
           ShortStr("Exchange"), ShortStr("RoutingKey"),
           Long("MessageCount")>>)

BasicGetEmpty == Method(<<ShortStr("Reserved1")>>, <<Reserved(1)>>)

BasicAck == Both(<<LongLong("DeliveryTag"), Bits(<<"Multiple">>)>>)

BasicReject == Both(<<LongLong("DeliveryTag"), Bits(<<"Requeue">>)>>)

BasicRecoverAsync == Both(<<Bits(<<"Requeue">>)>>)

BasicRecover == Both(<<Bits(<<"Requeue">>)>>)

BasicRecoverOk == Both(<<>>)

BasicNack == Both(<<LongLong("DeliveryTag"), Bits(<<"Multiple", "Requeue">>)>>)

ConfirmSelect == Both(<<Bits(<<"NoWait">>)>>)

ConfirmSelectOk == Both(<<>>)

TxSelect == Both(<<>>)

TxSelectOk == Both(<<>>)

TxCommit == Both(<<>>)

TxCommitOk == Both(<<>>)

TxRollback == Both(<<>>)

TxRollbackOk == Both(<<>>)
(***************************************************************************)
(* Class and method numbers.                                               *)
(***************************************************************************)
ConnectionIDs ==
    [ConnectionStart |-> 10, ConnectionStartOk |-> 11, ConnectionSecure |-> 20,
     ConnectionSecureOk |-> 21, ConnectionTune |-> 30, ConnectionTuneOk |-> 31,
     ConnectionOpen |-> 40, ConnectionOpenOk |-> 41, ConnectionClose |-> 50,
     ConnectionCloseOk |-> 51]

ChannelIDs ==
    [ChannelOpen |-> 10, ChannelOpenOk |-> 11, ChannelFlow |-> 20,
     ChannelFlowOk |-> 21, ChannelClose |-> 40, ChannelCloseOk |-> 41]

ExchangeIDs ==
    [ExchangeDeclare |-> 10, ExchangeDeclareOk |-> 11, ExchangeDelete |-> 20,
     ExchangeDeleteOk |-> 21, ExchangeBind |-> 30, ExchangeBindOk |-> 31,
     ExchangeUnbind |-> 40, ExchangeUnbindOk |-> 51]

QueueIDs ==
    [QueueDeclare |-> 10, QueueDeclareOk |-> 11, QueueBind |-> 20,
     QueueBindOk |-> 21, QueuePurge |-> 30, QueuePurgeOk |-> 31,
     QueueDelete |-> 40, QueueDeleteOk |-> 41, QueueUnbind |-> 50,
     QueueUnbindOk |-> 51]

BasicIDs ==
    [BasicQos |-> 10, BasicQosOk |-> 11, BasicConsume |-> 20,
     BasicConsumeOk |-> 21, BasicCancel |-> 30, BasicCancelOk |-> 31,
     BasicPublish |-> 40, BasicReturn |-> 50, BasicDeliver |-> 60,
     BasicGet |-> 70, BasicGetOk |-> 71, BasicGetEmpty |-> 72,
     BasicAck |-> 80, BasicReject |-> 90, BasicRecoverAsync |-> 100,
     BasicRecover |-> 110, BasicRecoverOk |-> 111, BasicNack |-> 120]

ConfirmIDs == [ConfirmSelect |-> 10, ConfirmSelectOk |-> 11]

TxIDs ==
    [TxSelect |-> 10, TxSelectOk |-> 11, TxCommit |-> 20, TxCommitOk |-> 21,
     TxRollback |-> 30, TxRollbackOk |-> 31]

ClassIDs ==
    [Connection |-> 10, Channel |-> 20, Exchange |-> 40, Queue |-> 50,
     Basic |-> 60, Confirm |-> 85, Tx |-> 90]

Methods ==
    [ConnectionStart |-> ConnectionStart, ConnectionStartOk |-> ConnectionStartOk,
     ConnectionSecure |-> ConnectionSecure,
     ConnectionSecureOk |-> ConnectionSecureOk, ConnectionTune |-> ConnectionTune,
     ConnectionTuneOk |-> ConnectionTuneOk, ConnectionOpen |-> ConnectionOpen,
     ConnectionOpenOk |-> ConnectionOpenOk, ConnectionClose |-> ConnectionClose,
     ConnectionCloseOk |-> ConnectionCloseOk, ChannelOpen |-> ChannelOpen,
     ChannelOpenOk |-> ChannelOpenOk, ChannelFlow |-> ChannelFlow,
     ChannelFlowOk |-> ChannelFlowOk, ChannelClose |-> ChannelClose,
     ChannelCloseOk |-> ChannelCloseOk, ExchangeDeclare |-> ExchangeDeclare,
     ExchangeDeclareOk |-> ExchangeDeclareOk, ExchangeDelete |-> ExchangeDelete,
     ExchangeDeleteOk |-> ExchangeDeleteOk, ExchangeBind |-> ExchangeBind,
     ExchangeBindOk |-> ExchangeBindOk, ExchangeUnbind |-> ExchangeUnbind,
     ExchangeUnbindOk |-> ExchangeUnbindOk, QueueDeclare |-> QueueDeclare,
     QueueDeclareOk |-> QueueDeclareOk, QueueBind |-> QueueBind,
     QueueBindOk |-> QueueBindOk, QueueUnbind |-> QueueUnbind,
     QueueUnbindOk |-> QueueUnbindOk, QueuePurge |-> QueuePurge,
     QueuePurgeOk |-> QueuePurgeOk, QueueDelete |-> QueueDelete,
     QueueDeleteOk |-> QueueDeleteOk, BasicQos |-> BasicQos,
     BasicQosOk |-> BasicQosOk, BasicConsume |-> BasicConsume,
     BasicConsumeOk |-> BasicConsumeOk, BasicCancel |-> BasicCancel,
     BasicCancelOk |-> BasicCancelOk, BasicPublish |-> BasicPublish,
     BasicReturn |-> BasicReturn, BasicDeliver |-> BasicDeliver,
     BasicGet |-> BasicGet, BasicGetOk |-> BasicGetOk,
     BasicGetEmpty |-> BasicGetEmpty, BasicAck |-> BasicAck,
     BasicReject |-> BasicReject, BasicRecoverAsync |-> BasicRecoverAsync,
     BasicRecover |-> BasicRecover, BasicRecoverOk |-> BasicRecoverOk,
     BasicNack |-> BasicNack, ConfirmSelect |-> ConfirmSelect,
     ConfirmSelectOk |-> ConfirmSelectOk, TxSelect |-> TxSelect,
     TxSelectOk |-> TxSelectOk, TxCommit |-> TxCommit, TxCommitOk |-> TxCommitOk,
     TxRollback |-> TxRollback, TxRollbackOk |-> TxRollbackOk]

\* The method structs of each class, by number.
ClassMethods(class) ==
    CASE class = ClassIDs.Connection -> ConnectionIDs
      [] class = ClassIDs.Channel -> ChannelIDs
      [] class = ClassIDs.Exchange -> ExchangeIDs
      [] class = ClassIDs.Queue -> QueueIDs
      [] class = ClassIDs.Basic -> BasicIDs
      [] class = ClassIDs.Confirm -> ConfirmIDs
      [] class = ClassIDs.Tx -> TxIDs
      [] OTHER -> [n \in {} |-> 0]

ClassOf(name) ==
    CHOOSE class \in {ClassIDs[c] : c \in DOMAIN ClassIDs} :
        name \in DOMAIN ClassMethods(class)

(***************************************************************************)
(* Field tables.  A table is the sequence of the Go types of its values;   *)
(* each tag stands for a type and the width of its value, 0 for a value    *)
(* with a length of its own.                                               *)
(***************************************************************************)
WriteTags ==
    [bool |-> <<"t", 1>>, int8 |-> <<"b", 1>>, byte |-> <<"B", 1>>,
     int16 |-> <<"u", 2>>, uint16 |-> <<"U", 2>>, int32 |-> <<"I", 4>>,
     int |-> <<"I", 4>>, int64 |-> <<"l", 8>>, float32 |-> <<"f", 4>>,
     uint64 |-> <<"T", 8>>, float64 |-> <<"d", 8>>, Decimal |-> <<"D", 5>>,
     string |-> <<"S", 0>>, map |-> <<"F", 0>>, slice |-> <<"A", 0>>,
     bytes |-> <<"x", 0>>, nil |-> <<"V", 0>>]

ReadTags ==
    [t |-> <<"bool", 1>>, b |-> <<"int8", 1>>, B |-> <<"byte", 1>>,
     u |-> <<"int16", 2>>, U |-> <<"uint16", 2>>, I |-> <<"int32", 4>>,
     i |-> <<"int32", 4>>, l |-> <<"int64", 8>>, f |-> <<"float32", 4>>,
     d |-> <<"float64", 8>>, D |-> <<"Decimal", 5>>, s |-> <<"string", 0>>,
     S |-> <<"string", 0>>, T |-> <<"uint64", 8>>, F |-> <<"map", 0>>,
     A |-> <<"slice", 0>>, V |-> <<"nil", 0>>, x |-> <<"bytes", 0>>]

Nested == <<"int32", "nil">>   \* what a map or a slice inside a table holds

Lengthed(body) == Num(Len(body), 4) \o body

RECURSIVE WriteFieldValue(_), WriteTable(_), WriteArray(_)

WriteFieldValue(t) ==
    Raw(WriteTags[t][1], 1) \o
        (CASE t = "map" -> WriteTable(Nested)
           [] t = "slice" -> WriteArray(Nested)
           [] t \in {"string", "bytes"} -> Num(StrLen, 4) \o Raw(t, StrLen)
           [] OTHER -> Raw(t, WriteTags[t][2]))

WriteTable(ts) ==
    Lengthed(Concat([i \in DOMAIN ts |->
                 Num(StrLen, 1) \o Raw("key", StrLen) \o WriteFieldValue(ts[i])]))

WriteArray(ts) == Lengthed(Concat([i \in DOMAIN ts |-> WriteFieldValue(ts[i])]))

\* Reading appends the types found to the field f.
Found(rd, f, t) == Store(rd, f, Append(Get(rd.m, f), t))

\* The type with the value v read at r, garbled if the bytes were not such a value.
Typed(r, f, type, v) ==
    IF \/ Get(v.m, f) = <<Garbled>>
       \/ type \in {"map", "slice"} /\ Get(v.m, f) # Nested
    THEN Found(v, f, Garbled)
    ELSE [Found(r, f, type) EXCEPT !.in = v.in, !.st = v.st]

RECURSIVE ReadEntries(_, _, _)

ReadWithin(r, f, keyed, n) ==
    IF ~ Holds(r, n) THEN Fail(r, "eof")
    ELSE [ReadEntries([r EXCEPT !.in = Ahead(r, n)], f, keyed) EXCEPT !.in = Skip(r, n).in]

\* A length of 4 bytes, then entries until those bytes are used up.
ReadLengthed(rd, f, keyed) ==
    IF ~ Holds(rd, 4) \/ ~ IsNum(Ahead(rd, 4)) THEN Fail(rd, "eof")
    ELSE ReadWithin(Skip(rd, 4), f, keyed, NumOf(Ahead(rd, 4)))

ReadTagged(r, f, tag, e) ==
    Typed(r, f, e[1],
          CASE e[1] \in {"map", "slice"} ->
                 ReadLengthed([r EXCEPT !.m = NoFields], f, e[1] = "map")
            [] tag = "s" -> ReadStr(r, f, 1)
            [] e[1] \in {"string", "bytes"} -> ReadStr(r, f, 4)
            [] OTHER -> ReadVal(r, f, e[2]))

ReadFieldValue(rd, f) ==
    IF ~ Holds(rd, 1) \/ rd.in[1].s \notin DOMAIN ReadTags
    THEN Fail(rd, "unsupported field type")
    ELSE ReadTagged(Skip(rd, 1), f, rd.in[1].s, ReadTags[rd.in[1].s])

ReadKey(rd, keyed) == IF keyed THEN ReadStr(rd, "key", 1) ELSE rd

ReadEntries(rd, f, keyed) ==
    IF ~ Ok(rd) \/ rd.in = <<>> THEN rd
    ELSE ReadEntries(ReadFieldValue([ReadKey(rd, keyed) EXCEPT !.m = rd.m], f), f, keyed)

\* ReadTable.
ReadTable(rd, f) == ReadLengthed(rd, f, TRUE)

(***************************************************************************)
(* The fields of one method, in the order of its tables.                   *)
(***************************************************************************)
WriteField(m, fd) ==
    CASE fd[1] = "val" -> WriteVal(m, fd[2], fd[3])
      [] fd[1] = "str" -> WriteStr(m, fd[2], fd[3])
      [] fd[1] = "table" -> WriteTable(Get(m, fd[2]))
      [] fd[1] = "bits" -> <<Digit(BitsOf(m, InOrder(fd[2])))>>
      [] OTHER -> Zeros(fd[3])

ReadField(rd, fd) ==
    CASE fd[1] = "val" -> ReadVal(rd, fd[2], fd[3])
      [] fd[1] = "str" -> ReadStr(rd, fd[2], fd[3])
      [] fd[1] = "table" -> ReadTable(rd, fd[2])
      [] OTHER -> IF ~ Holds(rd, 1) \/ ~ IsNum(Ahead(rd, 1)) THEN Fail(rd, "eof")
                  ELSE StoreBits(Skip(rd, 1), rd.in[1].k, InOrder(fd[2]))

WriteFields(m, fds) == Concat([i \in DOMAIN fds |-> WriteField(m, fds[i])])

RECURSIVE ReadFields(_, _)
ReadFields(rd, fds) ==
    IF ~ Ok(rd) \/ fds = <<>> THEN rd ELSE ReadFields(ReadField(rd, Head(fds)), Tail(fds))

(***************************************************************************)
(* Content headers: a flag bit for each property, and the properties whose *)
(* bits are set (amqp/codec/properties.go).                                *)
(***************************************************************************)
FlagBits ==
    <<<<"ContentType", 15>>, <<"ContentEncoding", 14>>, <<"Headers", 13>>,
      <<"DeliveryMode", 12>>, <<"Priority", 11>>, <<"CorrelationID", 10>>,
      <<"ReplyTo", 9>>, <<"Expiration", 8>>, <<"MessageID", 7>>,
      <<"Timestamp", 6>>, <<"Type", 5>>, <<"UserID", 4>>, <<"AppID", 3>>,
      <<"ClusterID", 2>>>>

\* BasicProperties.Flags.
Flags(m) == BitsOf(m, FlagBits)

PropertiesWritten ==
    <<ShortStr("ContentType"), ShortStr("ContentEncoding"), Table("Headers"),
      Octet("DeliveryMode"), Octet("Priority"), ShortStr("CorrelationID"),
      ShortStr("ReplyTo"), ShortStr("Expiration"), ShortStr("MessageID"),
      LongLong("Timestamp"), ShortStr("Type"), ShortStr("UserID"),
      ShortStr("AppID"), ShortStr("ClusterID")>>

PropertiesRead ==
    <<ShortStr("ContentType"), ShortStr("ContentEncoding"), Table("Headers"),
      Octet("DeliveryMode"), Octet("Priority"), ShortStr("CorrelationID"),
      ShortStr("ReplyTo"), ShortStr("Expiration"), ShortStr("MessageID"),
      LongLong("Timestamp"), ShortStr("Type"), ShortStr("UserID"),
      ShortStr("AppID"), ShortStr("ClusterID")>>

HeaderFixed == <<Short("ClassID"), Short("Weight"), LongLong("BodySize")>>

Flagged(flags, f) ==
    \E b \in Range(FlagBits) : b[1] = f /\ (flags \div 2^b[2]) % 2 = 1

WriteContentHeader(m) ==
    WriteFields(m, HeaderFixed) \o Num(Flags(m), 2) \o
        WriteFields(m, SelectSeq(PropertiesWritten,
                                 LAMBDA fd : Flagged(Flags(m), fd[2])))

ReadProperties(r) ==
    IF ~ Ok(r) \/ ~ Holds(r, 2) \/ ~ IsNum(Ahead(r, 2)) THEN Fail(r, "eof")
    ELSE ReadFields(Skip(r, 2),
                    SelectSeq(PropertiesRead,
                              LAMBDA fd : Flagged(NumOf(Ahead(r, 2)), fd[2])))

ReadContentHeader(rd) == ReadProperties(ReadFields(rd, HeaderFixed))

(***************************************************************************)
(* Frames (amqp/codec/frame.go).                                           *)
(***************************************************************************)
FrameTypes == [Method |-> 1, Header |-> 2, Body |-> 3, Heartbeat |-> 8]

FrameEnd == 206

WriteFrame(type, payload) ==
    <<Digit(type)>> \o Raw("Channel", 2) \o Num(Len(payload), 4) \o payload \o
        <<Digit(FrameEnd)>>

\* The payload of the frame at the head of the connection, and what follows.
ReadFrame(bs) ==
    LET head == IF Len(bs) < 7 THEN <<>> ELSE SubSeq(bs, 4, 7)
        n    == NumOf(head)
    IN  IF head = <<>> \/ ~ IsNum(head) \/ Len(bs) < n + 8 THEN [ok |-> FALSE]
        ELSE IF bs[n + 8] # Digit(FrameEnd) THEN [ok |-> FALSE]
        ELSE [ok |-> TRUE, type |-> bs[1].k, payload |-> SubSeq(bs, 8, n + 7),
              rest |-> SubSeq(bs, n + 9, Len(bs))]

AmqpEncode(kind, m) ==
    CASE kind = "ContentHeader" -> WriteFrame(FrameTypes.Header, WriteContentHeader(m))
      [] kind = "Body" -> WriteFrame(FrameTypes.Body, WriteVal(m, "Body", StrLen))
      [] kind = "Heartbeat" -> WriteFrame(FrameTypes.Heartbeat, <<>>)
      [] OTHER ->
           WriteFrame(FrameTypes.Method,
                      Num(ClassOf(kind), 2) \o Num(ClassMethods(ClassOf(kind))[kind], 2)
                          \o WriteFields(m, Methods[kind].write))

NoFrame == [kind |-> "error", rd |-> Reader(<<>>)]

MethodNames(methods, id) == {n \in DOMAIN methods : methods[n] = id}

DecodeNamed(bs, name) == [kind |-> name, rd |-> ReadFields(Reader(bs), Methods[name].read)]

DecodeBody(bs, names) ==
    IF names = {} THEN NoFrame ELSE DecodeNamed(bs, CHOOSE n \in names : TRUE)

\* decodeMethod and decodeMethodSwitch.
DecodeMethod(bs) ==
    IF Len(bs) < 4 THEN NoFrame
    ELSE DecodeBody(SubSeq(bs, 5, Len(bs)),
                    MethodNames(ClassMethods(NumOf(SubSeq(bs, 1, 2))), NumOf(SubSeq(bs, 3, 4))))

\* Frame.Decode.
DecodeFrame(fr) ==
    CASE fr.type = FrameTypes.Method -> DecodeMethod(fr.payload)
      [] fr.type = FrameTypes.Header ->
           [kind |-> "ContentHeader", rd |-> ReadContentHeader(Reader(fr.payload))]
      [] fr.type = FrameTypes.Body ->
           [kind |-> "Body",
            rd |-> Store(Reader(<<>>), "Body", ValueOf(fr.payload))]
      [] fr.type = FrameTypes.Heartbeat -> [kind |-> "Heartbeat", rd |-> Reader(<<>>)]
      [] OTHER -> NoFrame

Decoded(d, rest) ==
    [kind |-> IF Ok(d.rd) THEN d.kind ELSE "error", m |-> d.rd.m, rest |-> rest]

DecodeRead(fr) == IF fr.ok THEN Decoded(DecodeFrame(fr), fr.rest) ELSE Decoded(NoFrame, <<>>)

AmqpDecode(bs) == DecodeRead(ReadFrame(bs))

(***************************************************************************)
(* The messages to send: every kind, with no field, all fields or up to    *)
(* two of the fields its Write takes from the struct.                      *)
(***************************************************************************)
AmqpKinds == DOMAIN Methods \cup {"ContentHeader", "Body", "Heartbeat"}

AmqpFields(kind) ==
    LET fds == CASE kind = "ContentHeader" -> HeaderFixed \o PropertiesWritten
                 [] kind = "Body" -> <<Octet("Body")>>
                 [] kind = "Heartbeat" -> <<>>
                 [] OTHER -> Methods[kind].write
    IN  {fds[i] : i \in {j \in DOMAIN fds : fds[j][1] \notin {"zero"}}}

AmqpNames(kind) ==
    UNION {IF fd[1] = "bits" THEN Range(fd[2]) ELSE {fd[2]} : fd \in AmqpFields(kind)}

\* int is written with the tag of int32 and so comes back as int32.
GoTypes ==
    <<"bool", "int8", "byte", "int16", "uint16", "int32", "int64", "float32",
      "uint64", "float64", "Decimal", "string", "map", "slice", "bytes", "nil">>

AmqpFill(kind, S) ==
    LET tables == {fd[2] : fd \in {x \in AmqpFields(kind) : x[1] = "table"}}
    IN  [f \in S |-> IF f \in tables THEN GoTypes ELSE <<f>>]

AmqpSamples(kind) ==
    {AmqpFill(kind, S) : S \in Selections(AmqpNames(kind))}
=============================================================================
