------------------------------ MODULE Amqp1Wire ------------------------------
(***************************************************************************)
(* The AMQP 1.0 wire format: typed values (amqp1/types), performatives,    *)
(* outcomes, sources, targets and errors (amqp1/performatives), message    *)
(* sections (amqp1/message), SASL bodies (amqp1/sasl), frames              *)
(* (amqp1/frames), the splitting of a transfer over frames                 *)
(* (amqp1/connection.go) and its reassembly (amqp1/broker/connection.go).  *)
(*                                                                         *)
(* A described list is a table of the entries its Encode writes, in order, *)
(* and of the entries its decoder takes, by index.  The fields of a nested *)
(* list (a Source, an Error) are fields of the message, with a marker for  *)
(* the list itself.  Bytes, fields and readers are those of Wire.          *)
(***************************************************************************)
EXTENDS Wire

Small == "small"   \* a number that fits one byte
Zero  == "zero"    \* a pointer to zero, as opposed to nil

(***************************************************************************)
(* Type codes (amqp1/types/types.go) and the Go types they stand for.      *)
(***************************************************************************)
TypeNull == 64
TypeBoolTrue == 65
TypeBoolFalse == 66
TypeList0 == 69
TypeList32 == 208
TypeMap32 == 209
TypeArray32 == 240
TypeDescriptor == 0

\* Numbers: <<Go type, code for zero, code and width of the small form, code
\* and width of the wide form>>; 0 where there is no such form.
Numbers ==
    [ubyte |-> <<"uint8", 0, 0, 80, 1>>, ushort |-> <<"uint16", 0, 0, 96, 2>>,
     uint |-> <<"uint32", 67, 82, 112, 4>>, ulong |-> <<"uint64", 68, 83, 128, 8>>,
     byte |-> <<"int8", 0, 0, 81, 1>>, short |-> <<"int16", 0, 0, 97, 2>>,
     int |-> <<"int32", 0, 84, 113, 4>>, long |-> <<"int64", 0, 85, 129, 8>>,
     float |-> <<"float32", 0, 0, 114, 4>>, double |-> <<"float64", 0, 0, 130, 8>>,
     timestamp |-> <<"Timestamp", 0, 0, 131, 8>>, uuid |-> <<"UUID", 0, 0, 152, 16>>]

\* Texts: <<Go type, code of the short form, code of the long form>>.
Texts == [binary |-> <<"bytes", 160, 176>>, string |-> <<"string", 161, 177>>,
          symbol |-> <<"Symbol", 163, 179>>]

(***************************************************************************)
(* Writing values (amqp1/types/encode.go).  The value "" is zero, false or *)
(* empty.                                                                  *)
(***************************************************************************)
WriteNull == <<Digit(TypeNull)>>

WriteBool(v) == <<Digit(IF v = "" THEN TypeBoolFalse ELSE TypeBoolTrue)>>

\* WriteUbyte .. WriteUUID: zero and small forms where the type has them.
WriteNumber(t, v) ==
    LET bytes(w) == IF v \in {"", Zero} THEN Zeros(w) ELSE Raw(v, w)
        form(n) == CASE n[2] # 0 /\ v \in {"", Zero} -> <<Digit(n[2])>>
                     [] n[3] # 0 /\ (v = Small \/ (v \in {"", Zero} /\ n[2] = 0)) ->
                          <<Digit(n[3])>> \o bytes(1)
                     [] OTHER -> <<Digit(n[4])>> \o bytes(n[5])
    IN  form(Numbers[t])

\* WriteBinary, WriteString and WriteSymbol.
WriteText(t, v) ==
    LET sized(body) == IF Len(body) <= 255
                       THEN <<Digit(Texts[t][2])>> \o Num(Len(body), 1) \o body
                       ELSE <<Digit(Texts[t][3])>> \o Num(Len(body), 4) \o body
    IN  sized(IF v = "" THEN <<>> ELSE Text(v))

WriteTyped(t, v) ==
    CASE t = "bool" -> WriteBool(v)
      [] t \in DOMAIN Numbers -> WriteNumber(t, v)
      [] OTHER -> WriteText(t, v)

WriteDescriptor(code) == <<Digit(TypeDescriptor), Digit(Numbers["ulong"][3]), Digit(code)>>

WriteList(items) ==
    LET list(body) == IF items = <<>> THEN <<Digit(TypeList0)>>
                      ELSE <<Digit(TypeList32)>> \o Num(Len(body) + 4, 4)
                               \o Num(Len(items), 4) \o body
    IN  list(Concat(items))

WriteMap(pairs) ==
    LET map(body) == <<Digit(TypeMap32)>> \o Num(Len(body) + 4, 4)
                         \o Num(2 * Len(pairs), 4) \o body
    IN  map(Concat(pairs))

WriteArray(code, elements) ==
    LET array(body) == <<Digit(TypeArray32)>> \o Num(Len(body) + 5, 4)
                           \o Num(Len(elements), 4) \o <<Digit(code)>> \o body
    IN  array(Concat(elements))

\* The types WriteAny takes; a map is the sequence of the types of its values,
\* and each value, like its key, is named for its type.
AnyTypes == <<"bool", "ubyte", "ushort", "uint", "ulong", "byte", "short", "int",
              "long", "float", "double", "string", "symbol", "binary", "uuid",
              "timestamp", "null">>

WriteAny(t) == IF t = "null" THEN WriteNull ELSE WriteTyped(t, t)

\* WriteStringAnyMap and writeSymbolAnyMap.
WriteAnyMap(key, ts) == WriteMap([i \in DOMAIN ts |-> WriteText(key, ts[i]) \o WriteAny(ts[i])])

\* The code of an array of symbols is that of the long form as soon as one of
\* them needs it.
WriteSymbolArray(vs) ==
    LET sized(v) == Num(SizeOf(v), IF SizeOf(v) <= 255 THEN 1 ELSE 4) \o Text(v)
        short == \A i \in DOMAIN vs : SizeOf(vs[i]) <= 255
    IN  CASE vs = <<>> -> WriteNull
          [] Len(vs) = 1 -> WriteText("symbol", vs[1])
          [] OTHER -> WriteArray(Texts["symbol"][IF short THEN 2 ELSE 3],
                                 [i \in DOMAIN vs |-> sized(vs[i])])

(***************************************************************************)
(* Reading values (amqp1/types/decode.go).  A value read has its Go type,  *)
(* its content, and the values inside it; a described value has its        *)
(* descriptor too.                                                         *)
(***************************************************************************)
Val(go, v) == [go |-> go, v |-> v, d |-> 0, sub |-> <<>>]

Nil == Val("nil", "")

Read(in, val) == [ok |-> TRUE, in |-> in, val |-> val]

Unread == [ok |-> FALSE, in |-> <<>>, val |-> Nil]

\* readN of the n bytes of one value.
ReadFixed(bs, go, n) ==
    LET value(v) == Val(go, IF v = <<>> THEN "" ELSE v[1])
    IN  IF Len(bs) < n THEN Unread
        ELSE Read(SubSeq(bs, n + 1, Len(bs)), value(ValueOf(SubSeq(bs, 1, n))))

\* readVarShort and readVarLong.
ReadVar(bs, go, w) ==
    LET sized(size) == IF Len(bs) < w \/ ~ IsNum(size) THEN Unread
                       ELSE ReadFixed(SubSeq(bs, w + 1, Len(bs)), go, NumOf(size))
    IN  sized(SubSeq(bs, 1, w))

RECURSIVE ReadByCode(_, _), ReadItems(_, _, _)

ReadType(bs) == IF bs = <<>> THEN Unread ELSE ReadByCode(Tail(bs), bs[1].k)

\* A sequence of n values, each with a code of its own unless an array gives it,
\* read by halves so that TLC nests little.
ReadItems(bs, n, code) ==
    LET one(r) == [r EXCEPT !.val = <<@>>]
        both(a, b) == IF b.ok THEN Read(b.in, a.val \o b.val) ELSE Unread
        rest(a) == IF a.ok THEN both(a, ReadItems(a.in, n - n \div 2, code)) ELSE Unread
    IN  CASE n = 0 -> Read(bs, <<>>)
          [] n = 1 -> one(IF code = -1 THEN ReadType(bs) ELSE ReadByCode(bs, code))
          [] OTHER -> rest(ReadItems(bs, n \div 2, code))

\* readList32, readMap32 and readArray32 go by the count and skip the size.
ReadCompound(bs, go) ==
    LET named(r) == [r EXCEPT !.val = [Val(go, "") EXCEPT !.sub = r.val]]
        sized(count, head) ==
            IF Len(bs) < head \/ ~ IsNum(count) THEN Unread
            ELSE named(ReadItems(SubSeq(bs, head + 1, Len(bs)), NumOf(count),
                                 IF go = "array" THEN bs[9].k ELSE -1))
    IN  sized(SubSeq(bs, 5, 8), IF go = "array" THEN 9 ELSE 8)

\* readDescribed: a ulong descriptor, and the value described.
ReadDescribed(bs) ==
    IF Len(bs) < 3 \/ bs[1].k # Numbers["ulong"][3] THEN Unread
    ELSE LET described(r) == [r EXCEPT !.val = [go |-> "described", v |-> "", d |-> bs[2].k,
                                                sub |-> <<r.val>>]]
         IN  described(ReadByCode(SubSeq(bs, 4, Len(bs)), bs[3].k))

\* A number of the row n of Numbers, and a text of the row t of Texts.
ReadNumber(bs, code, n) ==
    CASE code = n[2] -> Read(bs, Val(n[1], ""))
      [] code = n[3] -> ReadFixed(bs, n[1], 1)
      [] code = n[4] -> ReadFixed(bs, n[1], n[5])

ReadText(bs, code, t) == ReadVar(bs, t[1], IF code = t[2] THEN 1 ELSE 4)

ReadScalar(bs, code, numbers, texts) ==
    CASE numbers # {} -> ReadNumber(bs, code, CHOOSE n \in numbers : TRUE)
      [] numbers = {} /\ texts # {} -> ReadText(bs, code, CHOOSE t \in texts : TRUE)
      [] OTHER -> Unread

ReadByCode(bs, code) ==
    CASE code = TypeNull -> Read(bs, Nil)
      [] code = TypeBoolTrue -> Read(bs, Val("bool", "bool"))
      [] code = TypeBoolFalse -> Read(bs, Val("bool", ""))
      [] code = TypeDescriptor -> ReadDescribed(bs)
      [] code = TypeList0 -> Read(bs, Val("list", ""))
      [] code = TypeList32 -> ReadCompound(bs, "list")
      [] code = TypeMap32 -> ReadCompound(bs, "map")
      [] code = TypeArray32 -> ReadCompound(bs, "array")
      [] OTHER -> ReadScalar(bs, code, {n \in Range(Numbers) : code \in {n[2], n[3], n[4]}},
                             {t \in Range(Texts) : code \in {t[2], t[3]}})

(***************************************************************************)
(* Described lists.  An entry of a write table is <<how, type, field>>, an *)
(* entry of a read table <<index, how, field>>.                            *)
(***************************************************************************)
Always(t, f)  == <<"always", t, f>>    \* zero, false or empty when not set
Opt(t, f)     == <<"opt", t, f>>       \* null when not set
Ptr(t, f)     == <<"ptr", t, f>>       \* null when nil
Dflt(t, f)    == <<"dflt", t, f>>      \* a default when not set
Sender(t, f)  == <<"sender", t, f>>    \* null when Role is set
Null          == <<"null", "", "">>
Sub(f)        == <<"sub", "", f>>      \* the described list f, or null
State(fs)     == <<"state", fs, "">>   \* the described list set of fs, or null
Map(key, f)   == <<"map", key, f>>     \* null when empty
Symbols(f)    == <<"symbols", "", f>>
SymbolsArray(f) == <<"array", "", f>>
Trailing(f, es) == <<"trailing", es, f>>   \* es only when f is set

\* Open.Encode and DecodeOpen.
Open ==
    [code |-> 16,
     write |-> <<Always("string", "ContainerID"), Opt("string", "Hostname"),
                 Dflt("uint", "MaxFrameSize"), Dflt("ushort", "ChannelMax"),
                 Opt("uint", "IdleTimeOut"), Map("symbol", "Properties")>>,
     read |-> <<<<0, "string", "ContainerID">>, <<1, "string", "Hostname">>,
                <<2, "uint32", "MaxFrameSize">>, <<3, "uint32", "ChannelMax">>,
                <<4, "uint32", "IdleTimeOut">>>>]

\* Begin.Encode and DecodeBegin.
Begin ==
    [code |-> 17,
     write |-> <<Ptr("ushort", "RemoteChannel"), Always("uint", "NextOutgoingID"),
                 Always("uint", "IncomingWindow"), Always("uint", "OutgoingWindow"),
                 Dflt("uint", "HandleMax")>>,
     read |-> <<<<0, "ptr", "RemoteChannel">>, <<1, "uint32", "NextOutgoingID">>,
                <<2, "uint32", "IncomingWindow">>, <<3, "uint32", "OutgoingWindow">>,
                <<4, "uint32", "HandleMax">>>>]

\* Attach.Encode.
AttachWrite ==
    <<Always("string", "Name"), Always("uint", "Handle"), Always("bool", "Role"),
      Ptr("ubyte", "SndSettleMode"), Ptr("ubyte", "RcvSettleMode"), Sub("Source"),
      Sub("Target"), Null, Null, Sender("uint", "InitialDeliveryCount"),
      Opt("ulong", "MaxMessageSize"),
      Trailing("Properties", <<Null, Null, Map("string", "Properties")>>)>>

\* DecodeAttach.
AttachRead ==
    <<<<0, "string", "Name">>, <<1, "uint32", "Handle">>, <<2, "bool", "Role">>,
      <<3, "ptr", "SndSettleMode">>, <<4, "ptr", "RcvSettleMode">>,
      <<5, "sub", "Source">>, <<6, "sub", "Target">>,
      <<9, "uint32", "InitialDeliveryCount">>, <<10, "uint64", "MaxMessageSize">>,
      <<13, "stringmap", "Properties">>>>

Attach == [code |-> 18, write |-> AttachWrite, read |-> AttachRead]

\* Flow.Encode and DecodeFlow.
Flow ==
    [code |-> 19,
     write |-> <<Ptr("uint", "NextIncomingID"), Always("uint", "IncomingWindow"),
                 Always("uint", "NextOutgoingID"), Always("uint", "OutgoingWindow"),
                 Ptr("uint", "Handle"), Ptr("uint", "DeliveryCount"),
                 Ptr("uint", "LinkCredit"), Ptr("uint", "Available"),
                 Always("bool", "Drain"), Always("bool", "Echo")>>,
     read |-> <<<<0, "ptr", "NextIncomingID">>, <<1, "uint32", "IncomingWindow">>,
                <<2, "uint32", "NextOutgoingID">>, <<3, "uint32", "OutgoingWindow">>,
                <<4, "ptr", "Handle">>, <<5, "ptr", "DeliveryCount">>,
                <<6, "ptr", "LinkCredit">>, <<7, "ptr", "Available">>,
                <<8, "bool", "Drain">>, <<9, "bool", "Echo">>>>]

\* Transfer.Encode and DecodeTransfer.
Transfer ==
    [code |-> 20,
     write |-> <<Always("uint", "Handle"), Ptr("uint", "DeliveryID"),
                 Opt("binary", "DeliveryTag"), Ptr("uint", "MessageFormat"),
                 Always("bool", "Settled"), Always("bool", "More")>>,
     read |-> <<<<0, "uint32", "Handle">>, <<1, "ptr", "DeliveryID">>,
                <<2, "bytes", "DeliveryTag">>, <<3, "ptr", "MessageFormat">>,
                <<4, "bool", "Settled">>, <<5, "bool", "More">>,
                <<6, "ptr", "RcvSettleMode">>>>]

Outcomes == <<"Accepted", "Rejected", "Released", "Modified">>

\* Disposition.Encode with encodeOutcome, DecodeDisposition.
Disposition ==
    [code |-> 21,
     write |-> <<Always("bool", "Role"), Always("uint", "First"), Ptr("uint", "Last"),
                 Always("bool", "Settled"), State(Outcomes), Always("bool", "Batchable")>>,
     read |-> <<<<0, "bool", "Role">>, <<1, "uint32", "First">>, <<2, "ptr", "Last">>,
                <<3, "bool", "Settled">>, <<4, "state", "State">>,
                <<5, "bool", "Batchable">>>>]

\* Detach.Encode and DecodeDetach.
Detach ==
    [code |-> 22,
     write |-> <<Always("uint", "Handle"), Always("bool", "Closed"), Sub("Error")>>,
     read |-> <<<<0, "uint32", "Handle">>, <<1, "bool", "Closed">>, <<2, "sub", "Error">>>>]

\* End.Encode and DecodeEnd: no field at all without an error.
End == [code |-> 23, write |-> <<Trailing("Error", <<Sub("Error")>>)>>,
        read |-> <<<<0, "sub", "Error">>>>]

\* Close.Encode and DecodeClose.
Close == [code |-> 24, write |-> <<Trailing("Error", <<Sub("Error")>>)>>,
          read |-> <<<<0, "sub", "Error">>>>]

\* Error.Encode and DecodeError.
Error ==
    [code |-> 29,
     write |-> <<Always("symbol", "Condition"), Opt("string", "Description"),
                 Map("symbol", "Info")>>,
     read |-> <<<<0, "Symbol", "Condition">>, <<1, "string", "Description">>,
                <<2, "symbolmap", "Info">>>>]

Accepted == [code |-> 36, write |-> <<>>, read |-> <<>>]

Rejected == [code |-> 37, write |-> <<Sub("Error")>>, read |-> <<<<0, "sub", "Error">>>>]

Released == [code |-> 38, write |-> <<>>, read |-> <<>>]

Modified ==
    [code |-> 39,
     write |-> <<Always("bool", "DeliveryFailed"), Always("bool", "UndeliverableHere")>>,
     read |-> <<<<0, "bool", "DeliveryFailed">>, <<1, "bool", "UndeliverableHere">>>>]

\* Source.Encode and DecodeSource.
Source ==
    [code |-> 40,
     write |-> <<Opt("string", "SourceAddress"), Always("uint", "SourceDurable"),
                 Dflt("symbol", "SourceExpiryPolicy"), Always("uint", "SourceTimeout"),
                 Always("bool", "SourceDynamic"),
                 Trailing("SourceCapabilities",
                          <<Null, Null, Null, Null, Null, Symbols("SourceCapabilities")>>)>>,
     read |-> <<<<0, "string", "SourceAddress">>, <<1, "uint32", "SourceDurable">>,
                <<2, "Symbol", "SourceExpiryPolicy">>, <<3, "uint32", "SourceTimeout">>,
                <<4, "bool", "SourceDynamic">>, <<6, "Symbol", "DistributionMode">>,
                <<10, "symbols", "SourceCapabilities">>>>]

\* Target.Encode and DecodeTarget.
Target ==
    [code |-> 41,
     write |-> <<Opt("string", "TargetAddress"), Always("uint", "TargetDurable"),
                 Dflt("symbol", "TargetExpiryPolicy"), Always("uint", "TargetTimeout"),
                 Always("bool", "TargetDynamic"),
                 Trailing("TargetCapabilities", <<Null, Symbols("TargetCapabilities")>>)>>,
     read |-> <<<<0, "string", "TargetAddress">>, <<1, "uint32", "TargetDurable">>,
                <<2, "Symbol", "TargetExpiryPolicy">>, <<3, "uint32", "TargetTimeout">>,
                <<4, "bool", "TargetDynamic">>, <<6, "symbols", "TargetCapabilities">>>>]

\* sasl.Mechanisms, Init and Outcome, and their part of DecodeSASL.
Mechanisms == [code |-> 64, write |-> <<SymbolsArray("Mechanisms")>>,
               read |-> <<<<0, "array", "Mechanisms">>>>]

Init ==
    [code |-> 65,
     write |-> <<Always("symbol", "Mechanism"), Opt("binary", "InitialResponse"),
                 Opt("string", "Hostname")>>,
     read |-> <<<<0, "Symbol", "Mechanism">>, <<1, "bytes", "InitialResponse">>,
                <<2, "string", "Hostname">>>>]

Outcome == [code |-> 68, write |-> <<Always("ubyte", "Code"), Opt("binary", "AdditionalData")>>,
            read |-> <<<<0, "uint8", "Code">>, <<1, "bytes", "AdditionalData">>>>]

\* encodeHeader and decodeHeader.
Header ==
    [code |-> 112,
     write |-> <<Always("bool", "Durable"), Always("ubyte", "Priority"),
                 Always("uint", "TTL"), Always("bool", "FirstAcquirer"),
                 Always("uint", "DeliveryCount")>>,
     read |-> <<<<0, "bool", "Durable">>, <<1, "uint8", "Priority">>, <<2, "uint32", "TTL">>,
                <<3, "bool", "FirstAcquirer">>, <<4, "uint32", "DeliveryCount">>>>]

\* encodeProperties and decodeProperties.
Properties ==
    [code |-> 115,
     write |-> <<Opt("string", "MessageID"), Opt("binary", "UserID"), Opt("string", "To"),
                 Opt("string", "Subject"), Opt("string", "ReplyTo"),
                 Opt("ulong", "CorrelationID"), Opt("symbol", "ContentType"),
                 Opt("symbol", "ContentEncoding")>>,
     read |-> <<<<0, "any", "MessageID">>, <<1, "bytes", "UserID">>, <<2, "string", "To">>,
                <<3, "string", "Subject">>, <<4, "string", "ReplyTo">>,
                <<5, "any", "CorrelationID">>, <<6, "Symbol", "ContentType">>,
                <<7, "Symbol", "ContentEncoding">>>>]

Performatives ==
    [Open |-> Open, Begin |-> Begin, Attach |-> Attach, Flow |-> Flow,
     Transfer |-> Transfer, Disposition |-> Disposition, Detach |-> Detach,
     End |-> End, Close |-> Close]

Sasl == [Mechanisms |-> Mechanisms, Init |-> Init, Outcome |-> Outcome]

Nested ==
    [Error |-> Error, Accepted |-> Accepted, Rejected |-> Rejected, Released |-> Released,
     Modified |-> Modified, Source |-> Source, Target |-> Target, Header |-> Header,
     Properties |-> Properties]

(***************************************************************************)
(* Encoding a described list.                                              *)
(***************************************************************************)
RECURSIVE WriteValue(_, _, _), WriteDescribed(_, _)

WriteEntry(m, e) == WriteValue(m, e, IF Has(m, e[3]) THEN m[e[3]][1] ELSE "")

\* The values an entry writes: one, or none for a trailing part left out.
WriteValue(m, e, v) ==
    LET state(set) == IF set = <<>> THEN WriteNull ELSE WriteDescribed(m, Nested[set[1]])
    IN  CASE e[1] = "null" -> <<WriteNull>>
          [] e[1] = "always" -> <<WriteTyped(e[2], v)>>
          [] e[1] \in {"opt", "ptr"} -> <<IF v = "" THEN WriteNull ELSE WriteTyped(e[2], v)>>
          [] e[1] = "dflt" -> <<WriteTyped(e[2], IF v = "" THEN "default" ELSE v)>>
          [] e[1] = "sender" -> <<IF Has(m, "Role") THEN WriteNull ELSE WriteTyped(e[2], v)>>
          [] e[1] = "map" -> <<IF v = "" THEN WriteNull ELSE WriteAnyMap(e[2], m[e[3]])>>
          [] e[1] = "symbols" -> <<WriteSymbolArray(Get(m, e[3]))>>
          [] e[1] = "array" ->
               <<WriteArray(Texts["symbol"][2], [i \in DOMAIN Get(m, e[3]) |->
                     Num(SizeOf(m[e[3]][i]), 1) \o Text(m[e[3]][i])])>>
          [] e[1] = "sub" ->
               <<IF v = "" THEN WriteNull ELSE WriteDescribed(m, Nested[e[3]])>>
          [] e[1] = "state" ->
               <<state(SelectSeq(e[2], LAMBDA o : Has(m, o)))>>
          [] e[1] = "trailing" ->
               IF v = "" THEN <<>>
               ELSE Concat([i \in DOMAIN e[2] |-> WriteEntry(m, e[2][i])])

\* encodePerformative, and the same lines of the other Encode methods.
WriteDescribed(m, table) ==
    WriteDescriptor(table.code) \o
        WriteList(Concat([i \in DOMAIN table.write |-> WriteEntry(m, table.write[i])]))

(***************************************************************************)
(* Decoding a described list: an entry is skipped when the list is shorter *)
(* or holds null there, and a value of another type leaves the field zero. *)
(***************************************************************************)
\* toUint32, toUint64, toBool and the type assertions.
Accepts ==
    [string |-> {"string"}, Symbol |-> {"Symbol"}, bytes |-> {"bytes"}, bool |-> {"bool"},
     uint8 |-> {"uint8"}, uint32 |-> {"uint8", "uint16", "uint32", "uint64"},
     uint64 |-> {"uint8", "uint16", "uint32", "uint64"},
     ptr |-> {"uint8", "uint16", "uint32", "uint64"}]

\* decodeSymbolAnyMap and decodeStringAnyMap; a map has as many keys as values.
ReadAnyMap(items, key) ==
    LET goOf(t) == IF t = "null" THEN "nil"
                   ELSE IF t = "bool" THEN "bool"
                   ELSE IF t \in DOMAIN Numbers THEN Numbers[t][1] ELSE Texts[t][1]
        named(k, v) == /\ k.v \in Range(AnyTypes)
                       /\ v = (IF k.v = "null" THEN Nil ELSE Val(goOf(k.v), k.v))
        pair(k, v) == IF k.go = key /\ named(k, v) THEN k.v ELSE Garbled
    IN  [i \in 1..(Len(items) \div 2) |-> pair(items[2 * i - 1], items[2 * i])]

Names(items) == [i \in DOMAIN items |-> items[i].v]

RECURSIVE ReadValue(_, _, _, _), ReadTableOf(_, _, _)

\* A nested list is stored as its marker and its own fields.
ReadNested(rd, f, val) ==
    LET read(table) ==
            IF val.go = "described" /\ val.d = table.code /\ val.sub[1].go = "list"
            THEN ReadTableOf(Store(rd, f, <<f>>), table.read, val.sub[1].sub)
            ELSE IF f = "Error" THEN Fail(rd, "malformed error") ELSE rd
    IN  read(Nested[f])

\* decodeOutcome.
ReadOutcome(rd, outcomes, val) ==
    IF outcomes = {} THEN rd ELSE ReadNested(rd, CHOOSE o \in outcomes : TRUE, val)

ReadEntry(rd, e, items) ==
    ReadValue(rd, e, e[3], IF e[1] < Len(items) THEN items[e[1] + 1] ELSE Nil)

ReadValue(rd, e, f, val) ==
        CASE val = Nil -> rd
          [] e[2] = "sub" -> ReadNested(rd, f, val)
          [] e[2] = "state" ->
               ReadOutcome(rd, {o \in Range(Outcomes) : Nested[o].code = val.d}, val)
          [] e[2] = "stringmap" -> Store(rd, f, ReadAnyMap(val.sub, "string"))
          [] e[2] = "symbolmap" -> Store(rd, f, ReadAnyMap(val.sub, "Symbol"))
          [] e[2] = "array" -> Store(rd, f, Names(val.sub))
          \* decodeCapabilities.
          [] e[2] = "symbols" -> Store(rd, f, IF val.go = "Symbol" THEN <<val.v>>
                                              ELSE Names(val.sub))
          [] e[2] = "any" -> Store(rd, f, <<val.v>>)
          [] val.go \notin Accepts[e[2]] -> rd
          [] e[2] = "ptr" /\ val.v = "" -> Store(rd, f, <<Zero>>)
          [] e[2] = "bool" /\ val.v # "" -> Store(rd, f, <<f>>)
          [] OTHER -> IF val.v = "" THEN rd ELSE Store(rd, f, <<val.v>>)

ReadTableOf(rd, table, items) ==
    IF ~ Ok(rd) \/ table = <<>> THEN rd
    ELSE ReadTableOf(ReadEntry(rd, Head(table), items), Tail(table), items)

(***************************************************************************)
(* Messages: a sequence of described sections.                             *)
(***************************************************************************)
Sections == [DeliveryAnnotations |-> 113, MessageAnnotations |-> 114,
             ApplicationProperties |-> 116, Data |-> 117, AMQPValue |-> 119]

\* Message.Encode.
EncodeMessage(m) ==
    LET list(f) == IF Has(m, f) THEN WriteDescribed(m, Nested[f]) ELSE <<>>
        maps(f, key) == IF Has(m, f)
                        THEN WriteDescriptor(Sections[f]) \o WriteAnyMap(key, m[f]) ELSE <<>>
    IN  list("Header") \o maps("MessageAnnotations", "symbol") \o list("Properties")
            \o maps("ApplicationProperties", "string")
            \o Concat([i \in DOMAIN Get(m, "Data") |->
                   WriteDescriptor(Sections.Data) \o WriteText("binary", m.Data[i])])
            \o (IF Has(m, "Value")
                THEN WriteDescriptor(Sections.AMQPValue) \o WriteTyped("string", m.Value[1])
                ELSE <<>>)

\* One section of Decode's loop.
DecodeBody(rd, d, body) ==
    CASE d = Sections.MessageAnnotations ->
           Store(rd, "MessageAnnotations", ReadAnyMap(body.sub, "Symbol"))
      [] d = Sections.DeliveryAnnotations ->
           Store(rd, "DeliveryAnnotations", ReadAnyMap(body.sub, "Symbol"))
      [] d = Sections.ApplicationProperties ->
           Store(rd, "ApplicationProperties", ReadAnyMap(body.sub, "string"))
      [] d = Sections.Data ->
           IF body.go = "bytes" THEN Store(rd, "Data", Append(Get(rd.m, "Data"), body.v))
           ELSE rd
      [] d = Sections.AMQPValue -> Store(rd, "Value", <<body.v>>)
      [] OTHER -> rd

DecodeSection(rd, val) ==
    CASE val.go # "described" -> Fail(rd, "expected described type")
      [] val.go = "described" /\ val.d = Header.code -> ReadNested(rd, "Header", val)
      [] val.go = "described" /\ val.d = Properties.code -> ReadNested(rd, "Properties", val)
      [] OTHER -> DecodeBody(rd, val.d, val.sub[1])

RECURSIVE DecodeMessage(_)
DecodeMessage(rd) ==
    LET section(r) == IF ~ r.ok THEN Fail(rd, "bad section")
                      ELSE DecodeMessage(DecodeSection([rd EXCEPT !.in = r.in], r.val))
    IN  IF ~ Ok(rd) \/ rd.in = <<>> THEN rd ELSE section(ReadType(rd.in))

(***************************************************************************)
(* Frames (amqp1/frames/frame.go) and transfers over several of them.      *)
(***************************************************************************)
HeaderSize == 8

FrameTypeAMQP == 0
FrameTypeSASL == 1

WriteFrame(type, body) ==
    Num(HeaderSize + Len(body), 4) \o <<Digit(2), Digit(type)>> \o Raw("Channel", 2) \o body

\* The body of the first frame and what follows it; an extended header, which
\* no writer here sends, would be skipped with the data offset.
NoFrame == [ok |-> FALSE]

ReadFrame(bs) ==
    LET sized(size, doff) ==
            IF size < HeaderSize \/ doff < HeaderSize \/ size < doff \/ Len(bs) < size
            THEN NoFrame
            ELSE [ok |-> TRUE, type |-> bs[6].k, body |-> SubSeq(bs, doff + 1, size),
                  rest |-> SubSeq(bs, size + 1, Len(bs))]
    IN  IF Len(bs) < HeaderSize THEN NoFrame ELSE sized(NumOf(SubSeq(bs, 1, 4)), 4 * bs[5].k)

\* The continuation frames of Connection.WriteTransfer.
RECURSIVE WriteRest(_, _, _, _)
WriteRest(cont, last, maxBody, payload) ==
    LET send(head, chunk) ==
            WriteFrame(FrameTypeAMQP, head \o SubSeq(payload, 1, chunk))
                \o WriteRest(cont, last, maxBody, SubSeq(payload, chunk + 1, Len(payload)))
    IN  CASE payload = <<>> -> <<>>
          [] payload # <<>> /\ Len(payload) <= maxBody - Len(last) -> send(last, Len(payload))
          [] OTHER -> send(cont, maxBody - Len(cont))

Continue(handle, maxBody, payload) ==
    WriteRest(WriteDescribed(Put(handle, "More", <<"More">>), Transfer),
              WriteDescribed(handle, Transfer), maxBody, payload)

\* Connection.WriteTransfer under a negotiated frame size.
WriteTransfer(m, maxFrameSize) ==
    LET split(payload, maxBody, first, chunk) ==
            WriteFrame(FrameTypeAMQP, first \o SubSeq(payload, 1, chunk))
                \o Continue([f \in {"Handle"} \cap DOMAIN m |-> m[f]], maxBody,
                            SubSeq(payload, chunk + 1, Len(payload)))
        several(payload, maxBody, first) == split(payload, maxBody, first, maxBody - Len(first))
        send(payload, maxBody, whole) ==
            IF Len(whole) <= maxBody THEN WriteFrame(FrameTypeAMQP, whole)
            ELSE several(payload, maxBody, WriteDescribed(Put(m, "More", <<"More">>), Transfer))
        encoded(payload) ==
            send(payload, maxFrameSize - HeaderSize, WriteDescribed(m, Transfer) \o payload)
    IN  encoded(EncodeMessage(m))

\* ReadPerformative and ReadSASLFrame: the kind, the fields, what is left of
\* the frame and what follows it.
BadFrame == [kind |-> "error", rd |-> Reader(<<>>), rest |-> <<>>]

ReadFields(r, table, kinds, rest) ==
    LET fields(kind) == [kind |-> kind, rest |-> rest,
                         rd |-> ReadTableOf(Reader(r.in), table[kind].read, r.val.sub[1].sub)]
    IN  IF kinds = {} THEN BadFrame ELSE fields(CHOOSE k \in kinds : TRUE)

ReadList(r, table, rest) ==
    IF ~ r.ok \/ r.val.go # "described" \/ r.val.sub[1].go # "list" THEN BadFrame
    ELSE ReadFields(r, table, {k \in DOMAIN table : table[k].code = r.val.d}, rest)

ReadPerformative(bs) ==
    LET frame(fr) ==
            CASE ~ fr.ok -> BadFrame
              [] fr.ok /\ fr.body = <<>> ->
                   [kind |-> "Heartbeat", rd |-> Reader(<<>>), rest |-> fr.rest]
              [] OTHER -> ReadList(ReadType(fr.body),
                                   IF fr.type = FrameTypeSASL THEN Sasl ELSE Performatives,
                                   fr.rest)
    IN  frame(ReadFrame(bs))

\* The Transfer case of handleConnection's loop: the payload of a transfer with
\* More is kept until one without it, and the first frame's fields stand; the
\* frame of another performative is handled before it.
RECURSIVE Reassemble(_, _)
Reassemble(p, whole) ==
    LET follow(next) ==
            IF next.kind = "Transfer"
            THEN Reassemble(next, [whole EXCEPT !.in = @ \o next.rd.in]) ELSE next
    IN  IF ~ Has(p.rd.m, "More") \/ ~ Ok(p.rd)
        THEN [kind |-> p.kind, rd |-> whole, rest |-> p.rest]
        ELSE follow(ReadPerformative(p.rest))

Decode(bs) ==
    LET result(d) ==
            [kind |-> IF Ok(d.rd) THEN d.kind ELSE "error", m |-> d.rd.m, rest |-> d.rest]
        message(t) ==
            IF t.kind # "Transfer" THEN t
            ELSE [t EXCEPT !.rd = DecodeMessage([@ EXCEPT
                      !.m = [f \in DOMAIN @ \ {"More"} |-> @[f]]])]
        performative(p) == IF p.kind = "Transfer" THEN message(Reassemble(p, p.rd)) ELSE p
    IN  result(performative(ReadPerformative(bs)))

Encode(kind, m, maxFrameSize) ==
    CASE kind = "Heartbeat" -> WriteFrame(FrameTypeAMQP, <<>>)
      [] kind = "Transfer" -> WriteTransfer(m, maxFrameSize)
      [] kind \in DOMAIN Sasl -> WriteFrame(FrameTypeSASL, WriteDescribed(m, Sasl[kind]))
      [] OTHER -> WriteFrame(FrameTypeAMQP, WriteDescribed(m, Performatives[kind]))

(***************************************************************************)
(* The messages to send.                                                   *)
(***************************************************************************)
Kinds == DOMAIN Performatives \cup DOMAIN Sasl \cup {"Heartbeat"}

\* The entries of a table, those of its nested lists and its trailing parts
\* included.
RECURSIVE EntriesOf(_)
EntriesOf(es) ==
    UNION {CASE e[1] = "trailing" -> EntriesOf(e[2])
             [] e[1] = "sub" -> {e} \cup EntriesOf(Nested[e[3]].write)
             [] e[1] = "state" -> UNION {EntriesOf(<<Sub(o)>>) : o \in Range(e[2])}
             [] e[1] = "null" -> {}
             [] OTHER -> {e} : e \in Range(es)}

Entries(kind) ==
    CASE kind = "Heartbeat" -> {}
      [] kind \in DOMAIN Sasl -> EntriesOf(Sasl[kind].write)
      [] kind = "Transfer" ->
           EntriesOf(Transfer.write \o <<Sub("Header"), Sub("Properties"),
               Map("symbol", "MessageAnnotations"), Map("string", "ApplicationProperties"),
               Symbols("Data"), Opt("string", "Value")>>) \ {Always("bool", "More")}
      [] OTHER -> EntriesOf(Performatives[kind].write)

\* A field of a nested list is set with the list itself.
Closure(S) ==
    LET up(nested, T) == T \cup {g \in DOMAIN nested :
                             \E e \in EntriesOf(nested[g].write) : e[3] \in T}
        twice(nested) == up(nested, up(nested, S))
    IN  twice(Nested)

\* A message has one outcome, a receiver's attach has no initial count, and
\* the defaults are what is sent for a field that is not set.
Sendable(kind, S) ==
    /\ Cardinality(S \cap Range(Outcomes)) <= 1
    /\ ~ {"Role", "InitialDeliveryCount"} \subseteq S

Within(kind, S) ==
    LET with(T) == IF kind = "Disposition" /\ "Error" \in T /\ T \cap Range(Outcomes) = {}
                   THEN T \cup {"Rejected"} ELSE T
    IN  with(Closure(S) \cap {e[3] : e \in Entries(kind)})

\* The value of a field: the maps of the several forms hold every type between
\* them, a list of symbols two symbols, and numbers, pointers and texts have
\* their short and long forms.
FillEntry(e, f, form) ==
    CASE e[1] = "map" -> CASE form = "plain" -> SubSeq(AnyTypes, 1, 6)
                           [] form = "short" -> SubSeq(AnyTypes, 7, 12)
                           [] OTHER -> SubSeq(AnyTypes, 13, Len(AnyTypes))
      [] e[1] \in {"symbols", "array"} -> IF form = "short" THEN <<f>> ELSE <<f, "b">>
      [] e[1] = "ptr" /\ form = "zero" -> <<Zero>>
      [] e[2] \in {"uint", "ulong"} /\ form = "short" -> <<Small>>
      [] e[2] \in DOMAIN Texts /\ form = "long" -> <<Huge300>>
      [] OTHER -> <<f>>

Fill(entries, S, form) ==
    [f \in S |-> FillEntry(CHOOSE x \in entries : x[3] = f, f, form)]

SamplesOf(kind, entries, fs) ==
    LET sets == {Within(kind, S) : S \in Selections(fs)}
        most == {Within(kind, fs \ ({"Role"} \cup (Range(Outcomes) \ {o}))) : o \in Range(Outcomes)}
        good(SS) == {S \in SS : Sendable(kind, S)}
    IN  {Fill(entries, S, "plain") : S \in good(sets)} \cup
        {Fill(entries, S, form) : S \in good(most), form \in {"short", "zero", "long"}}

Samples(kind) ==
    LET of(entries) == SamplesOf(kind, entries, {e[3] : e \in entries})
    IN  of(Entries(kind))

\* What the receiver is meant to see: the defaults of what is not set, in the
\* lists that are there, and not the connection properties, which it ignores.
Meant(kind, m) ==
    LET dflt(g) == IF Has(m, g) THEN {e[3] : e \in {x \in EntriesOf(Nested[g].write) : x[1] = "dflt"}}
                   ELSE {}
        own == {e[3] : e \in {x \in Entries(kind) : x[1] = "dflt"
                                  /\ x \notin EntriesOf(<<Sub("Source"), Sub("Target")>>)}}
        seen(full) ==
            [f \in DOMAIN full \ (IF kind = "Open" THEN {"Properties"} ELSE {}) |-> full[f]]
    IN  seen(m @@ [f \in own \cup dflt("Source") \cup dflt("Target") |-> <<"default">>])
=============================================================================
