----------------------------- MODULE WireStreams -----------------------------
(***************************************************************************)
(* One direction of a connection for each wire format: a writer encodes    *)
(* messages onto the byte stream, a reader takes them off it one at a      *)
(* time, finding the end of each from the bytes alone.                     *)
(***************************************************************************)
EXTENDS Naturals, Sequences, TLC

CONSTANT Codecs   \* the wire formats exercised

LOCAL INSTANCE AmqpWire
LOCAL INSTANCE MqttWire
Amqp1 == INSTANCE Amqp1Wire
Envelope == INSTANCE EnvelopeWire
Raft == INSTANCE RaftWire

VARIABLES
    codec,   \* the wire format of this connection
    limit,   \* the frame size negotiated for an AMQP 1.0 connection
    conn,    \* the bytes written and not yet read
    sent,    \* the messages written, as <<kind, message>>
    got,     \* the messages read
    pool     \* what the last PUBLISH released to the pool still holds

wireVars == <<codec, limit, conn, sent, got, pool>>

\* The MQTT formats: version, and whether ReadPacketBytes reads it.
MqttReaders == [mqtt5 |-> <<5, FALSE>>, mqtt5bytes |-> <<5, TRUE>>,
                mqtt3 |-> <<3, FALSE>>, mqtt3bytes |-> <<3, TRUE>>]

\* The frame sizes: one that holds every sample, and all around the ones at
\* which a transfer of 130 bytes takes another frame.
FullFrame == 4096
SplitFrames == 54..200

Kinds ==
    CASE codec \in DOMAIN MqttReaders -> MqttKinds(MqttReaders[codec][1], MqttReaders[codec][2])
      [] codec = "amqp1" -> IF limit = FullFrame THEN Amqp1!Kinds ELSE {"Transfer"}
      [] codec = "envelope" -> Envelope!Kinds
      [] codec = "raft" -> Raft!Kinds
      [] OTHER -> AmqpKinds

Samples(kind) ==
    CASE codec \in DOMAIN MqttReaders -> MqttSamples(MqttReaders[codec][1], kind)
      [] codec = "amqp1" ->
           IF limit = FullFrame THEN Amqp1!Samples(kind)
           ELSE {[Handle |-> <<"Handle">>, DeliveryID |-> <<"DeliveryID">>, Data |-> <<Long130, "Data">>]}
      [] codec = "envelope" -> Envelope!Samples(kind)
      [] codec = "raft" -> Raft!Samples(kind)
      [] OTHER -> AmqpSamples(kind)

Encode(kind, m) ==
    CASE codec \in DOMAIN MqttReaders -> MqttEncode(MqttReaders[codec][1], kind, m)
      [] codec = "amqp1" -> Amqp1!Encode(kind, m, limit)
      [] codec = "envelope" -> Envelope!Encode(kind, m)
      [] codec = "raft" -> Raft!Encode(kind, m)
      [] OTHER -> AmqpEncode(kind, m)

Decode(bs) ==
    CASE codec \in DOMAIN MqttReaders -> MqttReceive(MqttReaders[codec][1], MqttReaders[codec][2], got, bs)
      [] codec = "amqp1" -> Amqp1!Decode(bs)
      [] codec = "envelope" -> Envelope!Decode(bs)
      [] codec = "raft" -> Raft!Decode(bs)
      [] OTHER -> AmqpDecode(bs)

\* What the reader is to make of a message: itself, with the defaults AMQP 1.0
\* writes for fields that are not set.
Meant(kind, m) == IF codec = "amqp1" THEN Amqp1!Meant(kind, m) ELSE m

\* The message sent second, to see whether the reader is still in step.
Probe ==
    CASE codec \in DOMAIN MqttReaders -> <<"PUBLISH", [TopicName |-> <<"TopicName">>]>>
      [] codec = "amqp1" -> <<"Detach", [Handle |-> <<"Handle">>]>>
      [] codec = "envelope" -> <<"Full", [Version |-> <<"Version">>]>>
      [] codec = "raft" -> <<"DeleteQueue", [QueueName |-> <<"QueueName">>]>>
      [] OTHER -> <<"BasicAck", [DeliveryTag |-> <<"DeliveryTag">>]>>

\* The packet taken from the pool for a PUBLISH, with the new fields set.
Acquire(kind, m) == IF kind = "PUBLISH" THEN m @@ pool ELSE m

Release(kind, m) == IF kind = "PUBLISH" THEN ReleasePublish(MqttReaders[codec][1], m) ELSE pool

WireInit ==
    /\ codec \in Codecs
    /\ limit \in IF codec = "amqp1" THEN {FullFrame} \cup SplitFrames ELSE {FullFrame}
    /\ conn = <<>>
    /\ sent = <<>>
    /\ got = <<>>
    /\ pool = NoFields

Send(kind, m) ==
    /\ conn' = conn \o Encode(kind, Acquire(kind, m))
    /\ sent' = Append(sent, <<kind, Meant(kind, m)>>)
    /\ pool' = Release(kind, Acquire(kind, m))
    /\ UNCHANGED <<codec, limit, got>>

Take(d) ==
    /\ conn' = d.rest
    /\ got' = Append(got, <<d.kind, d.m>>)

Receive ==
    /\ conn # <<>>
    /\ Take(Decode(conn))
    /\ UNCHANGED <<codec, limit, sent, pool>>

WireNext ==
    \/ sent = <<>> /\ \E kind \in Kinds : \E m \in Samples(kind) : Send(kind, m)
    \/ Len(sent) = 1 /\ Send(Probe[1], Probe[2])
    \/ Len(sent) = 2 /\ Receive

WireSpec == WireInit /\ [][WireNext]_wireVars

\* What was read is what was written, message by message, and when no byte is
\* left nothing is missing.
InStep ==
    /\ IsPrefix(got, sent)
    /\ conn = <<>> => got = sent
=============================================================================
