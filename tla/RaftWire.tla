------------------------------ MODULE RaftWire ------------------------------
(***************************************************************************)
(* What the queue raft group writes: the operations of its log             *)
(* (queue/raft/operation_codec.go), the log entries around them            *)
(* (storage_codec.go) and the frames of its snapshots (snapshot_codec.go). *)
(*                                                                         *)
(* The code copies Go structs into generated protobuf structs and back, so *)
(* a byte of this wire is one whole protobuf message.  A struct is a       *)
(* message of Wire; a struct inside it is a field with that message as its *)
(* one value.  Copying is by name where the two structs agree on the name. *)
(*                                                                         *)
(* Left out: what the decoder refuses, a snapshot whose tail precedes its  *)
(* head, frames out of order and fields it does not know.                  *)
(***************************************************************************)
EXTENDS Wire

Copy(names, m) == [f \in names \cap DOMAIN m |-> m[f]]

Rename(m, from, to) ==
    IF Has(m, from)
    THEN [f \in (DOMAIN m \ {from}) \cup {to} |-> IF f = to THEN m[from] ELSE m[f]]
    ELSE m

(***************************************************************************)
(* Enumerations: the empty string is UNSPECIFIED and travels as no field.  *)
(***************************************************************************)
EncodeEnum ==
    [GroupMode |-> [queue |-> "MODE_QUEUE", stream |-> "MODE_STREAM"],
     QueueType |-> [classic |-> "TYPE_CLASSIC", stream |-> "TYPE_STREAM"],
     ReplicationMode |-> [sync |-> "MODE_SYNC", async |-> "MODE_ASYNC"]]

DecodeEnum ==
    [GroupMode |-> [MODE_QUEUE |-> "queue", MODE_STREAM |-> "stream"],
     QueueType |-> [TYPE_CLASSIC |-> "classic", TYPE_STREAM |-> "stream"],
     ReplicationMode |-> [MODE_SYNC |-> "sync", MODE_ASYNC |-> "async"]]

\* A value of an enumeration, or none.
Converted(table, vs) == [i \in DOMAIN vs |-> table[vs[i]]]

EncodeLogType ==
    [Command |-> "COMMAND", Noop |-> "NOOP", AddPeer |-> "ADD_PEER_DEPRECATED",
     RemovePeer |-> "REMOVE_PEER_DEPRECATED", Barrier |-> "BARRIER",
     Configuration |-> "CONFIGURATION"]

DecodeLogType ==
    [COMMAND |-> "Command", NOOP |-> "Noop", ADD_PEER_DEPRECATED |-> "AddPeer",
     REMOVE_PEER_DEPRECATED |-> "RemovePeer", BARRIER |-> "Barrier",
     CONFIGURATION |-> "Configuration"]

(***************************************************************************)
(* Consumers, pending entries and groups.                                  *)
(***************************************************************************)
EncodeOperationPending(e) ==
    Rename(Copy({"Offset", "ConsumerID", "ClaimedAt", "DeliveryCount"}, e), "ConsumerID", "ConsumerId")

DecodeOperationPending(w) ==
    Rename(Copy({"Offset", "ConsumerId", "ClaimedAt", "DeliveryCount"}, w), "ConsumerId", "ConsumerID")

EncodeOperationConsumer(c) ==
    Rename(Copy({"ID", "ClientID", "ProxyNodeID", "RegisteredAt", "LastHeartbeat"}, c), "ID", "Id")

DecodeOperationConsumer(w) ==
    Rename(Copy({"Id", "ClientID", "ProxyNodeID", "RegisteredAt", "LastHeartbeat"}, w), "Id", "ID")

\* The consumers, in the order slices.Sort puts them.
Sorted == <<"c1", "c2">>

\* The PEL, which maps a consumer to its entries, becomes one list.
EncodeOperationGroup(g) ==
    LET plain == Copy({"ID", "QueueName", "Pattern", "AutoCommit", "CreatedAt", "UpdatedAt"}, g)
        entries(c) == IF c \in DOMAIN g.PEL
                      THEN [i \in DOMAIN g.PEL[c] |-> EncodeOperationPending(g.PEL[c][i])]
                      ELSE <<>>
        known == SelectSeq(Sorted, LAMBDA c : c \in DOMAIN g.Consumers)
    IN  [plain |-> plain,
         Mode |-> Converted(EncodeEnum.GroupMode, Get(g, "Mode")),
         Cursor |-> Copy({"Cursor", "Committed"}, g.Cursor),
         Pending |-> Concat([i \in DOMAIN Sorted |-> entries(Sorted[i])]),
         Consumers |-> [i \in DOMAIN known |-> EncodeOperationConsumer(g.Consumers[known[i]])]]

\* The list becomes the PEL again by the consumer each entry names.
Regroup(pending) ==
    [c \in {e.ConsumerID[1] : e \in Range(pending)} |->
        SelectSeq(pending, LAMBDA e : e.ConsumerID = <<c>>)]

\* A consumer listed twice is refused, which Distinct guards in Refused.
DecodeOperationGroup(w) ==
    LET consumers == [i \in DOMAIN w.Consumers |-> DecodeOperationConsumer(w.Consumers[i])]
        pending == [i \in DOMAIN w.Pending |-> DecodeOperationPending(w.Pending[i])]
        plain == Copy({"ID", "QueueName", "Pattern", "AutoCommit", "CreatedAt", "UpdatedAt"}, w.plain)
        mode == Converted(DecodeEnum.GroupMode, w.Mode)
    IN  Put(plain, "Mode", mode) @@
        [Cursor |-> Copy({"Cursor", "Committed"}, w.Cursor),
         PEL |-> Regroup(pending),
         Consumers |-> [c \in {x.ID[1] : x \in Range(consumers)} |->
                           CHOOSE x \in Range(consumers) : x.ID[1] = c]]

Distinct(w) == Cardinality({c.Id : c \in Range(w.Consumers)}) = Len(w.Consumers)

(***************************************************************************)
(* Queue configurations: every section is written, empty or not, and a     *)
(* configuration without one is refused.                                   *)
(***************************************************************************)
EncodedConfig ==
    [Config |-> {"Name", "Topics", "Reserved", "PrimaryGroup", "Durable", "AckDurability",
                 "ExpiresAfter", "LastConsumerDisconnect", "MaxMessageSize", "MaxDepth",
                 "MessageTTL", "DeliveryTimeout", "BatchSize", "HeartbeatTimeout"},
     RetryPolicy |-> {"MaxRetries", "InitialBackoff", "MaxBackoff", "BackoffMultiplier",
                      "TotalTimeout"},
     DLQConfig |-> {"Enabled", "Topic", "AlertWebhook"},
     Replication |-> {"Enabled", "Group", "ReplicationFactor", "MinInSyncReplicas",
                      "AckTimeout", "HeartbeatTimeout", "ElectionTimeout",
                      "SnapshotInterval", "SnapshotThreshold"},
     Retention |-> {"RetentionTime", "TimeCheckInterval", "RetentionBytes",
                    "RetentionMessages", "SizeCheckEvery", "CompactionEnabled",
                    "CompactionKey", "CompactionLag", "CompactionInterval"}]

DecodedConfig ==
    [Config |-> {"Name", "Topics", "Reserved", "PrimaryGroup", "Durable", "AckDurability",
                 "ExpiresAfter", "LastConsumerDisconnect", "MaxMessageSize", "MaxDepth",
                 "MessageTTL", "DeliveryTimeout", "BatchSize", "HeartbeatTimeout"},
     RetryPolicy |-> {"MaxRetries", "InitialBackoff", "MaxBackoff", "BackoffMultiplier",
                      "TotalTimeout"},
     DeadLetter |-> {"Enabled", "Topic", "AlertWebhook"},
     Replication |-> {"Enabled", "Group", "ReplicationFactor", "MinInSyncReplicas",
                      "AckTimeout", "HeartbeatTimeout", "ElectionTimeout",
                      "SnapshotInterval", "SnapshotThreshold"},
     Retention |-> {"RetentionTime", "TimeCheckInterval", "RetentionBytes",
                    "RetentionMessages", "SizeCheckEvery", "CompactionEnabled",
                    "CompactionKey", "CompactionLag", "CompactionInterval"}]

EncodeOperationQueueConfig(cfg) ==
    LET section(s) == Copy(EncodedConfig[s], cfg[s])
        mode == Converted(EncodeEnum.ReplicationMode, Get(cfg.Replication, "Mode"))
    IN  [Config |-> Copy(EncodedConfig.Config, cfg.Config),
         Type |-> Converted(EncodeEnum.QueueType, Get(cfg.Config, "Type")),
         RetryPolicy |-> section("RetryPolicy"),
         DeadLetter |-> section("DLQConfig"),
         Replication |-> Put(section("Replication"), "Mode", mode),
         Retention |-> section("Retention")]

DecodeOperationQueueConfig(w) ==
    LET section(s) == Copy(DecodedConfig[s], w[s])
        mode == Converted(DecodeEnum.ReplicationMode, Get(w.Replication, "Mode"))
        queueType == Converted(DecodeEnum.QueueType, w.Type)
    IN  [Config |-> Put(section("Config"), "Type", queueType),
         RetryPolicy |-> section("RetryPolicy"),
         DLQConfig |-> section("DeadLetter"),
         Replication |-> Put(section("Replication"), "Mode", mode),
         Retention |-> section("Retention")]

(***************************************************************************)
(* Operations: for each the fields of the Go struct its command carries.   *)
(***************************************************************************)
\* encodeOperation and decodeOperation: the command's field |-> the Operation's.
EncodeOperation ==
    [Append |-> [QueueName |-> "QueueName", Envelope |-> "Message", DedupeKey |-> "DedupeKey"],
     Truncate |-> [QueueName |-> "QueueName", MinOffset |-> "MinOffset"],
     CreateGroup |-> [QueueName |-> "QueueName", GroupId |-> "GroupID", Group |-> "GroupState"],
     UpdateGroup |-> [QueueName |-> "QueueName", GroupId |-> "GroupID", Group |-> "GroupState"],
     DeleteGroup |-> [QueueName |-> "QueueName", GroupId |-> "GroupID"],
     UpdateCursor |-> [QueueName |-> "QueueName", GroupId |-> "GroupID", Cursor |-> "Cursor"],
     UpdateCommitted |-> [QueueName |-> "QueueName", GroupId |-> "GroupID",
                          Committed |-> "Committed"],
     AddPending |-> [QueueName |-> "QueueName", GroupId |-> "GroupID", Entry |-> "PendingEntry"],
     RemovePending |-> [QueueName |-> "QueueName", GroupId |-> "GroupID",
                        ConsumerId |-> "ConsumerID", Offset |-> "Offset"],
     TransferPending |-> [QueueName |-> "QueueName", GroupId |-> "GroupID", Offset |-> "Offset",
                          FromConsumer |-> "FromConsumer", ToConsumer |-> "ToConsumer"],
     RegisterConsumer |-> [QueueName |-> "QueueName", GroupId |-> "GroupID",
                           Consumer |-> "ConsumerInfo"],
     UnregisterConsumer |-> [QueueName |-> "QueueName", GroupId |-> "GroupID",
                             ConsumerId |-> "ConsumerID"],
     RequeuePending |-> [QueueName |-> "QueueName", GroupId |-> "GroupID",
                         ConsumerId |-> "ConsumerID", Offset |-> "Offset"],
     CreateQueue |-> [QueueName |-> "QueueName", Config |-> "QueueConfig"],
     UpdateQueue |-> [QueueName |-> "QueueName", Config |-> "QueueConfig"],
     DeleteQueue |-> [QueueName |-> "QueueName"]]

DecodeOperation ==
    [Append |-> [QueueName |-> "QueueName", Message |-> "Envelope", DedupeKey |-> "DedupeKey"],
     Truncate |-> [QueueName |-> "QueueName", MinOffset |-> "MinOffset"],
     CreateGroup |-> [QueueName |-> "QueueName", GroupID |-> "GroupId", GroupState |-> "Group"],
     UpdateGroup |-> [QueueName |-> "QueueName", GroupID |-> "GroupId", GroupState |-> "Group"],
     DeleteGroup |-> [QueueName |-> "QueueName", GroupID |-> "GroupId"],
     UpdateCursor |-> [QueueName |-> "QueueName", GroupID |-> "GroupId", Cursor |-> "Cursor"],
     UpdateCommitted |-> [QueueName |-> "QueueName", GroupID |-> "GroupId",
                          Committed |-> "Committed"],
     AddPending |-> [QueueName |-> "QueueName", GroupID |-> "GroupId", PendingEntry |-> "Entry"],
     RemovePending |-> [QueueName |-> "QueueName", GroupID |-> "GroupId",
                        ConsumerID |-> "ConsumerId", Offset |-> "Offset"],
     TransferPending |-> [QueueName |-> "QueueName", GroupID |-> "GroupId", Offset |-> "Offset",
                          FromConsumer |-> "FromConsumer", ToConsumer |-> "ToConsumer"],
     RegisterConsumer |-> [QueueName |-> "QueueName", GroupID |-> "GroupId",
                           ConsumerInfo |-> "Consumer"],
     UnregisterConsumer |-> [QueueName |-> "QueueName", GroupID |-> "GroupId",
                             ConsumerID |-> "ConsumerId"],
     RequeuePending |-> [QueueName |-> "QueueName", GroupID |-> "GroupId",
                         ConsumerID |-> "ConsumerId", Offset |-> "Offset"],
     CreateQueue |-> [QueueName |-> "QueueName", QueueConfig |-> "Config"],
     UpdateQueue |-> [QueueName |-> "QueueName", QueueConfig |-> "Config"],
     DeleteQueue |-> [QueueName |-> "QueueName"]]

\* The structs among the values go through their own conversions.
EncodeValue(f, v) ==
    CASE f \in {"GroupState", "Groups"} -> EncodeOperationGroup(v)
      [] f = "PendingEntry" -> EncodeOperationPending(v)
      [] f = "ConsumerInfo" -> EncodeOperationConsumer(v)
      [] f = "QueueConfig" -> EncodeOperationQueueConfig(v)
      [] OTHER -> v

DecodeValue(w, v) ==
    CASE w \in {"Group", "Groups"} -> DecodeOperationGroup(v)
      [] w = "Entry" -> DecodeOperationPending(v)
      [] w = "Consumer" -> DecodeOperationConsumer(v)
      [] w = "Config" -> DecodeOperationQueueConfig(v)
      [] OTHER -> v

Fields(table, m, convert(_, _)) ==
    [f \in {x \in DOMAIN table : Has(m, table[x])} |->
        LET vs == m[table[f]] IN [i \in DOMAIN vs |-> convert(table[f], vs[i])]]

(***************************************************************************)
(* Log entries and snapshot frames.                                        *)
(***************************************************************************)
LogEntry == {"Index", "Term", "Data", "Extensions", "AppendedAt"}

UnmarshalLogEntry == {"Index", "Term", "Data", "Extensions", "AppendedAt"}

WriteQueue == [QueueName |-> "QueueName", Head |-> "Head", Tail |-> "Tail",
               Config |-> "QueueConfig", Groups |-> "Groups"]

DecodeQueueSnapshot == [QueueName |-> "QueueName", Head |-> "Head", Tail |-> "Tail",
                        QueueConfig |-> "Config", Groups |-> "Groups"]

WriteRecord == [Offset |-> "Offset", Envelope |-> "Envelope"]

\* The commands that are refused without the struct they carry.
Required == [CreateGroup |-> "Group", UpdateGroup |-> "Group", AddPending |-> "Entry",
             RegisterConsumer |-> "Consumer", CreateQueue |-> "Config", UpdateQueue |-> "Config"]

Stamped(m, w) == IF Has(m, "Timestamp") THEN Put(w, "Timestamp", m.Timestamp) ELSE w

Marshal(kind, m) ==
    CASE kind \in DOMAIN EncodeOperation ->
           Stamped(m, Fields(EncodeOperation[kind], m, EncodeValue))
      [] kind = "LogEntry" ->
           Put(Copy(LogEntry, m), "Type", Converted(EncodeLogType, m.Type))
      [] kind = "Header" -> Stamped(m, NoFields)
      [] kind = "Queue" -> Fields(WriteQueue, m, EncodeValue)
      [] kind = "Record" -> Fields(WriteRecord, m, EncodeValue)

Unmarshal(kind, w) ==
    CASE kind \in DOMAIN DecodeOperation ->
           Stamped(w, Fields(DecodeOperation[kind], w, DecodeValue))
      [] kind = "LogEntry" ->
           Put(Copy(UnmarshalLogEntry, w), "Type", Converted(DecodeLogType, w.Type))
      [] kind = "Header" -> Stamped(w, NoFields)
      [] kind = "Queue" -> Fields(DecodeQueueSnapshot, w, DecodeValue)
      [] kind = "Record" -> w

Refused(kind, w) ==
    \/ kind \in DOMAIN Required /\ ~ Has(w, Required[kind])
    \/ \E f \in {"Group", "Groups"} \cap DOMAIN w : \E g \in Range(w[f]) : ~ Distinct(g)

Kinds == DOMAIN EncodeOperation \cup {"LogEntry", "Header", "Queue", "Record"}

Encode(kind, m) == <<[version |-> 1, kind |-> kind, wire |-> Marshal(kind, m)]>>

Decode(bs) ==
    LET w == bs[1]
        refused == w.version # 1 \/ Refused(w.kind, w.wire)
    IN  [kind |-> IF refused THEN "error" ELSE w.kind,
         m |-> IF refused THEN NoFields ELSE Unmarshal(w.kind, w.wire),
         rest |-> Tail(bs)]

(***************************************************************************)
(* The messages to send.                                                   *)
(***************************************************************************)
Named(S) == [f \in S |-> <<f>>]

Entries == [c1 |-> <<Named({"Offset"}) @@ [ConsumerID |-> <<"c1">>],
                     Named({"Offset", "ClaimedAt", "DeliveryCount"}) @@ [ConsumerID |-> <<"c1">>]>>,
            c2 |-> <<[ConsumerID |-> <<"c2">>]>>]

Infos == [c1 |-> [ID |-> <<"c1">>] @@ Named({"ClientID", "RegisteredAt", "LastHeartbeat"}),
          c2 |-> [ID |-> <<"c2">>] @@ Named({"ProxyNodeID"})]

Restricted(f, S) == [x \in S |-> f[x]]

SomeGroups ==
    {Named(S) @@ [Cursor |-> Named(C), PEL |-> Restricted(Entries, P),
                  Consumers |-> Restricted(Infos, P)] :
        S \in Selections({"ID", "QueueName", "Pattern", "AutoCommit", "CreatedAt", "UpdatedAt"}),
        C \in SUBSET {"Cursor", "Committed"}, P \in SUBSET {"c1", "c2"}}
    \cup {[Mode |-> <<v>>, Cursor |-> NoFields, PEL |-> Entries, Consumers |-> Infos] :
              v \in DOMAIN EncodeEnum.GroupMode}

SomeConfigs ==
    LET with(s, S) == [x \in DOMAIN EncodedConfig |-> Named(IF x = s THEN S ELSE {})]
        full == [x \in DOMAIN EncodedConfig |-> Named(EncodedConfig[x])]
    IN  UNION {{with(s, S) : S \in Selections(EncodedConfig[s])} : s \in DOMAIN EncodedConfig}
        \cup {[full EXCEPT !.Config = Put(@, "Type", <<t>>), !.Replication = Put(@, "Mode", <<r>>)] :
                  t \in DOMAIN EncodeEnum.QueueType, r \in DOMAIN EncodeEnum.ReplicationMode}

Values(f) ==
    CASE f = "GroupState" -> {<<g>> : g \in SomeGroups}
      [] f = "PendingEntry" -> {<<Entries.c1[2]>>, <<Entries.c2[1]>>}
      [] f = "ConsumerInfo" -> {<<Infos.c1>>, <<Infos.c2>>}
      [] f = "QueueConfig" -> {<<c>> : c \in SomeConfigs}
      [] OTHER -> {<<f>>}

\* The fields set, all of them and the time among them, with a struct in turn.
Filled(S) ==
    LET structs == {"GroupState", "PendingEntry", "ConsumerInfo", "QueueConfig"}
        plain == Named(S \ structs)
    IN  IF S \cap structs = {} THEN {plain}
        ELSE UNION {{Put(plain, f, v) : v \in Values(f)} : f \in S \cap structs}

Samples(kind) ==
    CASE kind \in DOMAIN EncodeOperation ->
           LET all == Range(EncodeOperation[kind])
               always == all \cap {"GroupState", "PendingEntry", "ConsumerInfo", "QueueConfig"}
           IN  UNION {Filled(S \cup always) : S \in {{}, {"QueueName"}, all \cup {"Timestamp"}}}
      [] kind = "LogEntry" ->
           {Named(S) @@ [Type |-> <<t>>] : S \in Selections(LogEntry), t \in DOMAIN EncodeLogType}
      [] kind = "Header" -> {NoFields, Named({"Timestamp"})}
      [] kind = "Record" -> {Named(S) : S \in SUBSET {"Offset", "Envelope"}}
      [] kind = "Queue" ->
           UNION {Filled(S \cup {"QueueName"}) : S \in {{}, {"Head", "Tail"}, {"Tail", "QueueConfig"}}}
           \cup {Named({"QueueName"}) @@ [Groups |-> <<g, h>>] :
                     g \in {x \in SomeGroups : Has(x, "Mode")}, h \in {x \in SomeGroups : Has(x, "ID")}}
=============================================================================
