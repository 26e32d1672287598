SPECIFICATION BrokerSpec
CONSTANTS
    Replicas = {r1, r2}
    Workers = {w1, w2}
    NoWorker = NoWorker
    Conf = Conf
    Updated = Updated
    Default = Default
    Off = Off
    NoCfg = NoCfg
    Declared = {TRUE, FALSE}
    Updates = {Updated}
    Early = FALSE
    Echoes = FALSE
    MaxEntries = 8
    MaxDeclared = 3
    MaxStops = 1
    MaxSnapshots = 1
    Codecs = {"amqp", "mqtt5", "mqtt5bytes", "mqtt3", "mqtt3bytes", "amqp1", "envelope", "raft"}
    Channels = {1, 2}
    ConsumerTags = {1, 2}
    Messages = {1, 2}
    Windows = {1}
    Budgets <- ChannelBudgets
    Publishers = {"a", "b"}
    Grants <- PublishGrants
    Targets <- PublishTargets
    Routes <- PublishRoutes
    Types = {"fanout", "topic"}
    Queues = {"q", "s"}
    Bindings <- PublishBindings
    BodySize = 2
    MaxOutstanding = 1
    MaxPublishes <- PublishLimits
    MaxTopology = 2
INVARIANT  InStep
INVARIANT WindowOverrun TakenIsHeld   AppendsBounded
PROPERTY SettlesByOffset
SYMMETRY ReplicaSymmetry
CHECK_DEADLOCK FALSE
