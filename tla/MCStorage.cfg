SPECIFICATION StorageSpec
CONSTANTS
    Publishers = {p1, p2}
    NoOne = NoOne
    MaxRecords = 2
    MaxObjects = 6
    SegmentSize = 2
    MaxCrashes = 1
    Offsets = {0, 1}
    Members = {c1, c2}
    NoMember = NoMember
    Shards = 2
    MaxOps = 3
    MaxAttempts = 2
    MaxStateCrashes = 1
    Sources = {s1, s2}
    NoSource = NoSource
    Incarnations = 1
    Fsync = TRUE
    MaxTail = 4
    MaxDedupeFaults = 2
    Publishes = 2
    CapturedQueues = {"a"}
    LaneOf <- CaptureLane
    LaneDepth = 1
    Consumers = {"c", "d"}
    RegistryBudgets <- RegistryBounds
    Nodes = {"n1", "n2", "n3"}
    Replicated = {"r"}
    Unreplicated = {"a"}
    Lagging = FALSE
    PublishBudgets <- FanoutBudgets
INVARIANTS AckedSurvives ReadsBack SealedDurable NoDeliveryForgotten  SettledIsDurable
INVARIANTS CaptureAccounted OpenWhileCapturing
INVARIANTS ContractHeld ExpiresWithoutConsumers PublishedEverywhere
PROPERTIES BarrierReturns RecoversPending
CHECK_DEADLOCK FALSE
