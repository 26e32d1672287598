CONSTANTS
    Consumers = {c1, c2}
    Nobody = Nobody
    MaxOffset = 2
    MaxPELSize = 1
    MaxDeliveryCount = 2
    MaxBatch = 1
    ScanBudget = 1
    MaxRestarts = 0
    DLQOutcomes = {"appended", "unconfirmed", "failed", "unavailable"}
    LocalConsumers = {"c"}
    RemoteConsumers = {"r"}
    Pullers = {"p"}
    Streamers = {"q"}
    Passing = {2, 3}
    BatchSize = 2
    MaxCursorScan = 2
    Backlog = 2
    StreamBudgets <- StreamBounds
SPECIFICATION DeliverySpec
INVARIANTS StreamNoSkip
PROPERTIES EventuallySettled EventuallyDelivered
CHECK_DEADLOCK FALSE
