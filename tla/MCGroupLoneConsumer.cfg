CONSTANTS
    Consumers = {c1}
    Nobody = Nobody
    MaxOffset = 2
    MaxPELSize = 2
    MaxDeliveryCount = 2
    MaxBatch = 1
    ScanBudget = 1
    MaxRestarts = 0
    DLQOutcomes = {"appended", "failed"}
SPECIFICATION LiveSpec
PROPERTIES EventuallySettled
CHECK_DEADLOCK FALSE
