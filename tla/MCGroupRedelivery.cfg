CONSTANTS
    Consumers = {c1, c2}
    Nobody = Nobody
    MaxOffset = 2
    MaxPELSize = 1
    MaxDeliveryCount = 2
    MaxBatch = 1
    ScanBudget = 1
    MaxRestarts = 1
    DLQOutcomes = {"appended", "unconfirmed", "failed"}
SPECIFICATION Spec
SYMMETRY ConsumerSymmetry
INVARIANTS CommittedFloor NothingLost RetentionSafe AckIsFinal
PROPERTIES KeepsLedger ReservationHonoured
CHECK_DEADLOCK FALSE
