CONSTANTS
    Consumers = {c1, c2}
    Nobody = Nobody
    MaxOffset = 2
    MaxPELSize = 1
    MaxDeliveryCount = 2
    MaxBatch = 2
    ScanBudget = 1
    MaxRestarts = 1
    DLQOutcomes = {"appended", "unconfirmed", "unavailable"}
SPECIFICATION Spec
SYMMETRY ConsumerSymmetry
INVARIANTS ReservationHeld
CHECK_DEADLOCK FALSE
