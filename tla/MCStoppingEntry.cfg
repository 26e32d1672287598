SPECIFICATION ReplicationSpec
CONSTANTS
    Replicas = {r1, r2}
    Workers = {w1, w2}
    NoWorker = NoWorker
    Conf = Conf
    Updated = Updated
    Default = Default
    Off = Off
    NoCfg = NoCfg
    Declared = {FALSE}
    Updates = {Updated}
    Early = FALSE
    Echoes = FALSE
    MaxEntries = 8
    MaxDeclared = 4
    MaxStops = 1
    MaxSnapshots = 1
INVARIANT NoEntryStopsAll
CHECK_DEADLOCK FALSE
