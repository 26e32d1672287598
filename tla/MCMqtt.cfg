SPECIFICATION MqttSpec
CONSTANTS
    MaxConns = 2
    Messages = {m1}
    LateCallbacks = FALSE
    MidConnect = FALSE
    MaxRestarts = 1
    Payloads = {m1, m2}
    ExactlyOnce = {m1}
    Window = 1
    MaxInflight = 2
    PendingSize = 1
    Modes = {"backpressure", "queue"}
    MaxEpochs = 2
    Faults = TRUE
    Brokers = {b1, b2}
    NoBroker = NoBroker
    Here = b1
    MaxChanges = 4
INVARIANTS  NoWillBehindConnection  HeldOnce 
PROPERTIES FailedConnectKeeps  RoutesConverge
CHECK_DEADLOCK FALSE
