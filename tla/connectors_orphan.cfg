SPECIFICATION Spec
CONSTANTS
    Device = {d1}
    Connector = {c1, c2, c3}
    NoDevice = NoDevice
    NoConnector = NoConnector
    MaxRetry = 3
    MaxFaults = 0
    MaxInputs = 5
INVARIANT NeverOrphaned
CHECK_DEADLOCK FALSE
