SPECIFICATION MCSpec
CONSTANTS
    Device = {d1}
    Connector = {c1, c2, c3}
    NoDevice = NoDevice
    NoConnector = NoConnector
    MaxRetry = 3
    MaxFaults = 4
    MaxInputs = 5
INVARIANT SequentialAgreement
PROPERTIES AttachServed RescanRecovers
CHECK_DEADLOCK FALSE
