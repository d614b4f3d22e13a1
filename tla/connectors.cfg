SPECIFICATION Spec
CONSTANTS
    Device = {d1, d2}
    Connector = {c1, c2, c3}
    NoDevice = NoDevice
    NoConnector = NoConnector
    MaxRetry = 3
    MaxFaults = 0
    MaxInputs = 6
INVARIANTS TypeOK NoDoubleClose ClosedRetained TrackedOpen ScanNeverReplaces
CHECK_DEADLOCK FALSE
SYMMETRY Symmetry
