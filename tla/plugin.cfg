SPECIFICATION FairSpec
CONSTANTS
    Device = {d1}
    Plugin = {p1, p2}
    Holder = {h1, h2, h3}
    Surface = {s1}
    NoPlugin = NoPlugin
    NoDevice = NoDevice
    NoHolder = NoHolder
    NoSurface = NoSurface
    MaxInputs = 6
INVARIANTS TypeOK CallsAlive StreamOwned NoStaleStop MapAgrees NoDeadlock
PROPERTIES Atomic CallsReturn AttachReported
CHECK_DEADLOCK FALSE
