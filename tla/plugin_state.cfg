SPECIFICATION Spec
CONSTANTS
    Device = {d1}
    Plugin = {p1}
    Holder = {h1, h2}
    Surface = {s1}
    NoPlugin = NoPlugin
    NoDevice = NoDevice
    NoHolder = NoHolder
    NoSurface = NoSurface
    MaxInputs = 4
PROPERTY DisconnectedReported
CHECK_DEADLOCK FALSE
