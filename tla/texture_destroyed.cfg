SPECIFICATION Spec
CONSTANTS
    Camera = Camera
    Texture = {t1, t2}
    Task = {k1, k2}
    NoTexture = NoTexture
    NoTask = NoTask
    NoCall = NoCall
    MaxInputs = 4
INVARIANT DestroyedCleared
CHECK_DEADLOCK FALSE
