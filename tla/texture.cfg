SPECIFICATION FairSpec
CONSTANTS
    Camera = Camera
    Texture = {t1, t2, t3}
    Task = {k1, k2}
    NoTexture = NoTexture
    NoTask = NoTask
    NoCall = NoCall
    MaxInputs = 6
INVARIANTS TypeOK WindowLive NoLeak WidgetAgrees VideoVisible
PROPERTY HandlersEnd
CHECK_DEADLOCK FALSE
