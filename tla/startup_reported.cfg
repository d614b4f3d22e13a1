SPECIFICATION MCSpec
CONSTANTS
    MaxEngines = 2
    MaxInputs = 7
PROPERTY CameraReported
CHECK_DEADLOCK FALSE
