SPECIFICATION MCSpec
CONSTANTS
    MaxEngines = 3
    MaxInputs = 11
INVARIANTS TypeOK OneDetector PostInitialized KnownTracked
PROPERTIES FirstStartReports ReturnReports
CHECK_DEADLOCK FALSE
