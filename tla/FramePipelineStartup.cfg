SPECIFICATION FairSpec
CONSTANTS
    MaxFrames = 2
    MaxToggles = 0
PROPERTIES
    AlgorithmEventuallyRuns
CHECK_DEADLOCK FALSE
