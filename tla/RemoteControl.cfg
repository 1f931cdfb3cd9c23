SPECIFICATION FairSpec
CONSTANTS
    Keys = {"W", "Up", "Down", "D", "Shift"}
    MaxEffort = 2
INVARIANTS
    TypeOK
    ClosedMeansStopped
    KeysFollowKeyboard
PROPERTIES
    NoKeysMeansStop
