SPECIFICATION Spec
CONSTANTS
    size = 4
    WriteModes = {TRUE}
    ReadModes = {TRUE, FALSE}
    MaxWrites = 12
INVARIANTS
    NeverSameBin
    QueueOfPublished
PROPERTIES
    SkipReadsNewest
CHECK_DEADLOCK FALSE
