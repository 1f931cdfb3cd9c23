SPECIFICATION FairSpec
CONSTANTS
    MaxFrames = 4
    MaxToggles = 2
INVARIANTS
    TypeOK
    OneOutstanding
    CreditConserved
    NoFrameForgotten
    BoundedRepeats
    ModeFollowsCheckbox
PROPERTIES
    MaxModeDeliversNewest
    ImplementsMailbox
CHECK_DEADLOCK FALSE
