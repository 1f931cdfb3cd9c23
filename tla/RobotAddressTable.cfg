CONSTANTS
    NumCells = 2
    Addresses = {"a", "b"}
    DefaultRobot = 2
    DefaultAddress = "a"
    MaxDialogs = 2
    MaxBacklog = 2
SPECIFICATION Spec
INVARIANTS
    SettledTableIsAccepted
    CommandsGoWhereDue
    OpenDialogShowsTable
CHECK_DEADLOCK FALSE
