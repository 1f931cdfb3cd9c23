SPECIFICATION MessageSpec
CONSTANTS
    MAX_NUM_ROBOTS = 4
    Files <- MCFiles
    Rows <- MCRows
    Windows <- MCWindows
    Junk = {1, 101}
    Bursts <- MCBursts
INVARIANTS
    RulesReachTheRobot
    DamageIsNoticed
CHECK_DEADLOCK FALSE
