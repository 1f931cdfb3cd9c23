SPECIFICATION FairSpec
CONSTANTS
    MAX_NUM_ROBOTS = 2
    TeamSize = 3
    RULE_AMOUNT = 2
    Motions <- MCMotions
    MaxBacklog = 1
INVARIANTS
    LastRuleStands
    StandStillUnlessWORK
    SimulatorFollowsRobots
PROPERTIES
    PausedRobotsStop
