SPECIFICATION Spec
CONSTANTS
    NumCameras = 2
    Robots = {0, 1}
    Teams = {blue}
    MaxListed = 2
    MaxFrames = 4
INVARIANTS
    RobotsMatchHistory
    BallMatchesHistory
CHECK_DEADLOCK FALSE
