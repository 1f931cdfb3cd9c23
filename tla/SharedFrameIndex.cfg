SPECIFICATION Spec
CONSTANTS
    MaxRobots = 2
    MaxFrames = 3
    Positions = {8}
    MaxMoves = 0
    MaxViews = 1
INVARIANTS
    IndexInBounds
