SPECIFICATION FairSpec
CONSTANTS
    MaxRobots = 2
    MaxFrames = 3
    Positions = {1, 20}
    MaxMoves = 4
    MaxViews = 1
INVARIANTS
    SettledScreenIsNewest
    ZoomFollowsSlider
PROPERTIES
    AnnouncedFrameIsShown
    ScalingIsServed
