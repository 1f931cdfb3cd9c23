SPECIFICATION SceneSpec
CONSTANTS
    Cameras = 2
    Payloads = {1, 2}
    Lists <- MCLists
INVARIANTS
    SceneShowsNewestFrames
    BallsShowNewestFrames
PROPERTIES
    ItemsAreRecycled
