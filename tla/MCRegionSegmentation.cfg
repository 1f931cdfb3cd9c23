SPECIFICATION Spec
CONSTANTS
    Shapes <- MCShapes
    NumColors = 2
    MinArea = 1
    CMV_RADIX = 2
    Filters <- MCFilters
INVARIANTS
    ParentsPrecede
    OneParentPerComponent
    RegionsMeasureComponents
    ChainsFollowRegions
    ListsSortedByArea
    FilterAgreesWithCheck
CHECK_DEADLOCK FALSE
