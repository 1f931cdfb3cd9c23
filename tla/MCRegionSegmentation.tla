------------------------ MODULE MCRegionSegmentation ------------------------
(* Values of the constants of RegionSegmentation for model checking. *)
EXTENDS RegionSegmentation

Shape(w, h, rows, maxRuns, maxRegions) ==
    [width |-> w, height |-> h, rows |-> rows, max_runs |-> maxRuns,
     max_regions |-> maxRegions]

AllRows(w, colors) == [0..w-1 -> colors]

(* Rows whose union climbs on both sides. *)
TallTrees ==
    {[column \in 0..6 |-> row[column + 1]] :
        row \in {<<1,0,1,1,1,0,1>>, <<1,0,1,0,1,0,1>>, <<1,1,1,0,1,1,1>>, <<1,1,1,1,1,1,1>>}}

MCShapes ==
    {Shape(3, 3, AllRows(3, 0..2), 20, 20),     \* Colours that touch each other,
     Shape(5, 3, AllRows(5, {0, 1}), 20, 20),   \* components that wind,
     Shape(7, 4, TallTrees, 40, 20),
     Shape(3, 3, AllRows(3, {0, 1}), 6, 20),    \* a full run list,
     Shape(3, 3, AllRows(3, {0, 1}), 20, 3)}    \* a full region table.

Between(a, b) == [min |-> a, max |-> b]
MCFilters ==
    {[area |-> Between(2, 4), width |-> Between(1, 2), height |-> Between(1, 3)],
     [area |-> Between(1, 3), width |-> Between(1, 5), height |-> Between(2, 3)]}
=============================================================================
