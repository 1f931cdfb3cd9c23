------------------------- MODULE RegionSegmentation -------------------------
(***************************************************************************)
(* macsCommon's CMVision: how a thresholded image becomes, per colour, a   *)
(* list of regions sorted by area.  Each row is cut into runs of one       *)
(* colour; runs that touch are joined by a union-find whose trees live in  *)
(* the parent fields; then regions are measured, divided by colour, sorted *)
(* and filtered.  One step is one turn of a loop of connectComponents or   *)
(* extractRegions, or one whole pass of the rest.                          *)
(*                                                                         *)
(* The copies r1 and r2 of the two runs being compared differ from the     *)
(* array in nothing but their parent: p1 and p2 are those.  A centroid is  *)
(* the fraction it is computed as.  Lists linked through the regions are   *)
(* sequences; run and region numbers count from 0 as in the code.          *)
(***************************************************************************)
EXTENDS Integers, FiniteSets, FiniteSetsExt, Sequences, SequencesExt

CONSTANTS
    Shapes,     \* Kinds of images, and the room for their runs and regions:
                \* [width, height, rows, max_runs, max_regions].
    NumColors,  \* Colours with a list; 0 is clear.
    MinArea,
    CMV_RADIX,  \* 1 << CMV_RBITS: the area is sorted by a digit a pass.
    Filters     \* [area, width, height], each [min, max].

ASSUME SizeAssumption ==
    /\ NumColors \in Nat \ {0} /\ MinArea \in Nat /\ CMV_RADIX \in Nat \ {0, 1}
(* The run list has room for more than the first row. *)
ASSUME ShapeAssumption ==
    \A shape \in Shapes :
        /\ shape.width \in Nat \ {0} /\ shape.height \in Nat \ {0, 1}
        /\ shape.rows \subseteq [0..shape.width-1 -> Nat]
        /\ shape.max_runs \in Nat /\ shape.max_runs > shape.width
        /\ shape.max_regions \in Nat \ {0}
ASSUME FilterAssumption ==
    \A filter \in Filters : filter.area.min \in Int /\ filter.area.max \in Int

VARIABLES
    pc,        \* The function being executed.
    image,     \* Its shape and its pixels, row by row.
    x, y,      \* Where encodeRuns is.
    num,       \* Runs so far; used_runs in the end.
    runs,      \* [x, y, width, color] of each run.
    parent,    \* The run's parent; its region's number once extracted.
    nextRun,   \* The next run of the same region.
    l1, l2,    \* The runs compared: l1 one row below l2.
    p1, p2,    \* Their parents, as copied into r1 and r2.
    s,         \* The last l1 that was given a parent.
    i, j,      \* Climbing to the roots; i also counts in later loops.
    regions,   \* The region table.
    full,      \* Extraction ended because the table was full.
    lists      \* The regions of each colour.

readVars == <<image, x, y>>
connectVars == <<l1, l2, p1, p2, s, j>>
vars == <<pc, readVars, num, runs, parent, nextRun, connectVars, i, regions, full, lists>>

Empty == [c \in 0..NumColors-1 |-> <<>>]
Smaller(a, b) == IF a < b THEN a ELSE b
Larger(a, b) == IF a < b THEN b ELSE a

Init ==
    /\ pc = "encode"
    /\ \E shape \in Shapes :
         \E pixel \in [0..shape.height-1 -> shape.rows] :
           image = [width |-> shape.width, height |-> shape.height, pixel |-> pixel,
                    max_runs |-> shape.max_runs, max_regions |-> shape.max_regions]
    /\ x = 0 /\ y = 0
    /\ num = 0 /\ runs = <<>> /\ parent = <<>> /\ nextRun = <<>>
    /\ l1 = 0 /\ l2 = 0 /\ p1 = 0 /\ p2 = 0 /\ s = 0 /\ i = 0 /\ j = 0
    /\ regions = <<>> /\ full = FALSE /\ lists = Empty

-----------------------------------------------------------------------------
(* encodeRuns, one run a step. *)

PixelColor(q) == image.pixel[q[2]][q[1]]

(* Where the run that starts at x ends: another colour, or the row's end. *)
RunEnd ==
    Min({q \in x+1..image.width :
            q = image.width \/ PixelColor(<<q, y>>) # PixelColor(<<x, y>>)})

(* A clear run counts only at the end of a row. *)
IsEncoded == PixelColor(<<x, y>>) # 0 \/ RunEnd = image.width

ThisRun == [x |-> x, y |-> y, width |-> RunEnd - x, color |-> PixelColor(<<x, y>>)]

WithLast(f, v) == [k \in 0..num |-> IF k = num THEN v ELSE f[k]]

EncodeRun ==
    /\ pc = "encode"
    /\ IF IsEncoded
       THEN /\ num' = num + 1
            /\ runs' = WithLast(runs, ThisRun)
            /\ parent' = WithLast(parent, num)
            /\ nextRun' = WithLast(nextRun, 0)
       ELSE UNCHANGED <<num, runs, parent, nextRun>>
    /\ x' = IF RunEnd = image.width THEN 0 ELSE RunEnd
    /\ y' = IF RunEnd = image.width THEN y + 1 ELSE y
    /\ pc' = IF num' >= image.max_runs \/ y' = image.height THEN "skip" ELSE pc
    /\ UNCHANGED <<image, connectVars, i, regions, full, lists>>

-----------------------------------------------------------------------------
(* connectComponents. *)

SkipFirstLine ==
    /\ pc = "skip"
    /\ l1' = Min({k \in 1..num-1 : runs[k].y # 0})
    /\ l2' = 0
    /\ p1' = parent[l1'] /\ p2' = parent[0]
    /\ s' = l1'
    /\ pc' = "scan"
    /\ UNCHANGED <<readVars, num, runs, parent, nextRun, i, j, regions, full, lists>>

End(k) == runs[k].x + runs[k].width
Overlap(a, b) ==
    \/ runs[b].x <= runs[a].x /\ runs[a].x < End(b)
    \/ runs[a].x <= runs[b].x /\ runs[b].x < End(a)
Joined(a, b) ==
    runs[a].color = runs[b].color /\ runs[a].color # 0 /\ Overlap(a, b)

(* On to the next place where either row changes; q1 and q2 are the parents *)
(* r1 and r2 have by now.  Past the last run r1 is read but not used.       *)
Advance(q1, q2) ==
    /\ IF End(l2) >= End(l1)
       THEN l1' = l1 + 1 /\ p1' = (IF l1 + 1 < num THEN parent'[l1 + 1] ELSE q1)
       ELSE l1' = l1 /\ p1' = q1
    /\ IF End(l2) <= End(l1)
       THEN l2' = l2 + 1 /\ p2' = parent'[l2 + 1]
       ELSE l2' = l2 /\ p2' = q2

Scanning == pc = "scan" /\ l1 < num

PassOn ==
    /\ Scanning
    /\ ~Joined(l1, l2) \/ (s = l1 /\ p1 = p2)
    /\ UNCHANGED parent
    /\ Advance(p1, p2)
    /\ UNCHANGED <<pc, readVars, num, runs, nextRun, s, i, j, regions, full, lists>>

(* The run has no parent yet: take this one. *)
Adopt ==
    /\ Scanning
    /\ Joined(l1, l2) /\ s # l1
    /\ parent' = [parent EXCEPT ![l1] = p2]
    /\ s' = l1
    /\ Advance(p2, p2)
    /\ UNCHANGED <<pc, readVars, num, runs, nextRun, i, j, regions, full, lists>>

TwoParents ==
    /\ Scanning
    /\ Joined(l1, l2) /\ s = l1 /\ p1 # p2
    /\ i' = p1 /\ j' = p2
    /\ pc' = "climb"
    /\ UNCHANGED <<readVars, num, runs, parent, nextRun, l1, l2, p1, p2, s, regions,
                   full, lists>>

IsRoot(k) == parent[k] = k

ClimbLeft ==
    /\ pc = "climb" /\ ~IsRoot(i)
    /\ i' = parent[i]
    /\ UNCHANGED <<pc, readVars, num, runs, parent, nextRun, connectVars, regions,
                   full, lists>>

ClimbRight ==
    /\ pc = "climb" /\ IsRoot(i) /\ ~IsRoot(j)
    /\ j' = parent[j]
    /\ UNCHANGED <<pc, readVars, num, runs, parent, nextRun, l1, l2, p1, p2, s, i,
                   regions, full, lists>>

UnionUnderLarger ==
    LET root == Larger(i, j) IN
    [parent EXCEPT ![Smaller(i, j)] = root, ![l1] = root, ![l2] = root]

UnionForgettingRoot ==
    [parent EXCEPT ![l1] = Smaller(i, j), ![l2] = Smaller(i, j)]

(* The larger root, and both runs, go under the smaller root. *)
Union ==
    LET root == Smaller(i, j) IN
    [parent EXCEPT ![Larger(i, j)] = root, ![l1] = root, ![l2] = root]

UniteRoots ==
    /\ pc = "climb" /\ IsRoot(i) /\ IsRoot(j)
    /\ parent' = Union
    /\ Advance(Smaller(i, j), Smaller(i, j))
    /\ pc' = "scan"
    /\ UNCHANGED <<readVars, num, runs, nextRun, s, i, j, regions, full, lists>>

EndScan ==
    /\ pc = "scan" /\ l1 >= num
    /\ i' = 0
    /\ pc' = "compress"
    /\ UNCHANGED <<readVars, num, runs, parent, nextRun, connectVars, regions, full, lists>>

Compress ==
    /\ pc = "compress" /\ i < num
    /\ parent' = [parent EXCEPT ![i] = parent[parent[i]]]
    /\ i' = i + 1
    /\ UNCHANGED <<pc, readVars, num, runs, nextRun, connectVars, regions, full, lists>>

EndCompress ==
    /\ pc = "compress" /\ i = num
    /\ i' = 0
    /\ pc' = "extract"
    /\ UNCHANGED <<readVars, num, runs, parent, nextRun, connectVars, regions, full, lists>>

-----------------------------------------------------------------------------
(* extractRegions.  Region b is regions[b + 1]. *)

rangeSum(from, w) == (w * (2 * from + w - 1)) \div 2

NewRegion(r) ==
    [color |-> r.color, area |-> r.width,
     x1 |-> r.x, y1 |-> r.y, x2 |-> r.x + r.width, y2 |-> r.y,
     cen_x |-> <<rangeSum(r.x, r.width), 1>>, cen_y |-> <<r.y * r.width, 1>>,
     run_start |-> i, iterator_id |-> i]

AddToSum(cen, amount) == <<cen[1] + amount, cen[2]>>

GrownWithoutLast(g, r) ==
    [g EXCEPT !.area = @ + r.width,
              !.x2 = Larger(r.x + r.width, @), !.x1 = Smaller(r.x, @),
              !.y2 = r.y,
              !.cen_x = AddToSum(@, rangeSum(r.x, r.width)),
              !.cen_y = AddToSum(@, r.y * r.width)]

Grown(g, r) ==
    [g EXCEPT !.area = @ + r.width,
              !.x2 = Larger(r.x + r.width, @), !.x1 = Smaller(r.x, @),
              !.y2 = r.y,
              !.cen_x = AddToSum(@, rangeSum(r.x, r.width)),
              !.cen_y = AddToSum(@, r.y * r.width),
              !.iterator_id = i]

Extracting == pc = "extract" /\ i < num

SkipClear ==
    /\ Extracting /\ runs[i].color = 0
    /\ i' = i + 1
    /\ UNCHANGED <<pc, readVars, num, runs, parent, nextRun, connectVars, regions,
                   full, lists>>

(* A run that is its own parent starts a region; its parent becomes the   *)
(* region's number.  A full table ends everything on the spot.            *)
StartRegion ==
    /\ Extracting /\ runs[i].color # 0 /\ IsRoot(i)
    /\ parent' = [parent EXCEPT ![i] = Len(regions)]
    /\ regions' = Append(regions, NewRegion(runs[i]))
    /\ i' = i + 1
    /\ full' = (Len(regions') >= image.max_regions)
    /\ pc' = IF full' THEN "separate" ELSE pc
    /\ UNCHANGED <<readVars, num, runs, nextRun, connectVars, lists>>

ExtendRegion ==
    /\ Extracting /\ runs[i].color # 0 /\ ~IsRoot(i)
    /\ LET b == parent[parent[i]] IN
         /\ parent' = [parent EXCEPT ![i] = b]
         /\ nextRun' = [nextRun EXCEPT ![regions[b + 1].iterator_id] = i]
         /\ regions' = [regions EXCEPT ![b + 1] = Grown(@, runs[i])]
    /\ i' = i + 1
    /\ UNCHANGED <<pc, readVars, num, runs, connectVars, full, lists>>

FinishedExclusive(g) ==
    [g EXCEPT !.cen_x = <<@[1], g.area>>, !.cen_y = <<@[1], g.area>>,
              !.iterator_id = 0]

Finished(g) ==
    [g EXCEPT !.cen_x = <<@[1], g.area>>, !.cen_y = <<@[1], g.area>>,
              !.iterator_id = 0, !.x2 = @ - 1]

FinishRegions ==
    /\ pc = "extract" /\ i >= num
    /\ regions' = [b \in DOMAIN regions |-> Finished(regions[b])]
    /\ nextRun' = [k \in DOMAIN nextRun |->
                     IF \E b \in DOMAIN regions : regions[b].iterator_id = k
                     THEN 0 ELSE nextRun[k]]
    /\ pc' = "separate"
    /\ UNCHANGED <<readVars, num, runs, parent, connectVars, i, full, lists>>

-----------------------------------------------------------------------------
(* separateRegions and sortRegions. *)

(* Each region goes to the front; a colour without a list is passed over. *)
InsertFront(table, b) ==
    [c \in DOMAIN table |->
        IF c = regions[b].color /\ regions[b].area >= MinArea
        THEN <<b>> \o table[c] ELSE table[c]]

Separated ==
    LET table[n \in 0..Len(regions)] ==
          IF n = 0 THEN Empty ELSE InsertFront(table[n - 1], n)
    IN table[Len(regions)]

separateRegions ==
    /\ pc = "separate"
    /\ lists' = Separated
    /\ pc' = "sort"
    /\ UNCHANGED <<readVars, num, runs, parent, nextRun, connectVars, i, regions, full>>

(* area >> (CMV_RBITS * pass), which is dropping the last digits. *)
Shifted(area, pass) ==
    LET rest[n \in 0..pass] == IF n = 0 THEN area ELSE rest[n - 1] \div CMV_RADIX
    IN rest[pass]

MaxArea ==
    Max({0} \cup {regions[b].area : b \in UNION {Range(lists[c]) : c \in DOMAIN lists}})
(* As many as touch the largest area's highest bit. *)
Passes == Min({p \in 0..MaxArea : Shifted(MaxArea, p) = 0})

SlotOfFirstPass(b, pass) == regions[b].area % CMV_RADIX
Slot(b, pass) == Shifted(regions[b].area, pass) % CMV_RADIX

Slots == 0..CMV_RADIX-1

Split(list, pass) ==
    LET tbl[n \in 0..Len(list)] ==
          IF n = 0 THEN [slot \in Slots |-> <<>>]
          ELSE [tbl[n - 1] EXCEPT ![Slot(list[n], pass)] = <<list[n]>> \o @]
    IN tbl[Len(list)]

Integrated(tbl) ==
    LET done[n \in 0..CMV_RADIX] ==
          IF n = 0 THEN <<>> ELSE Reverse(tbl[n - 1]) \o done[n - 1]
    IN done[CMV_RADIX]

(* Both moves put what they take at the front. *)
SortPass(list, pass) == Integrated(Split(list, pass))

sortRegionListByArea(list, passes) ==
    LET sorted[n \in 0..passes] ==
          IF n = 0 THEN list ELSE SortPass(sorted[n - 1], n - 1)
    IN IF Len(list) <= 1 THEN list ELSE sorted[passes]

sortRegions ==
    /\ pc = "sort"
    /\ lists' = [c \in DOMAIN lists |-> sortRegionListByArea(lists[c], Passes)]
    /\ pc' = "done"
    /\ UNCHANGED <<readVars, num, runs, parent, nextRun, connectVars, i, regions, full>>

-----------------------------------------------------------------------------
(* RegionFilter: what init and then getNext, until it returns 0, find in a *)
(* list; and check, which asks the same of one region.                     *)

inside(range, v) == range.min <= v /\ v <= range.max
width(g) == g.x2 - g.x1 + 1
height(g) == g.y2 - g.y1 + 1
RightSize(filter, g) == inside(filter.width, width(g)) /\ inside(filter.height, height(g))
check(filter, g) == inside(filter.area, g.area) /\ RightSize(filter, g)

FromStart(filter, list) == 1
FirstOfSize(filter, list) ==
    Min({Len(list) + 1} \cup {k \in DOMAIN list : regions[list[k]].area <= filter.area.max})
FirstTooSmall(filter, list) ==
    Min({Len(list) + 1} \cup {k \in DOMAIN list : regions[list[k]].area < filter.area.min})

(* The places of the list where it finds one. *)
Found(filter, list) ==
    {k \in FirstOfSize(filter, list)..FirstTooSmall(filter, list) - 1 :
        RightSize(filter, regions[list[k]])}

-----------------------------------------------------------------------------

ConnectStep ==
    \/ SkipFirstLine \/ PassOn \/ Adopt \/ TwoParents
    \/ ClimbLeft \/ ClimbRight \/ UniteRoots \/ EndScan
    \/ Compress \/ EndCompress

ExtractStep == SkipClear \/ StartRegion \/ ExtendRegion \/ FinishRegions

Next == EncodeRun \/ ConnectStep \/ ExtractStep \/ separateRegions \/ sortRegions

Spec == Init /\ [][Next]_vars

-----------------------------------------------------------------------------
(* What the regions of an image are, said of its pixels alone. *)

Pixels == (0..image.width-1) \X (0..image.height-1)
Near(q) ==
    {r \in {q, <<q[1]-1, q[2]>>, <<q[1]+1, q[2]>>, <<q[1], q[2]-1>>, <<q[1], q[2]+1>>} :
        r \in Pixels /\ PixelColor(r) = PixelColor(q)}

(* All pixels a walk through pixels of q's colour leads to. *)
Component(q) ==
    LET reached[S \in SUBSET Pixels] ==
          LET near == UNION {Near(r) : r \in S}
          IN IF near = S THEN S ELSE reached[near]
    IN reached[{q}]

ColoredPixels == {q \in Pixels : PixelColor(q) # 0}
PixelsOfRun(k) == (runs[k].x..End(k)-1) \X {runs[k].y}
ColoredRuns == {k \in 0..num-1 : runs[k].color # 0}
(* max_runs did not cut the image short. *)
WholeImage == y = image.height

-----------------------------------------------------------------------------
(* Properties. *)

(* What connectComponents calls its DAG property: no run has a parent after *)
(* it, so climbing ends, and one pass of compression in order is enough.    *)
(* Extraction relies on it too: a region's number is there before it is     *)
(* asked for.                                                               *)
ParentsPrecede == \A k \in DOMAIN parent : parent[k] <= k

PixelsOfParent(p) == UNION {PixelsOfRun(k) : k \in {m \in ColoredRuns : parent[m] = p}}

(* The union-find is right: when it ends, the runs of one parent make up a *)
(* component of the image, however it winds, and no pixel is left out.     *)
OneParentPerComponent ==
    pc = "extract" /\ i = 0 /\ WholeImage =>
      LET parents == {parent[k] : k \in ColoredRuns} IN
      /\ UNION {PixelsOfRun(k) : k \in ColoredRuns} = ColoredPixels
      /\ \A p \in parents :
            LET pixels == PixelsOfParent(p)
            IN pixels = Component(CHOOSE q \in pixels : TRUE)

Measured(b) ==
    LET g == regions[b] IN
    [color |-> g.color, area |-> g.area, x1 |-> g.x1, y1 |-> g.y1, x2 |-> g.x2,
     y2 |-> g.y2, cen_x |-> g.cen_x, cen_y |-> g.cen_y]

Measure(component) ==
    LET xs == {q[1] : q \in component}
        ys == {q[2] : q \in component}
        area == Cardinality(component)
    IN [color |-> PixelColor(CHOOSE q \in component : TRUE), area |-> area,
        x1 |-> Min(xs), y1 |-> Min(ys), x2 |-> Max(xs), y2 |-> Max(ys),
        cen_x |-> <<MapThenSumSet(LAMBDA q : q[1], component), area>>,
        cen_y |-> <<MapThenSumSet(LAMBDA q : q[2], component), area>>]

FirstPixel(b) == LET r == runs[regions[b].run_start] IN <<r.x, r.y>>

(* Unless a table was full, the regions are the components of the image,   *)
(* each once, with its true area, inclusive bounding box and centroid.     *)
RegionsMeasureComponents ==
    pc = "separate" /\ WholeImage /\ ~full =>
      /\ \A b \in DOMAIN regions : Measured(b) = Measure(Component(FirstPixel(b)))
      /\ MapThenSumSet(LAMBDA b : regions[b].area, DOMAIN regions)
           = Cardinality(ColoredPixels)

(* From run_start on, next leads through the runs of the region in the     *)
(* order of the image, all of them, and ends with 0, full table or not.    *)
ChainsFollowRegions ==
    pc = "separate" =>
      \A b \in DOMAIN regions :
        LET mine == {k \in ColoredRuns : k < i /\ parent[k] = b - 1} IN
        /\ regions[b].run_start = Min(mine)
        /\ \A k \in mine :
              LET later == {m \in mine : m > k} IN
              nextRun[k] = IF later = {} THEN 0 ELSE Min(later)

(* A colour's list ends up with each of its regions that is large enough,  *)
(* once, the largest first, however many passes the sorting takes.         *)
ListsSortedByArea ==
    pc = "done" =>
      \A c \in 0..NumColors-1 :
        /\ Range(lists[c]) =
             {b \in DOMAIN regions : regions[b].color = c /\ regions[b].area >= MinArea}
        /\ Cardinality(Range(lists[c])) = Len(lists[c])
        /\ \A k \in 1..Len(lists[c])-1 :
              regions[lists[c][k]].area >= regions[lists[c][k + 1]].area

(* Walking a sorted list, with its shortcuts at both ends, finds exactly   *)
(* the regions that the filter's check accepts.                            *)
FilterAgreesWithCheck ==
    pc = "done" =>
      \A c \in 0..NumColors-1, filter \in Filters :
        Found(filter, lists[c]) =
          {k \in DOMAIN lists[c] : check(filter, regions[lists[c][k]])}
=============================================================================
