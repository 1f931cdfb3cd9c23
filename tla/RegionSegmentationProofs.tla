---------------------- MODULE RegionSegmentationProofs ----------------------
(***************************************************************************)
(* Proofs about RegionSegmentation, for images, run lists and region       *)
(* tables of every size: no run ever has a parent after itself, runs have  *)
(* one parent exactly when they belong to one component of the image, the  *)
(* chain of a region leads through all of its runs in order, the region    *)
(* measures that component exactly, each colour's list is complete and     *)
(* sorted, and the filter's walk finds what it checks.                     *)
(*                                                                         *)
(* The first depends on the lock step of the scan: l1 must stay one row    *)
(* below l2, which rests on what encodeRuns puts at the end of each row.   *)
(* The lists are the correctness of a radix sort, for every radix: after p *)
(* passes those that agree but in their last p digits are sorted, because  *)
(* a pass keeps the order of what it puts in one slot.                     *)
(***************************************************************************)
EXTENDS RegionSegmentation, TLAPS, FiniteSetTheorems, WellFoundedInduction

Stages == {"encode", "skip", "scan", "climb", "compress", "extract", "separate",
           "sort", "done"}

Sizes ==
    /\ image.width \in Nat \ {0} /\ image.height \in Nat \ {0, 1}
    /\ image.max_runs \in Nat /\ image.max_runs > image.width

Runs ==
    /\ num \in Nat
    /\ \A k \in 0..num-1 :
         /\ runs[k].x \in Nat /\ runs[k].y \in Nat /\ runs[k].width \in Nat
         /\ End(k) <= image.width

(* The last run of a row reaches its end, and the next one is in the next row. *)
RowsInOrder ==
    /\ num > 0 => runs[0].y = 0
    /\ \A a, b \in 0..num-1 : a <= b => runs[a].y <= runs[b].y
    /\ \A k \in 0..num-1 : k + 1 < num =>
         runs[k + 1].y = IF End(k) < image.width THEN runs[k].y ELSE runs[k].y + 1

(* The place encodeRuns has reached, seen from the last run. *)
Cursor ==
    pc = "encode" =>
      /\ x \in Nat /\ y \in Nat /\ x < image.width /\ y < image.height
      /\ num < image.max_runs
      /\ y > 0 => num > 0
      /\ num > 0 =>
           \/ x > 0 /\ runs[num-1].y = y /\ End(num-1) <= x
           \/ y > 0 /\ runs[num-1].y = y - 1 /\ End(num-1) = image.width
      /\ num > 0 /\ runs[num-1].y = 0 => num <= End(num-1)

(* There is a second row for l1 to start on. *)
SecondRow == pc # "encode" => num >= 2 /\ runs[num-1].y >= 1

Forest ==
    /\ parent \in [0..num-1 -> Nat]
    /\ \A k \in 0..num-1 : parent[k] <= k

LockStep ==
    pc \in {"scan", "climb"} =>
      /\ l1 \in Nat /\ l2 \in Nat
      /\ l1 < num =>
           /\ runs[l1].y = runs[l2].y + 1 /\ l2 < l1
           /\ p1 \in Nat /\ p1 <= l1 /\ p2 \in Nat /\ p2 <= l2
      /\ pc = "climb" =>
           l1 < num /\ i \in Nat /\ i <= l1 /\ j \in Nat /\ j <= l2

Counting ==
    /\ pc \in {"compress", "extract"} => i \in 0..num
    /\ \E S : regions \in Seq(S)
    /\ pc \in Stages \ {"extract", "separate", "sort", "done"} => Len(regions) = 0
    /\ pc = "extract" => Len(regions) <= i

IInv ==
    /\ pc \in Stages
    /\ Sizes /\ Runs /\ RowsInOrder /\ Cursor /\ SecondRow /\ Forest /\ LockStep
    /\ Counting

-----------------------------------------------------------------------------

LEMMA MinIsLeast ==
    ASSUME NEW S, S \subseteq Nat, S # {}
    PROVE  Min(S) \in S /\ \A n \in S : Min(S) <= n
<1>1. PICK n \in S : \A m \in S : ~ (<<m, n>> \in OpToRel(<, Nat))
  BY NatLessThanWellFounded, WFMin
<1>2. ASSUME NEW m \in S PROVE ~ (m < n)
  <2>1. <<m, n>> \notin OpToRel(<, Nat) /\ m \in Nat /\ n \in Nat BY <1>1
  <2> QED BY <2>1 DEF OpToRel
<1>3. \A m \in S : n <= m
  BY <1>2
<1> QED BY <1>3 DEF Min

(* A run ends after its start and within its row. *)
LEMMA RunEndInRow ==
    ASSUME Sizes, x \in Nat, x < image.width
    PROVE  RunEnd \in Nat /\ x < RunEnd /\ RunEnd <= image.width
<1> DEFINE S == {q \in x+1..image.width :
                   q = image.width \/ PixelColor(<<q, y>>) # PixelColor(<<x, y>>)}
<1>1. image.width \in S /\ S \subseteq Nat
  BY DEF Sizes
<1>2. Min(S) \in S
  <2> HIDE DEF S
  <2> QED BY <1>1, MinIsLeast
<1> QED BY <1>2 DEF RunEnd, Sizes

LEMMA Initially == Init => IInv
<1> SUFFICES ASSUME Init PROVE IInv OBVIOUS
<1>1. Sizes
  <2>1. PICK shape \in Shapes : \E pixel \in [0..shape.height-1 -> shape.rows] :
           image = [width |-> shape.width, height |-> shape.height, pixel |-> pixel,
                    max_runs |-> shape.max_runs, max_regions |-> shape.max_regions]
    BY DEF Init
  <2>2. /\ shape.width \in Nat \ {0} /\ shape.height \in Nat \ {0, 1}
        /\ shape.max_runs \in Nat /\ shape.max_runs > shape.width
    BY ShapeAssumption
  <2>3. image.width = shape.width /\ image.height = shape.height
        /\ image.max_runs = shape.max_runs
    BY <2>1
  <2> QED BY <2>2, <2>3 DEF Sizes
<1>2. Runs /\ RowsInOrder /\ Forest BY DEF Init, Runs, RowsInOrder, Forest
<1>3. Cursor BY <1>1 DEF Init, Cursor, Sizes
<1>4. (\E S : regions \in Seq(S)) /\ Len(regions) = 0
  <2>1. <<>> \in Seq({}) /\ Len(<<>>) = 0 OBVIOUS
  <2> QED BY <2>1 DEF Init
<1> QED BY <1>1, <1>2, <1>3, <1>4 DEF Init, IInv, Stages, SecondRow, LockStep, Counting

-----------------------------------------------------------------------------
(* Encoding. *)

LEMMA EncodingKeepsInv == IInv /\ EncodeRun => IInv'
<1> SUFFICES ASSUME IInv, EncodeRun PROVE IInv' OBVIOUS
<1>1. /\ x \in Nat /\ y \in Nat /\ x < image.width /\ y < image.height
      /\ num < image.max_runs /\ num \in Nat
      /\ RunEnd \in Nat /\ x < RunEnd /\ RunEnd <= image.width
  BY RunEndInRow DEF IInv, EncodeRun, Cursor, Runs
<1>2. Sizes /\ Sizes' BY DEF IInv, EncodeRun, Sizes
<1>3. /\ x' = IF RunEnd = image.width THEN 0 ELSE RunEnd
      /\ y' = IF RunEnd = image.width THEN y + 1 ELSE y
      /\ pc' = IF num' >= image.max_runs \/ y' = image.height THEN "skip" ELSE "encode"
      /\ pc = "encode" /\ image' = image /\ regions' = regions
  BY DEF EncodeRun
<1>4. x' \in Nat /\ y' \in Nat /\ x' < image.width /\ y' <= image.height
  BY <1>1, <1>2, <1>3 DEF Sizes
<1>5. LockStep' /\ Counting' /\ pc' \in Stages
  BY <1>3 DEF IInv, LockStep, Counting, Stages
<1>6. CASE ~IsEncoded
  <2>1. num' = num /\ runs' = runs /\ parent' = parent /\ RunEnd < image.width
    BY <1>1, <1>2, <1>6 DEF IsEncoded, Sizes, EncodeRun
  <2>2. Runs' /\ RowsInOrder' /\ Forest'
    BY <2>1, <1>3 DEF IInv, Runs, RowsInOrder, Forest, End
  <2>3. x' = RunEnd /\ y' = y /\ pc' = "encode"
    BY <2>1, <1>1, <1>2, <1>3 DEF Sizes
  <2>4. num > 0 => End(num-1) \in Nat
    BY <1>1 DEF IInv, Runs, End
  <2>5. Cursor'
    BY <2>1, <2>3, <2>4, <1>1, <1>2, <1>3 DEF IInv, Cursor, End, Sizes
  <2> QED BY <2>2, <2>3, <2>5, <1>2, <1>5 DEF IInv, SecondRow
<1>7. CASE IsEncoded
  <2>1. num' = num + 1 /\ runs' = WithLast(runs, ThisRun) /\ parent' = WithLast(parent, num)
    BY <1>7 DEF EncodeRun
  <2>2. /\ \A k \in 0..num-1 : runs'[k] = runs[k] /\ parent'[k] = parent[k]
        /\ runs'[num] = ThisRun /\ parent'[num] = num
        /\ parent' \in [0..num'-1 -> Nat]
    BY <2>1, <1>1 DEF WithLast, IInv, Forest
  <2>3. Forest'
    BY <2>1, <2>2, <1>1 DEF IInv, Forest
  <2>4. /\ ThisRun.x = x /\ ThisRun.y = y /\ ThisRun.width \in Nat
        /\ x + ThisRun.width = RunEnd
    BY <1>1 DEF ThisRun
  <2>5. \A k \in 0..num-1 : End(k)' = End(k) /\ End(k) \in Nat
    BY <2>2 DEF End, IInv, Runs
  <2>6. runs'[num].x + runs'[num].width = RunEnd
    BY <2>2, <2>4
  <2>7. Runs'
    <3> SUFFICES ASSUME NEW k \in 0..num'-1
                 PROVE  /\ runs'[k].x \in Nat /\ runs'[k].y \in Nat /\ runs'[k].width \in Nat
                        /\ End(k)' <= image'.width
      BY <2>1, <1>1 DEF Runs
    <3>1. CASE k < num
      <4>1. k \in 0..num-1 /\ image' = image BY <3>1, <2>1, <1>1, <1>3
      <4>2. runs'[k] = runs[k] /\ End(k)' = End(k) BY <4>1, <2>2, <2>5
      <4>3. /\ runs[k].x \in Nat /\ runs[k].y \in Nat /\ runs[k].width \in Nat
            /\ End(k) <= image.width
        BY <4>1 DEF IInv, Runs
      <4> QED BY <4>1, <4>2, <4>3
    <3>2. CASE k = num
      BY <3>2, <2>2, <2>4, <2>6, <1>1, <1>3 DEF End
    <3> QED BY <3>1, <3>2, <2>1, <1>1
  <2>8. num > 0 => runs[num-1].y \in Nat /\ runs[num-1].y <= y
    BY <1>1, <1>3 DEF IInv, Runs, Cursor
  <2>9. RowsInOrder'
    <3>1. num' > 0 => runs'[0].y = 0
      BY <2>1, <2>2, <2>4, <1>1, <1>3 DEF IInv, RowsInOrder, Cursor
    <3>2. ASSUME NEW a \in 0..num'-1, NEW b \in 0..num'-1, a <= b
          PROVE  runs'[a].y <= runs'[b].y
      <4>1. CASE b < num
        BY <3>2, <4>1, <2>2, <1>1 DEF IInv, RowsInOrder
      <4>2. CASE b = num /\ a < num
        <5>1. runs[a].y <= runs[num-1].y /\ runs[a].y \in Nat
          BY <4>2, <1>1 DEF IInv, RowsInOrder, Runs
        <5>2. runs'[a] = runs[a] BY <4>2, <2>2, <1>1
        <5>3. runs'[b].y = y BY <4>2, <2>2, <2>4, <1>1
        <5>4. runs[num-1].y \in Nat /\ runs[num-1].y <= y /\ y \in Nat
          BY <4>2, <2>8, <1>1, <1>3 DEF IInv, Cursor
        <5> QED BY <5>1, <5>2, <5>3, <5>4
      <4>3. CASE b = num /\ a = num
        BY <4>3, <2>2, <2>4, <1>1
      <4> QED BY <3>2, <4>1, <4>2, <4>3, <2>1, <1>1
    <3>3. ASSUME NEW k \in 0..num'-1, k + 1 < num'
          PROVE  runs'[k + 1].y = IF End(k)' < image'.width
                                  THEN runs'[k].y ELSE runs'[k].y + 1
      <4>1. CASE k + 1 < num
        <5>1. /\ k \in 0..num-1 /\ k + 1 \in 0..num-1
              /\ runs[k + 1].y = IF End(k) < image.width THEN runs[k].y ELSE runs[k].y + 1
          BY <3>3, <4>1, <1>1 DEF IInv, RowsInOrder
        <5>2. runs'[k + 1] = runs[k + 1] /\ runs'[k] = runs[k] /\ End(k)' = End(k)
          BY <5>1, <2>2, <2>5
        <5> QED BY <5>1, <5>2, <1>3
      <4>2. CASE k + 1 = num
        <5>1. \/ x > 0 /\ runs[num-1].y = y /\ End(num-1) <= x
              \/ y > 0 /\ runs[num-1].y = y - 1 /\ End(num-1) = image.width
          BY <4>2, <1>1, <1>3 DEF IInv, Cursor
        <5>2. runs'[k+1].y = y /\ runs'[k].y = runs[num-1].y /\ End(k)' = End(num-1)
              /\ End(num-1) \in Nat
          <6>1. k = num - 1 /\ num - 1 \in 0..num-1
            BY <4>2, <3>3, <1>1
          <6> QED BY <6>1, <4>2, <2>2, <2>4, <2>5
        <5> QED BY <5>1, <5>2, <1>1, <1>2, <1>3 DEF Sizes
      <4> QED BY <3>3, <4>1, <4>2, <2>1, <1>1
    <3> QED BY <3>1, <3>2, <3>3 DEF RowsInOrder
  <2>10. num' > 0 /\ num' - 1 = num /\ runs'[num'-1].y = y /\ End(num-1)' = RunEnd
    BY <2>1, <2>2, <2>4, <2>6, <1>1 DEF End
  <2>11. \/ x' > 0 /\ runs'[num'-1].y = y' /\ End(num-1)' <= x'
         \/ y' > 0 /\ runs'[num'-1].y = y' - 1 /\ End(num-1)' = image'.width
    BY <2>10, <1>1, <1>2, <1>3 DEF Sizes
  <2>12. y = 0 => num' <= RunEnd
    <3>1. CASE num = 0
      BY <3>1, <2>1, <1>1
    <3>2. CASE num > 0 /\ y = 0
      <4>1. num <= End(num-1) /\ End(num-1) <= x /\ End(num-1) \in Nat
        BY <3>2, <2>5, <2>8, <1>1, <1>3 DEF IInv, Cursor
      <4> QED BY <4>1, <2>1, <1>1
    <3> QED BY <3>1, <3>2, <1>1
  <2>13. Cursor'
    BY <2>10, <2>11, <2>12, <2>1, <1>1, <1>2, <1>3, <1>4 DEF Cursor, Sizes
  <2>14. SecondRow'
    <3> SUFFICES ASSUME pc' # "encode" PROVE num' >= 2 /\ runs'[num'-1].y >= 1
      BY DEF SecondRow
    <3>1. y >= 1
      <4>1. CASE num' >= image.max_runs
        BY <4>1, <2>12, <2>1, <1>1, <1>2 DEF Sizes
      <4>2. CASE y' = image.height
        BY <4>2, <1>1, <1>2, <1>3 DEF Sizes
      <4> QED BY <4>1, <4>2, <1>3
    <3>2. num > 0
      BY <3>1, <1>1, <1>3 DEF IInv, Cursor
    <3> QED BY <3>1, <3>2, <2>1, <2>10, <1>1
  <2> QED BY <2>3, <2>7, <2>9, <2>13, <2>14, <1>2, <1>5 DEF IInv
<1> QED BY <1>6, <1>7

-----------------------------------------------------------------------------
(* Connecting.  From here on the runs stay as they are. *)

LEMMA RunsStay ==
    ASSUME IInv, pc # "encode", pc' # "encode", UNCHANGED <<image, num, runs>>
    PROVE  Sizes' /\ Runs' /\ RowsInOrder' /\ Cursor' /\ SecondRow'
<1>1. Sizes' /\ Cursor' /\ SecondRow' BY DEF IInv, Sizes, Cursor, SecondRow
<1>2. Runs' BY DEF IInv, Runs, End
<1>3. RowsInOrder' BY DEF IInv, RowsInOrder, End
<1> QED BY <1>1, <1>2, <1>3

(* l1 stays one row below l2, whichever of them moves, or both. *)
LEMMA AdvanceInLockStep ==
    ASSUME IInv, pc \in {"scan", "climb"}, l1 < num, pc' = "scan",
           UNCHANGED <<image, num, runs>>, Forest',
           NEW q1 \in Nat, q1 <= l1, NEW q2 \in Nat, q2 <= l2, Advance(q1, q2)
    PROVE  LockStep'
<1>1. /\ l1 \in Nat /\ l2 \in Nat /\ num \in Nat /\ l2 < l1
      /\ runs[l1].y = runs[l2].y + 1
      /\ runs[l1].y \in Nat /\ runs[l2].y \in Nat
  BY DEF IInv, LockStep, Runs
<1>2. /\ End(l1) \in Nat /\ End(l1) <= image.width
      /\ End(l2) \in Nat /\ End(l2) <= image.width /\ image.width \in Nat
  BY <1>1 DEF IInv, Runs, End, Sizes
<1>3. /\ l1 + 1 < num =>
           runs[l1 + 1].y = IF End(l1) < image.width THEN runs[l1].y ELSE runs[l1].y + 1
      /\ runs[l2 + 1].y = IF End(l2) < image.width THEN runs[l2].y ELSE runs[l2].y + 1
  BY <1>1 DEF IInv, RowsInOrder
<1>4. \A k \in 0..num-1 : parent'[k] \in Nat /\ parent'[k] <= k
  BY DEF Forest
<1>5. l1' \in Nat /\ l2' \in Nat
  BY <1>1 DEF Advance
<1>6. ASSUME l1' < num PROVE runs[l1'].y = runs[l2'].y + 1 /\ l2' < l1'
  <2>1. CASE End(l2) > End(l1)
    BY <2>1, <1>1, <1>2, <1>3, <1>6 DEF Advance
  <2>2. CASE End(l2) = End(l1)
    BY <2>2, <1>1, <1>2, <1>3, <1>6 DEF Advance
  <2>3. CASE End(l2) < End(l1)
    <3>1. l1' = l1 /\ l2' = l2 + 1 BY <2>3, <1>1, <1>2 DEF Advance
    <3>2. runs[l2 + 1].y = runs[l2].y BY <2>3, <1>2, <1>3
    <3>3. l2 + 1 # l1 BY <3>2, <1>1
    <3> QED BY <3>1, <3>2, <3>3, <1>1
  <2> QED BY <2>1, <2>2, <2>3, <1>2
<1>7. ASSUME l1' < num PROVE p1' \in Nat /\ p1' <= l1'
  BY <1>1, <1>4, <1>7 DEF Advance
<1>8. ASSUME l1' < num PROVE p2' \in Nat /\ p2' <= l2'
  <2>1. l2' \in 0..num-1 BY <1>1, <1>5, <1>6, <1>8
  <2> QED BY <2>1, <1>1, <1>4 DEF Advance
<1> QED BY <1>5, <1>6, <1>7, <1>8 DEF LockStep

(* Replacing parents by earlier ones keeps the forest. *)
LEMMA ForestKept ==
    ASSUME Forest, num \in Nat, num' = num, parent' \in [0..num-1 -> Nat],
           \A k \in 0..num-1 : parent'[k] <= k
    PROVE  Forest'
BY DEF Forest

LEMMA SkipFirstLineKeepsInv == IInv /\ SkipFirstLine => IInv'
<1> SUFFICES ASSUME IInv, SkipFirstLine PROVE IInv' OBVIOUS
<1>1. /\ pc = "skip" /\ pc' = "scan" /\ UNCHANGED <<image, num, runs, parent, i, regions>>
      /\ l2' = 0 /\ p1' = parent[l1'] /\ p2' = parent[0]
  BY DEF SkipFirstLine, readVars
<1>2. Sizes' /\ Runs' /\ RowsInOrder' /\ Cursor' /\ SecondRow'
  BY <1>1, RunsStay
<1>3. Forest' BY <1>1 DEF IInv, Forest
<1> DEFINE S == {k \in 1..num-1 : runs[k].y # 0}
<1>4. num \in Nat /\ num >= 2 /\ num - 1 \in S /\ S \subseteq Nat
  BY <1>1 DEF IInv, Runs, SecondRow
<1>5. l1' = Min(S) BY DEF SkipFirstLine
<1>6. PICK m \in S : l1' = m /\ \A n \in S : m <= n
  <2> HIDE DEF S
  <2> QED BY <1>4, <1>5, MinIsLeast
<1>7. runs[0].y = 0 BY <1>4 DEF IInv, RowsInOrder
<1>8. m - 1 \in 0..num-1 /\ m - 1 \notin S /\ m \in 1..num-1 /\ runs[m].y # 0
  BY <1>4, <1>6
<1>9. runs[m].y = 1
  <2>1. runs[m - 1].y = 0
    BY <1>4, <1>7, <1>8
  <2>2. runs[(m - 1) + 1].y =
          IF End(m - 1) < image.width THEN runs[m - 1].y ELSE runs[m - 1].y + 1
    BY <1>4, <1>8 DEF IInv, RowsInOrder
  <2>3. (m - 1) + 1 = m BY <1>4, <1>8
  <2> QED BY <1>8, <2>1, <2>2, <2>3
<1>10. LockStep'
  BY <1>1, <1>4, <1>6, <1>7, <1>8, <1>9 DEF IInv, LockStep, Forest
<1> QED BY <1>1, <1>2, <1>3, <1>10 DEF IInv, Counting, Stages

(* Adopting and passing on. *)
LEMMA ScanKeepsInv == IInv /\ (PassOn \/ Adopt) => IInv'
<1> SUFFICES ASSUME IInv, PassOn \/ Adopt PROVE IInv' OBVIOUS
<1>1. /\ pc = "scan" /\ pc' = "scan" /\ l1 < num
      /\ UNCHANGED <<image, num, runs, regions>>
  BY DEF PassOn, Adopt, Scanning, readVars
<1>2. Sizes' /\ Runs' /\ RowsInOrder' /\ Cursor' /\ SecondRow'
  BY <1>1, RunsStay
<1>3. /\ l1 \in Nat /\ l2 \in Nat /\ l2 < l1 /\ num \in Nat
      /\ p1 \in Nat /\ p1 <= l1 /\ p2 \in Nat /\ p2 <= l2
  BY <1>1 DEF IInv, LockStep, Runs
<1>4. Forest' /\ LockStep'
  <2>1. CASE PassOn
    <3>1. parent' = parent /\ Advance(p1, p2) BY <2>1 DEF PassOn
    <3>2. Forest' BY <3>1, <1>1 DEF IInv, Forest
    <3> QED BY <3>1, <3>2, <1>1, <1>3, AdvanceInLockStep
  <2>2. CASE Adopt
    <3>1. parent' = [parent EXCEPT ![l1] = p2] /\ Advance(p2, p2) BY <2>2 DEF Adopt
    <3>2. Forest' BY <3>1, <1>1, <1>3 DEF IInv, Forest
    <3> QED BY <3>1, <3>2, <1>1, <1>3, AdvanceInLockStep
  <2> QED BY <2>1, <2>2
<1> QED BY <1>1, <1>2, <1>4 DEF IInv, Counting, Stages

LEMMA ClimbKeepsInv == IInv /\ (TwoParents \/ ClimbLeft \/ ClimbRight) => IInv'
<1> SUFFICES ASSUME IInv, TwoParents \/ ClimbLeft \/ ClimbRight PROVE IInv' OBVIOUS
<1>1. /\ pc \in {"scan", "climb"} /\ pc' = "climb" /\ l1 < num
      /\ UNCHANGED <<image, num, runs, parent, l1, l2, p1, p2, regions>>
  BY DEF IInv, LockStep, TwoParents, Scanning, ClimbLeft, ClimbRight, readVars, connectVars
<1>2. Sizes' /\ Runs' /\ RowsInOrder' /\ Cursor' /\ SecondRow'
  BY <1>1, RunsStay
<1>3. Forest' BY <1>1 DEF IInv, Forest
<1>4. /\ l1 \in Nat /\ l2 \in Nat /\ l2 < l1 /\ num \in Nat
      /\ p1 \in Nat /\ p1 <= l1 /\ p2 \in Nat /\ p2 <= l2
  BY <1>1 DEF IInv, LockStep, Runs
<1>5. i' \in Nat /\ i' <= l1 /\ j' \in Nat /\ j' <= l2
  <2>1. CASE TwoParents
    BY <2>1, <1>4 DEF TwoParents
  <2>2. CASE ClimbLeft \/ ClimbRight
    <3>1. i \in Nat /\ i <= l1 /\ j \in Nat /\ j <= l2
      BY <2>2 DEF IInv, LockStep, ClimbLeft, ClimbRight
    <3>2. parent[i] \in Nat /\ parent[i] <= i /\ parent[j] \in Nat /\ parent[j] <= j
      BY <3>1, <1>1, <1>4 DEF IInv, Forest
    <3> QED BY <2>2, <3>1, <3>2, <1>4 DEF ClimbLeft, ClimbRight, connectVars
  <2> QED BY <2>1, <2>2
<1>6. LockStep' BY <1>1, <1>5 DEF IInv, LockStep
<1> QED BY <1>1, <1>2, <1>3, <1>6 DEF IInv, Counting, Stages

LEMMA UniteKeepsInv == IInv /\ UniteRoots => IInv'
<1> SUFFICES ASSUME IInv, UniteRoots PROVE IInv' OBVIOUS
<1>1. /\ pc = "climb" /\ pc' = "scan" /\ l1 < num
      /\ UNCHANGED <<image, num, runs, regions>>
      /\ parent' = Union /\ Advance(Smaller(i, j), Smaller(i, j))
  BY DEF IInv, LockStep, UniteRoots, readVars
<1>2. Sizes' /\ Runs' /\ RowsInOrder' /\ Cursor' /\ SecondRow'
  BY <1>1, RunsStay
<1>3. /\ l1 \in Nat /\ l2 \in Nat /\ l2 < l1 /\ num \in Nat
      /\ i \in Nat /\ i <= l1 /\ j \in Nat /\ j <= l2
  BY <1>1 DEF IInv, LockStep, Runs
<1>4. /\ Smaller(i, j) \in Nat /\ Larger(i, j) \in Nat
      /\ Smaller(i, j) <= Larger(i, j) /\ Smaller(i, j) <= l2 /\ Smaller(i, j) <= l1
  BY <1>3 DEF Smaller, Larger
<1>5. Forest'
  <2> DEFINE root == Smaller(i, j)
             other == Larger(i, j)
  <2>1. parent' = [parent EXCEPT ![other] = root, ![l1] = root, ![l2] = root]
    BY <1>1 DEF Union
  <2> HIDE DEF root, other
  <2>2. root \in Nat /\ other \in Nat /\ root <= other /\ root <= l2 /\ root <= l1
    BY <1>4 DEF root, other
  <2> QED BY <2>1, <2>2, <1>1, <1>3 DEF IInv, Forest
<1>6. LockStep'
  BY <1>1, <1>4, <1>5, AdvanceInLockStep
<1> QED BY <1>1, <1>2, <1>5, <1>6 DEF IInv, Counting, Stages

LEMMA CompressKeepsInv == IInv /\ (EndScan \/ Compress \/ EndCompress) => IInv'
<1> SUFFICES ASSUME IInv, EndScan \/ Compress \/ EndCompress PROVE IInv' OBVIOUS
<1>1. /\ pc \in {"scan", "compress"} /\ pc' \in {"compress", "extract"}
      /\ UNCHANGED <<image, num, runs, regions>> /\ num \in Nat
  BY DEF IInv, Runs, EndScan, Compress, EndCompress, readVars
<1>2. Sizes' /\ Runs' /\ RowsInOrder' /\ Cursor' /\ SecondRow'
  BY <1>1, RunsStay
<1>3. Len(regions) = 0 /\ \E S : regions \in Seq(S)
  BY <1>1 DEF IInv, Counting, Stages
<1>4. Forest' /\ i' \in 0..num
  <2>1. CASE EndScan \/ EndCompress
    BY <2>1, <1>1 DEF IInv, Forest, EndScan, EndCompress
  <2>2. CASE Compress
    <3>1. i \in 0..num-1 /\ i' = i + 1
          /\ parent' = [parent EXCEPT ![i] = parent[parent[i]]]
      BY <2>2, <1>1 DEF IInv, Counting, Compress
    <3>2. parent[i] \in 0..num-1 /\ parent[i] <= i
      BY <3>1, <1>1 DEF IInv, Forest
    <3>3. parent[parent[i]] \in Nat /\ parent[parent[i]] <= i
      BY <3>1, <3>2, <1>1 DEF IInv, Forest
    <3> QED BY <3>1, <3>3, <1>1 DEF IInv, Forest
  <2> QED BY <2>1, <2>2
<1>5. LockStep' BY <1>1 DEF LockStep
<1>6. pc' = "extract" => i' = 0
  BY DEF EndScan, Compress, EndCompress
<1>7. Counting' BY <1>1, <1>3, <1>4, <1>6 DEF Counting, Stages
<1> QED BY <1>1, <1>2, <1>4, <1>5, <1>7 DEF IInv, Stages

-----------------------------------------------------------------------------
(* Extracting.  A region has its number before a run asks for it, as there *)
(* are never more regions than runs seen.                                  *)

LEMMA ExtractKeepsInv == IInv /\ ExtractStep => IInv'
<1> SUFFICES ASSUME IInv, ExtractStep PROVE IInv' OBVIOUS
<1>1. /\ pc = "extract" /\ pc' \in {"extract", "separate"}
      /\ UNCHANGED <<image, num, runs>> /\ num \in Nat /\ i \in 0..num
      /\ Len(regions) <= i
  BY DEF IInv, Runs, Counting, ExtractStep, SkipClear, StartRegion, ExtendRegion,
         FinishRegions, Extracting, readVars
<1>2. Sizes' /\ Runs' /\ RowsInOrder' /\ Cursor' /\ SecondRow'
  BY <1>1, RunsStay
<1>3. LockStep' BY <1>1 DEF LockStep
<1>4. PICK S : regions \in Seq(S)
  BY DEF IInv, Counting
<1>5. Len(regions) \in Nat BY <1>4
<1>6. Forest' /\ Counting'
  <2>1. CASE SkipClear
    BY <2>1, <1>1, <1>4, <1>5 DEF IInv, Forest, Counting, SkipClear, Extracting, Stages
  <2>2. CASE StartRegion
    <3>1. /\ i \in 0..num-1 /\ i' = i + 1
          /\ parent' = [parent EXCEPT ![i] = Len(regions)]
          /\ regions' = Append(regions, NewRegion(runs[i]))
      BY <2>2, <1>1 DEF StartRegion, Extracting
    <3>2. Forest'
      BY <3>1, <1>1, <1>5 DEF IInv, Forest
    <3>3. regions' \in Seq(S \cup {NewRegion(runs[i])}) /\ Len(regions') = Len(regions) + 1
      <4>1. regions \in Seq(S \cup {NewRegion(runs[i])})
        BY <1>4
      <4> QED BY <4>1, <3>1
    <3> QED BY <3>1, <3>2, <3>3, <1>1, <1>5 DEF Counting, Stages
  <2>3. CASE ExtendRegion
    <3> DEFINE b == parent[parent[i]]
               grown == Grown(regions[b + 1], runs[i])
    <3>1. /\ i \in 0..num-1 /\ i' = i + 1 /\ pc' = pc
          /\ parent' = [parent EXCEPT ![i] = b]
          /\ regions' = [regions EXCEPT ![b + 1] = grown]
      BY <2>3, <1>1 DEF ExtendRegion, Extracting
    <3>2. parent[i] \in 0..num-1 /\ parent[i] <= i
      BY <3>1, <1>1 DEF IInv, Forest
    <3>3. b \in Nat /\ b <= i
      BY <3>1, <3>2, <1>1 DEF IInv, Forest
    <3> HIDE DEF b, grown
    <3>4. Forest'
      BY <3>1, <3>3, <1>1 DEF IInv, Forest
    <3>5. regions' \in Seq(S \cup {grown}) /\ Len(regions') = Len(regions)
      <4>1. regions \in [1..Len(regions) -> S]
        BY <1>4
      <4>2. regions' \in [1..Len(regions) -> S \cup {grown}]
        BY <4>1, <3>1
      <4> QED BY <4>2, <1>5
    <3> QED BY <3>1, <3>4, <3>5, <1>1, <1>5 DEF Counting, Stages
  <2>4. CASE FinishRegions
    <3>1. parent' = parent /\ pc' = "separate"
          /\ regions' = [b \in DOMAIN regions |-> Finished(regions[b])]
      BY <2>4 DEF FinishRegions
    <3>2. regions' \in Seq({Finished(regions[b]) : b \in DOMAIN regions})
      BY <3>1, <1>4
    <3> QED BY <3>1, <3>2, <1>1 DEF IInv, Forest, Counting, Stages
  <2> QED BY <2>1, <2>2, <2>3, <2>4 DEF ExtractStep
<1> QED BY <1>1, <1>2, <1>3, <1>6 DEF IInv, Stages

LEMMA ListsKeepInv == IInv /\ (separateRegions \/ sortRegions \/ UNCHANGED vars) => IInv'
<1> SUFFICES ASSUME IInv, separateRegions \/ sortRegions \/ UNCHANGED vars PROVE IInv'
  OBVIOUS
<1>1. CASE separateRegions \/ sortRegions
  <2>1. /\ pc \in {"separate", "sort"} /\ pc' \in {"sort", "done"}
        /\ UNCHANGED <<image, num, runs, parent, regions>>
    BY <1>1 DEF separateRegions, sortRegions, readVars
  <2>2. Sizes' /\ Runs' /\ RowsInOrder' /\ Cursor' /\ SecondRow'
    BY <2>1, RunsStay
  <2> QED BY <2>1, <2>2 DEF IInv, Forest, LockStep, Counting, Stages
<1>2. CASE UNCHANGED vars
  BY <1>2 DEF vars, readVars, connectVars, IInv, Sizes, Runs, End, RowsInOrder, Cursor,
              SecondRow, Forest, LockStep, Counting
<1> QED BY <1>1, <1>2

-----------------------------------------------------------------------------

LEMMA InvIsInductive == IInv /\ [Next]_vars => IInv'
<1> SUFFICES ASSUME IInv, [Next]_vars PROVE IInv' OBVIOUS
<1>1. CASE EncodeRun BY <1>1, EncodingKeepsInv
<1>2. CASE ConnectStep
  BY <1>2, SkipFirstLineKeepsInv, ScanKeepsInv, ClimbKeepsInv, UniteKeepsInv,
     CompressKeepsInv DEF ConnectStep
<1>3. CASE ExtractStep BY <1>3, ExtractKeepsInv
<1>4. CASE separateRegions \/ sortRegions \/ UNCHANGED vars BY <1>4, ListsKeepInv
<1> QED BY <1>1, <1>2, <1>3, <1>4 DEF Next

(* No run ever has a parent after it, whatever the image, and however      *)
(* little room there is for runs and regions: every climb to a root ends,  *)
(* and one pass of compression leads each run to its root.                 *)
THEOREM ParentsAlwaysPrecede == Spec => []ParentsPrecede
<1>1. IInv => ParentsPrecede
  BY DEF IInv, Forest, ParentsPrecede
<1> QED BY Initially, InvIsInductive, <1>1, PTL DEF Spec

-----------------------------------------------------------------------------
(* The chains.  A run is linked to the region of its parent, which must be a *)
(* coloured run extracted before: so all runs of one tree have one colour.   *)

Connecting == {"encode", "skip", "scan", "climb", "compress"}

OneColor ==
    /\ pc \in Connecting => \A k \in 0..num-1 : runs[parent[k]].color = runs[k].color
    /\ pc = "extract" => \A k \in i..num-1 : runs[parent[k]].color = runs[k].color
    /\ pc \in {"scan", "climb"} /\ l1 < num =>
         runs[p1].color = runs[l1].color /\ runs[p2].color = runs[l2].color
    /\ pc = "climb" =>
         /\ runs[l1].color = runs[l2].color
         /\ runs[i].color = runs[l1].color /\ runs[j].color = runs[l1].color

(* The extracted runs of region b. *)
Mine(b) == {k \in ColoredRuns : k < i /\ parent[k] = b - 1}

(* From k, next leads to the run of M that comes next, or there is none. *)
Follows(next, M, k) ==
    /\ (\A m \in M : m <= k) => next[k] = 0
    /\ \A m \in M : m > k => next[k] \in M /\ next[k] > k /\ next[k] <= m

WellChained(next, M, start) ==
    start \in M /\ \A k \in M : start <= k /\ Follows(next, M, k)

(* The next run of region b will be linked to the last so far. *)
CanBeLinked(b) ==
    /\ {"run_start", "iterator_id"} \subseteq DOMAIN regions[b]
    /\ regions[b].iterator_id \in Mine(b)
    /\ \A k \in Mine(b) : k <= regions[b].iterator_id

Numbered == \A k \in ColoredRuns : k < i => parent[k] < Len(regions)

Chained ==
    /\ nextRun \in [0..num-1 -> Nat]
    /\ pc \in Connecting => \A k \in 0..num-1 : nextRun[k] = 0
    /\ pc = "extract" =>
         /\ \A k \in i..num-1 : nextRun[k] = 0
         /\ Numbered
         /\ \A b \in DOMAIN regions : CanBeLinked(b)
    /\ pc \in {"extract", "separate"} =>
         \A b \in DOMAIN regions : WellChained(nextRun, Mine(b), regions[b].run_start)

CInv == OneColor /\ Chained


(* A chain of one run, an untouched chain, and a chain with one more run. *)

LEMMA ChainStarts ==
    ASSUME NEW next, NEW start \in Nat, next[start] = 0
    PROVE  WellChained(next, {start}, start)
BY DEF WellChained, Follows

LEMMA ChainUntouched ==
    ASSUME NEW next, NEW other, NEW M, NEW start, WellChained(next, M, start),
           \A k \in M : other[k] = next[k]
    PROVE  WellChained(other, M, start)
BY DEF WellChained, Follows

LEMMA ChainGrows ==
    ASSUME NEW M \in SUBSET Nat, NEW D, NEW next \in [D -> Nat], M \subseteq D,
           NEW start, WellChained(next, M, start),
           NEW last \in M, \A k \in M : k <= last,
           NEW n \in D, n \in Nat, last < n, next[n] = 0
    PROVE  WellChained([next EXCEPT ![last] = n], M \cup {n}, start)
<1> DEFINE more == [next EXCEPT ![last] = n]
           N == M \cup {n}
<1>1. start \in M /\ start \in Nat /\ last \in Nat /\ n \notin M BY DEF WellChained
<1>2. more[last] = n /\ \A k \in M \cup {n} : k # last => more[k] = next[k]
  OBVIOUS
<1>3. ASSUME NEW k \in N PROVE start <= k /\ Follows(more, N, k)
  <2>. HIDE DEF more
  <2>1. CASE k = n
    <3>1. more[n] = 0 BY <1>2
    <3>2. start <= last BY <1>1 DEF WellChained
    <3>3. \A m \in N : ~(m > n) BY <1>1
    <3>. QED BY <2>1, <3>1, <3>2, <3>3, <1>1 DEF Follows
  <2>2. CASE k = last
    <3>1. start <= last BY <1>1 DEF WellChained
    <3>2. n \in N /\ ~(n <= last) BY <1>1
    <3>3. \A m \in N : m > last => m = n BY <1>1
    <3>. QED BY <2>2, <3>1, <3>2, <3>3, <1>1, <1>2 DEF Follows
  <2>3. CASE k \in M /\ k # last
    <3>1. /\ start <= k /\ k \in Nat /\ k < last /\ more[k] = next[k]
      BY <2>3, <1>1, <1>2 DEF WellChained
    <3>2. \A m \in M : m > k => next[k] \in M /\ next[k] > k /\ next[k] <= m
      BY <2>3 DEF WellChained, Follows
    <3>3. next[k] \in M /\ next[k] > k /\ next[k] <= last BY <3>1, <3>2
    <3>4. next[k] <= n BY <3>3, <1>1
    <3>5. ~(last <= k) /\ last \in N BY <3>1, <1>1
    <3>6. \A m \in N : m > k => more[k] \in N /\ more[k] > k /\ more[k] <= m
      BY <3>1, <3>2, <3>3, <3>4
    <3>7. ~\A m \in N : m <= k BY <3>5
    <3>. QED BY <3>1, <3>6, <3>7 DEF Follows
  <2>. QED BY <2>1, <2>2, <2>3
<1>. QED BY <1>1, <1>3 DEF WellChained

-----------------------------------------------------------------------------
(* One colour in a tree, and no links yet, until the extraction. *)

LEMMA CInitially == Init => CInv
<1> SUFFICES ASSUME Init PROVE CInv OBVIOUS
<1>1. num = 0 /\ nextRun = <<>> /\ pc = "encode" BY DEF Init
<1>2. nextRun \in [0..num-1 -> Nat] BY <1>1
<1> QED BY <1>1, <1>2 DEF CInv, OneColor, Chained

LEMMA EncodingKeepsCInv == IInv /\ CInv /\ EncodeRun => CInv'
<1> SUFFICES ASSUME IInv, CInv, EncodeRun PROVE CInv' OBVIOUS
<1>1. pc = "encode" /\ pc' \in {"encode", "skip"} BY DEF EncodeRun
<1>2. /\ num \in Nat
      /\ \A k \in 0..num-1 : parent[k] \in 0..num-1 /\ runs[parent[k]].color = runs[k].color
      /\ nextRun \in [0..num-1 -> Nat] /\ \A k \in 0..num-1 : nextRun[k] = 0
  BY <1>1 DEF IInv, Runs, Forest, CInv, OneColor, Chained, Connecting
<1>3. CASE ~IsEncoded
  <2>1. num' = num /\ runs' = runs /\ parent' = parent /\ nextRun' = nextRun
    BY <1>3 DEF EncodeRun
  <2> QED BY <2>1, <1>1, <1>2 DEF CInv, OneColor, Chained, Connecting
<1>4. CASE IsEncoded
  <2>1. /\ num' = num + 1 /\ runs' = WithLast(runs, ThisRun)
        /\ parent' = WithLast(parent, num) /\ nextRun' = WithLast(nextRun, 0)
    BY <1>4 DEF EncodeRun
  <2>2. /\ \A k \in 0..num-1 : runs'[k] = runs[k] /\ parent'[k] = parent[k]
                               /\ nextRun'[k] = nextRun[k]
        /\ parent'[num] = num /\ nextRun'[num] = 0
        /\ nextRun' \in [0..num'-1 -> Nat]
    BY <2>1, <1>2 DEF WithLast
  <2>3. ASSUME NEW k \in 0..num'-1
        PROVE  runs'[parent'[k]].color = runs'[k].color /\ nextRun'[k] = 0
    <3>1. CASE k \in 0..num-1 BY <3>1, <2>2, <1>2
    <3>2. CASE k = num BY <3>2, <2>2
    <3> QED BY <3>1, <3>2, <2>1, <1>2
  <2> QED BY <2>2, <2>3, <1>1 DEF CInv, OneColor, Chained, Connecting
<1> QED BY <1>3, <1>4

(* The places of the scan are runs. *)
LEMMA ScanPlaces ==
    ASSUME IInv, pc \in {"scan", "climb"}, l1 < num
    PROVE  /\ num \in Nat /\ l1 \in 0..num-1 /\ l2 \in 0..num-1 /\ l2 + 1 \in 0..num-1
           /\ p1 \in 0..num-1 /\ p2 \in 0..num-1
           /\ pc = "climb" => i \in 0..num-1 /\ j \in 0..num-1
<1>1. /\ num \in Nat /\ l1 \in Nat /\ l2 \in Nat /\ l2 < l1
      /\ p1 \in Nat /\ p1 <= l1 /\ p2 \in Nat /\ p2 <= l2
      /\ pc = "climb" => i \in Nat /\ i <= l1 /\ j \in Nat /\ j <= l2
  BY DEF IInv, LockStep, Runs
<1> QED BY <1>1

(* Wherever the scan goes, it compares runs with parents of their colour. *)
LEMMA AdvanceKeepsColors ==
    ASSUME IInv, pc \in {"scan", "climb"}, l1 < num, pc' = "scan",
           UNCHANGED <<num, runs>>,
           \A k \in 0..num-1 : runs[parent'[k]].color = runs[k].color,
           NEW q1, NEW q2, Advance(q1, q2),
           runs[q1].color = runs[l1].color, runs[q2].color = runs[l2].color
    PROVE  OneColor'
<1>1. /\ num \in Nat /\ l1 \in 0..num-1 /\ l2 + 1 \in 0..num-1
  BY ScanPlaces
<1>2. ASSUME l1' < num PROVE runs[p1'].color = runs[l1'].color
  <2>1. CASE l1' = l1 + 1 /\ p1' = (IF l1 + 1 < num THEN parent'[l1 + 1] ELSE q1)
    <3>1. l1' \in 0..num-1 BY <2>1, <1>1, <1>2
    <3> QED BY <3>1, <2>1, <1>2
  <2>2. CASE l1' = l1 /\ p1' = q1 BY <2>2
  <2> QED BY <2>1, <2>2 DEF Advance
<1>3. runs[p2'].color = runs[l2'].color
  BY <1>1 DEF Advance
<1> QED BY <1>2, <1>3 DEF OneColor, Connecting

LEMMA ScanKeepsColors ==
    ASSUME IInv, OneColor, SkipFirstLine \/ PassOn \/ Adopt \/ UniteRoots
    PROVE  OneColor'
<1>0. num \in Nat BY DEF IInv, Runs
<1>1. CASE SkipFirstLine
  <2>1. /\ pc = "skip" /\ pc' = "scan" /\ UNCHANGED <<num, runs, parent>>
        /\ l2' = 0 /\ p1' = parent[l1'] /\ p2' = parent[0]
    BY <1>1 DEF SkipFirstLine
  <2> DEFINE S == {k \in 1..num-1 : runs[k].y # 0}
  <2>2. num >= 2 /\ num - 1 \in S /\ S \subseteq Nat
    BY <1>0, <2>1 DEF IInv, Runs, SecondRow
  <2>3. l1' = Min(S) BY <1>1 DEF SkipFirstLine
  <2>4. l1' \in S
    <3> HIDE DEF S
    <3> QED BY <2>2, <2>3, MinIsLeast
  <2>5. l1' \in 0..num-1 /\ 0 \in 0..num-1 BY <2>2, <2>4, <1>0
  <2> QED BY <2>1, <2>5 DEF OneColor, Connecting
<1>2. CASE PassOn
  <2>1. /\ pc = "scan" /\ pc' = "scan" /\ l1 < num /\ UNCHANGED <<num, runs, parent>>
        /\ Advance(p1, p2)
    BY <1>2 DEF PassOn, Scanning
  <2>2. runs[p1].color = runs[l1].color /\ runs[p2].color = runs[l2].color
    BY <2>1 DEF OneColor
  <2>3. \A k \in 0..num-1 : runs[parent'[k]].color = runs[k].color
    BY <2>1 DEF OneColor, Connecting
  <2> QED BY <2>1, <2>2, <2>3, AdvanceKeepsColors
<1>3. CASE Adopt
  <2>1. /\ pc = "scan" /\ pc' = "scan" /\ l1 < num /\ UNCHANGED <<num, runs>>
        /\ parent' = [parent EXCEPT ![l1] = p2] /\ Advance(p2, p2)
        /\ runs[l1].color = runs[l2].color
    BY <1>3 DEF Adopt, Scanning, Joined
  <2>2. runs[p2].color = runs[l2].color
    BY <2>1 DEF OneColor
  <2>3. \A k \in 0..num-1 : runs[parent'[k]].color = runs[k].color
    BY <2>1, <2>2 DEF OneColor, Connecting, IInv, Forest
  <2> QED BY <2>1, <2>2, <2>3, AdvanceKeepsColors
<1>4. CASE UniteRoots
  <2> DEFINE root == Smaller(i, j)
             other == Larger(i, j)
  <2>1. /\ pc = "climb" /\ pc' = "scan" /\ UNCHANGED <<num, runs>>
        /\ parent' = [parent EXCEPT ![other] = root, ![l1] = root, ![l2] = root]
        /\ Advance(root, root)
    BY <1>4 DEF UniteRoots, Union
  <2>2. l1 < num BY <2>1 DEF IInv, LockStep
  <2>3. /\ runs[l1].color = runs[l2].color
        /\ runs[i].color = runs[l1].color /\ runs[j].color = runs[l1].color
    BY <2>1 DEF OneColor
  <2>4. runs[root].color = runs[l1].color /\ runs[other].color = runs[l1].color
    BY <2>3 DEF Smaller, Larger
  <2> HIDE DEF root, other
  <2>5. \A k \in 0..num-1 : runs[parent'[k]].color = runs[k].color
    BY <2>1, <2>3, <2>4 DEF OneColor, Connecting, IInv, Forest
  <2> QED BY <2>1, <2>2, <2>3, <2>4, <2>5, AdvanceKeepsColors
<1> QED BY <1>1, <1>2, <1>3, <1>4

LEMMA ClimbKeepsColors ==
    ASSUME IInv, OneColor, TwoParents \/ ClimbLeft \/ ClimbRight
    PROVE  OneColor'
<1>1. /\ pc \in {"scan", "climb"} /\ pc' = "climb" /\ l1 < num
      /\ UNCHANGED <<num, runs, parent, l1, l2, p1, p2>>
  BY DEF IInv, LockStep, TwoParents, Scanning, ClimbLeft, ClimbRight, connectVars
<1>2. /\ \A k \in 0..num-1 : runs[parent[k]].color = runs[k].color
      /\ runs[p1].color = runs[l1].color /\ runs[p2].color = runs[l2].color
  BY <1>1 DEF OneColor, Connecting
<1>3. /\ runs[l1].color = runs[l2].color
      /\ runs[i'].color = runs[l1].color /\ runs[j'].color = runs[l1].color
  <2>1. CASE TwoParents BY <2>1, <1>2 DEF TwoParents, Joined
  <2>2. CASE ClimbLeft \/ ClimbRight
    <3>1. pc = "climb" BY <2>2 DEF ClimbLeft, ClimbRight
    <3>2. i \in 0..num-1 /\ j \in 0..num-1 BY <3>1, <1>1, ScanPlaces
    <3>3. /\ runs[l1].color = runs[l2].color
          /\ runs[i].color = runs[l1].color /\ runs[j].color = runs[l1].color
      BY <3>1 DEF OneColor
    <3> QED BY <2>2, <3>2, <3>3, <1>2 DEF ClimbLeft, ClimbRight, connectVars
  <2> QED BY <2>1, <2>2
<1> QED BY <1>1, <1>2, <1>3 DEF OneColor, Connecting

LEMMA CompressKeepsColors ==
    ASSUME IInv, OneColor, EndScan \/ Compress \/ EndCompress
    PROVE  OneColor'
<1>1. /\ pc \in {"scan", "compress"} /\ pc' \in {"compress", "extract"}
      /\ UNCHANGED <<num, runs>> /\ num \in Nat
  BY DEF IInv, Runs, EndScan, Compress, EndCompress
<1>2. /\ parent \in [0..num-1 -> Nat]
      /\ \A k \in 0..num-1 : parent[k] <= k /\ runs[parent[k]].color = runs[k].color
  BY <1>1 DEF OneColor, Connecting, IInv, Forest
<1>3. \A k \in 0..num-1 : runs[parent'[k]].color = runs[k].color
  <2>1. CASE EndScan \/ EndCompress BY <2>1, <1>2 DEF EndScan, EndCompress
  <2>2. CASE Compress
    <3>1. i \in 0..num-1 /\ parent' = [parent EXCEPT ![i] = parent[parent[i]]]
      BY <2>2, <1>1 DEF IInv, Counting, Compress
    <3>2. parent[i] \in 0..num-1 BY <3>1, <1>1, <1>2
    <3>3. runs[parent[parent[i]]].color = runs[i].color BY <3>1, <3>2, <1>2
    <3> QED BY <3>1, <3>3, <1>2
  <2> QED BY <2>1, <2>2
<1>4. pc' = "extract" => i' = 0 BY DEF EndScan, Compress, EndCompress
<1> QED BY <1>1, <1>3, <1>4 DEF OneColor, Connecting

LEMMA ConnectKeepsCInv == IInv /\ CInv /\ ConnectStep => CInv'
<1> SUFFICES ASSUME IInv, CInv, ConnectStep PROVE CInv' OBVIOUS
<1>1. OneColor'
  BY ScanKeepsColors, ClimbKeepsColors, CompressKeepsColors DEF ConnectStep, CInv
<1>2. /\ pc \in Connecting \ {"encode"} /\ pc' \in Connecting \cup {"extract"}
      /\ UNCHANGED <<num, runs, nextRun, regions>> /\ num \in Nat
  BY DEF ConnectStep, SkipFirstLine, PassOn, Adopt, TwoParents, ClimbLeft, ClimbRight,
         UniteRoots, EndScan, Compress, EndCompress, Connecting, Scanning, IInv, Runs
<1>3. pc' = "extract" => i' = 0
  BY DEF ConnectStep, SkipFirstLine, PassOn, Adopt, TwoParents, ClimbLeft, ClimbRight,
         UniteRoots, EndScan, Compress, EndCompress, Scanning
<1>4. DOMAIN regions = {}
  <2>1. Len(regions) = 0 /\ \E S : regions \in Seq(S)
    BY <1>2 DEF IInv, Counting, Stages, Connecting
  <2> QED BY <2>1
<1>5. nextRun \in [0..num-1 -> Nat] /\ \A k \in 0..num-1 : nextRun[k] = 0
  BY <1>2 DEF CInv, Chained
<1>6. pc' = "extract" => Numbered' BY <1>2, <1>3 DEF Numbered, ColoredRuns
<1>7. Chained' BY <1>2, <1>3, <1>4, <1>5, <1>6 DEF Chained, Connecting
<1> QED BY <1>1, <1>7 DEF CInv

-----------------------------------------------------------------------------
(* The links of the extraction. *)

(* What all its steps start from. *)
LEMMA Extraction ==
    ASSUME IInv, CInv, pc = "extract"
    PROVE  /\ num \in Nat /\ i \in 0..num /\ parent \in [0..num-1 -> Nat]
           /\ \A k \in 0..num-1 : parent[k] <= k
           /\ nextRun \in [0..num-1 -> Nat]
           /\ \A k \in i..num-1 : nextRun[k] = 0 /\ runs[parent[k]].color = runs[k].color
           /\ Numbered
           /\ Len(regions) \in Nat /\ DOMAIN regions = 1..Len(regions)
           /\ \A b \in DOMAIN regions :
                CanBeLinked(b) /\ WellChained(nextRun, Mine(b), regions[b].run_start)
<1>1. PICK S : regions \in Seq(S) BY DEF IInv, Counting
<1> QED BY <1>1 DEF IInv, Runs, Forest, Counting, CInv, OneColor, Chained

LEMMA ExtractionGoesOn ==
    ASSUME IInv, CInv, pc = "extract", i < num
    PROVE  /\ num \in Nat /\ i \in 0..num-1 /\ parent \in [0..num-1 -> Nat]
           /\ nextRun \in [0..num-1 -> Nat]
           /\ \A k \in 0..num-1 : parent[k] <= k
           /\ \A k \in i..num-1 : nextRun[k] = 0 /\ runs[parent[k]].color = runs[k].color
           /\ Numbered
           /\ Len(regions) \in Nat /\ DOMAIN regions = 1..Len(regions)
           /\ \A b \in DOMAIN regions :
                CanBeLinked(b) /\ WellChained(nextRun, Mine(b), regions[b].run_start)
<1>1. num \in Nat /\ i \in 0..num BY Extraction
<1>2. i \in 0..num-1 BY <1>1
<1> QED BY <1>1, <1>2, Extraction

LEMMA SkippingKeepsCInv ==
    ASSUME IInv, CInv, SkipClear
    PROVE  CInv'
<1>1. /\ pc = "extract" /\ pc' = "extract" /\ i < num /\ runs[i].color = 0 /\ i' = i + 1
      /\ UNCHANGED <<num, runs, parent, nextRun, regions>>
  BY DEF SkipClear, Extracting
<1>2. /\ num \in Nat /\ i \in 0..num-1
      /\ nextRun \in [0..num-1 -> Nat]
      /\ \A k \in i..num-1 : nextRun[k] = 0 /\ runs[parent[k]].color = runs[k].color
      /\ Numbered
      /\ \A b \in DOMAIN regions :
           CanBeLinked(b) /\ WellChained(nextRun, Mine(b), regions[b].run_start)
  BY <1>1, Extraction
<1>3. ColoredRuns' = ColoredRuns /\ ColoredRuns \subseteq Nat /\ i \notin ColoredRuns
  BY <1>1, <1>2 DEF ColoredRuns
<1>4. \A k \in ColoredRuns : k < i' <=> k < i BY <1>1, <1>2, <1>3
<1>5. ASSUME NEW b PROVE Mine(b)' = Mine(b)
  BY <1>1, <1>3, <1>4 DEF Mine
<1>6. Numbered' BY <1>1, <1>2, <1>3, <1>4 DEF Numbered
<1>7. \A b \in DOMAIN regions' :
        CanBeLinked(b)' /\ WellChained(nextRun', Mine(b)', regions'[b].run_start)
  BY <1>1, <1>2, <1>5 DEF CanBeLinked
<1>8. Chained' BY <1>1, <1>2, <1>6, <1>7 DEF Chained, Connecting
<1>9. OneColor' BY <1>1, <1>2 DEF OneColor, Connecting
<1> QED BY <1>8, <1>9 DEF CInv

(* What a step does to the runs of each region and to its record. *)
LEMMA StartingAdds ==
    ASSUME IInv, CInv, StartRegion
    PROVE  \E new \in Nat :
             /\ new = Len(regions) + 1
             /\ DOMAIN regions' = 1..new /\ Len(regions') = new
             /\ \A b \in DOMAIN regions' : b \in DOMAIN regions \/ b = new
             /\ \A b \in DOMAIN regions : regions'[b] = regions[b] /\ Mine(b)' = Mine(b)
             /\ regions'[new] = NewRegion(runs[i]) /\ Mine(new)' = {i}
             /\ ColoredRuns' = ColoredRuns /\ i \in ColoredRuns
<1>1. /\ pc = "extract" /\ pc' \in {"extract", "separate"} /\ i < num
      /\ runs[i].color # 0 /\ i' = i + 1
      /\ parent' = [parent EXCEPT ![i] = Len(regions)]
      /\ regions' = Append(regions, NewRegion(runs[i]))
      /\ UNCHANGED <<num, runs, nextRun>>
  BY DEF StartRegion, Extracting
<1>2. /\ num \in Nat /\ i \in 0..num-1 /\ parent \in [0..num-1 -> Nat]
      /\ nextRun \in [0..num-1 -> Nat]
      /\ \A k \in 0..num-1 : parent[k] <= k
      /\ \A k \in i..num-1 : nextRun[k] = 0 /\ runs[parent[k]].color = runs[k].color
      /\ Numbered
      /\ Len(regions) \in Nat /\ DOMAIN regions = 1..Len(regions)
      /\ \A b \in DOMAIN regions :
           CanBeLinked(b) /\ WellChained(nextRun, Mine(b), regions[b].run_start)
  BY <1>1, ExtractionGoesOn
<1>n. PICK new \in Nat : new = Len(regions) + 1 BY <1>2
<1>3. ColoredRuns' = ColoredRuns /\ ColoredRuns \subseteq 0..num-1 /\ i \in ColoredRuns
  BY <1>1, <1>2 DEF ColoredRuns
<1>4. \A k \in ColoredRuns : k < i' <=> k < i \/ k = i BY <1>1, <1>2, <1>3
<1>5. /\ parent'[i] = Len(regions)
      /\ \A k \in 0..num-1 : k # i => parent'[k] = parent[k]
  BY <1>1, <1>2
<1>6. \A k \in ColoredRuns : k < i => parent[k] < Len(regions) /\ k # i
  BY <1>2, <1>3 DEF Numbered
<1>7. PICK S : regions \in Seq(S) BY DEF IInv, Counting
<1>8. /\ DOMAIN regions' = 1..new
      /\ \A b \in DOMAIN regions : regions'[b] = regions[b]
      /\ regions'[new] = NewRegion(runs[i])
      /\ Len(regions') = new
  BY <1>1, <1>2, <1>7, <1>n
<1>9. ASSUME NEW b \in DOMAIN regions PROVE Mine(b)' = Mine(b)
  <2>1. b \in Nat /\ b - 1 # Len(regions) BY <1>2
  <2>2. \A k \in ColoredRuns : (k < i' /\ parent'[k] = b - 1) <=> (k < i /\ parent[k] = b - 1)
    BY <2>1, <1>3, <1>4, <1>5, <1>6
  <2> QED BY <2>2, <1>3 DEF Mine
<1>10. Mine(new)' = {i}
  <2>1. new - 1 = Len(regions) BY <1>2, <1>n
  <2>2. \A k \in ColoredRuns : (k < i' /\ parent'[k] = new - 1) <=> k = i
    <3>1. ASSUME NEW k \in ColoredRuns, k < i PROVE parent'[k] # new - 1
      <4>1. k \in 0..num-1 /\ k # i /\ parent[k] < Len(regions) /\ parent[k] \in Nat
        BY <3>1, <1>2, <1>3, <1>6
      <4> QED BY <4>1, <2>1, <1>2, <1>5
    <3> QED BY <3>1, <2>1, <1>3, <1>4, <1>5
  <2>3. Mine(new)' = {k \in ColoredRuns : k < i' /\ parent'[k] = new - 1}
    BY <1>3 DEF Mine
  <2> QED BY <2>2, <2>3, <1>3
<1>14. \A b \in DOMAIN regions' : b \in DOMAIN regions \/ b = new
  <2>1. DOMAIN regions = 1..Len(regions) /\ Len(regions) \in Nat /\ DOMAIN regions' = 1..new
    BY <1>2, <1>8
  <2> QED BY <2>1, <1>n
<1> QED BY <1>3, <1>8, <1>9, <1>10, <1>14, <1>n

LEMMA StartingKeepsCInv ==
    ASSUME IInv, CInv, StartRegion
    PROVE  CInv'
<1>1. /\ pc = "extract" /\ pc' \in {"extract", "separate"} /\ i < num
      /\ runs[i].color # 0 /\ i' = i + 1
      /\ parent' = [parent EXCEPT ![i] = Len(regions)]
      /\ regions' = Append(regions, NewRegion(runs[i]))
      /\ UNCHANGED <<num, runs, nextRun>>
  BY DEF StartRegion, Extracting
<1>2. /\ num \in Nat /\ i \in 0..num-1 /\ parent \in [0..num-1 -> Nat]
      /\ nextRun \in [0..num-1 -> Nat]
      /\ \A k \in 0..num-1 : parent[k] <= k
      /\ \A k \in i..num-1 : nextRun[k] = 0 /\ runs[parent[k]].color = runs[k].color
      /\ Numbered
      /\ Len(regions) \in Nat /\ DOMAIN regions = 1..Len(regions)
      /\ \A b \in DOMAIN regions :
           CanBeLinked(b) /\ WellChained(nextRun, Mine(b), regions[b].run_start)
  BY <1>1, ExtractionGoesOn
<1>3. ColoredRuns' = ColoredRuns /\ ColoredRuns \subseteq 0..num-1 /\ i \in ColoredRuns
  BY <1>1, <1>2 DEF ColoredRuns
<1>4. \A k \in ColoredRuns : k < i' <=> k < i \/ k = i BY <1>1, <1>2, <1>3
<1>5. /\ parent'[i] = Len(regions)
      /\ \A k \in 0..num-1 : k # i => parent'[k] = parent[k]
  BY <1>1, <1>2
<1>6. \A k \in ColoredRuns : k < i => parent[k] < Len(regions) /\ k # i
  BY <1>2, <1>3 DEF Numbered
<1>8. PICK new \in Nat :
        /\ new = Len(regions) + 1
        /\ DOMAIN regions' = 1..new /\ Len(regions') = new
        /\ \A b \in DOMAIN regions' : b \in DOMAIN regions \/ b = new
        /\ \A b \in DOMAIN regions : regions'[b] = regions[b] /\ Mine(b)' = Mine(b)
        /\ regions'[new] = NewRegion(runs[i]) /\ Mine(new)' = {i}
  BY StartingAdds
<1>11. regions'[new].run_start = i /\ regions'[new].iterator_id = i
       /\ {"run_start", "iterator_id"} \subseteq DOMAIN regions'[new]
  BY <1>8 DEF NewRegion
<1>12. CanBeLinked(new)' /\ WellChained(nextRun', Mine(new)', regions'[new].run_start)
  <2>1. WellChained(nextRun, {i}, i)
    <3>1. i \in Nat /\ nextRun[i] = 0 BY <1>2
    <3> QED BY <3>1, ChainStarts
  <2>2. i <= i BY <1>2
  <2> QED BY <2>1, <2>2, <1>1, <1>8, <1>11 DEF CanBeLinked
<1>13. ASSUME NEW b \in DOMAIN regions
       PROVE  CanBeLinked(b)' /\ WellChained(nextRun', Mine(b)', regions'[b].run_start)
  BY <1>1, <1>2, <1>8 DEF CanBeLinked
<1>15. Numbered'
  BY <1>1, <1>2, <1>3, <1>4, <1>5, <1>6, <1>8 DEF Numbered
<1>16. Chained'
  BY <1>1, <1>2, <1>8, <1>12, <1>13, <1>15 DEF Chained, Connecting
<1>17. OneColor'
  <2>1. ASSUME NEW k \in i+1..num-1 PROVE runs[parent'[k]].color = runs[k].color
    <3>1. k \in 0..num-1 /\ k \in i..num-1 /\ k # i BY <1>2
    <3>2. parent'[k] = parent[k] BY <3>1, <1>5
    <3>3. runs[parent[k]].color = runs[k].color BY <3>1, <1>2
    <3> QED BY <3>2, <3>3
  <2> QED BY <2>1, <1>1 DEF OneColor, Connecting
<1> QED BY <1>16, <1>17 DEF CInv

LEMMA ExtendingAdds ==
    ASSUME IInv, CInv, ExtendRegion
    PROVE  \E b \in DOMAIN regions : \E last \in Mine(b) :
             /\ last = regions[b].iterator_id /\ \A k \in Mine(b) : k <= last
             /\ b \in Nat /\ b - 1 = parent[parent[i]] /\ b - 1 < Len(regions)
             /\ parent[i] \in Mine(b) /\ runs[parent[i]].color = runs[i].color
             /\ nextRun' = [nextRun EXCEPT ![last] = i]
             /\ regions'[b] = Grown(regions[b], runs[i])
             /\ DOMAIN regions' = DOMAIN regions /\ Len(regions') = Len(regions)
             /\ \A c \in DOMAIN regions : c # b => regions'[c] = regions[c]
                                                  /\ Mine(c)' = Mine(c)
             /\ Mine(b)' = Mine(b) \cup {i}
             /\ Mine(b) \subseteq 0..num-1 /\ \A k \in Mine(b) : k \in Nat /\ k < i
             /\ ColoredRuns' = ColoredRuns /\ i \in ColoredRuns
<1>0. /\ pc = "extract" /\ pc' = "extract" /\ i < num
      /\ runs[i].color # 0 /\ parent[i] # i /\ i' = i + 1
      /\ UNCHANGED <<num, runs>>
  BY DEF ExtendRegion, Extracting, IsRoot
<1>2. /\ num \in Nat /\ i \in 0..num-1 /\ parent \in [0..num-1 -> Nat]
      /\ nextRun \in [0..num-1 -> Nat]
      /\ \A k \in 0..num-1 : parent[k] <= k
      /\ \A k \in i..num-1 : nextRun[k] = 0 /\ runs[parent[k]].color = runs[k].color
      /\ Numbered
      /\ Len(regions) \in Nat /\ DOMAIN regions = 1..Len(regions)
      /\ \A c \in DOMAIN regions :
           CanBeLinked(c) /\ WellChained(nextRun, Mine(c), regions[c].run_start)
  BY <1>0, ExtractionGoesOn
<1>r. nextRun[i] = 0 /\ runs[parent[i]].color = runs[i].color
  <2>1. i \in i..num-1 BY <1>2
  <2> QED BY <2>1, <1>2
<1>p. /\ parent[i] \in ColoredRuns /\ parent[i] < i
      /\ parent[parent[i]] < Len(regions) /\ parent[parent[i]] \in Nat
  <2>1. parent[i] \in 0..num-1 /\ parent[i] < i
    <3>1. parent[i] \in Nat /\ parent[i] <= i /\ i \in Nat BY <1>2
    <3>2. parent[i] < i BY <3>1, <1>0
    <3>3. num \in Nat /\ i < num BY <1>0, <1>2
    <3> QED BY <3>1, <3>2, <3>3
  <2>2. parent[i] \in ColoredRuns BY <2>1, <1>0, <1>r DEF ColoredRuns
  <2>3. parent[parent[i]] < Len(regions) /\ parent[parent[i]] \in Nat
    BY <2>1, <2>2, <1>2 DEF Numbered
  <2> QED BY <2>1, <2>2, <2>3
(* The run's parent was extracted before it, so its region is there. *)
<1>b. PICK b \in DOMAIN regions : b = parent[parent[i]] + 1 BY <1>p, <1>2
<1>l. PICK last \in Mine(b) :
        last = regions[b].iterator_id /\ \A k \in Mine(b) : k <= last
  BY <1>2 DEF CanBeLinked
<1>1. /\ parent' = [parent EXCEPT ![i] = parent[parent[i]]]
      /\ nextRun' = [nextRun EXCEPT ![last] = i]
      /\ regions' = [regions EXCEPT ![b] = Grown(regions[b], runs[i])]
  BY <1>b, <1>l DEF ExtendRegion
<1>3. ColoredRuns' = ColoredRuns /\ ColoredRuns \subseteq 0..num-1 /\ i \in ColoredRuns
  BY <1>0, <1>2 DEF ColoredRuns
<1>4. b \in Nat /\ parent'[i] = b - 1
  <2>1. parent[i] \in 0..num-1 BY <1>2
  <2>2. parent[parent[i]] \in Nat BY <2>1, <1>2
  <2> QED BY <2>2, <1>b, <1>1, <1>2
<1>5. /\ \A k \in ColoredRuns : k < i' <=> k < i \/ k = i
      /\ \A k \in ColoredRuns : k < i => k # i
      /\ \A k \in 0..num-1 : k # i => parent'[k] = parent[k]
  BY <1>0, <1>1, <1>2, <1>3
<1>6. Mine(b)' = Mine(b) \cup {i}
  <2>1. \A k \in ColoredRuns :
          (k < i' /\ parent'[k] = b - 1) <=> (k < i /\ parent[k] = b - 1) \/ k = i
    BY <1>3, <1>4, <1>5
  <2>2. Mine(b)' = {k \in ColoredRuns : k < i' /\ parent'[k] = b - 1}
    BY <1>3 DEF Mine
  <2>3. Mine(b) = {k \in ColoredRuns : k < i /\ parent[k] = b - 1} BY DEF Mine
  <2> QED BY <2>1, <2>2, <2>3, <1>3
<1>7. ASSUME NEW c \in DOMAIN regions, c # b PROVE Mine(c)' = Mine(c)
  <2>1. b - 1 # c - 1 BY <1>2, <1>4, <1>7
  <2>2. \A k \in ColoredRuns :
          (k < i' /\ parent'[k] = c - 1) <=> (k < i /\ parent[k] = c - 1)
    BY <2>1, <1>3, <1>4, <1>5
  <2> QED BY <2>2, <1>3 DEF Mine
<1>8. Mine(b) \in SUBSET Nat /\ Mine(b) \subseteq 0..num-1 /\ i \notin Mine(b)
      /\ \A k \in Mine(b) : k < i
  <2>1. \A k \in Mine(b) : k \in ColoredRuns /\ k < i BY DEF Mine
  <2>0. ColoredRuns \subseteq 0..num-1 BY <1>3
  <2>2. ASSUME NEW k \in Mine(b) PROVE k \in 0..num-1 /\ k \in Nat /\ k < i
    <3>1. k \in ColoredRuns /\ k < i BY <2>1
    <3>2. k \in 0..num-1 BY <3>1, <2>0
    <3> QED BY <3>1, <3>2
  <2>3. i \in Nat BY <1>2
  <2>4. i \notin Mine(b) BY <2>2, <2>3
  <2>5. Mine(b) \subseteq 0..num-1 /\ Mine(b) \in SUBSET Nat BY <2>2
  <2> QED BY <2>2, <2>4, <2>5
<1>10. /\ regions'[b] = Grown(regions[b], runs[i]) /\ DOMAIN regions' = DOMAIN regions
       /\ \A c \in DOMAIN regions : c # b => regions'[c] = regions[c]
       /\ Len(regions') = Len(regions)
  <2>1. PICK S : regions \in Seq(S) BY DEF IInv, Counting
  <2>2. /\ DOMAIN regions' = DOMAIN regions
        /\ regions'[b] = Grown(regions[b], runs[i])
        /\ \A c \in DOMAIN regions : c # b => regions'[c] = regions[c]
    BY <1>1
  <2>3. Len(regions') = Len(regions)
    <3> DEFINE g == Grown(regions[b], runs[i])
    <3>1. regions' = [regions EXCEPT ![b] = g] BY <1>1
    <3> HIDE DEF g
    <3>2. regions' \in Seq(S \cup {g}) BY <2>1, <3>1, <1>2, <1>4
    <3> QED BY <3>2, <2>2, <1>2
  <2> QED BY <2>2, <2>3
<1>11. b - 1 = parent[parent[i]] /\ b - 1 < Len(regions) BY <1>p, <1>b
<1>12. parent[i] \in Mine(b) BY <1>p, <1>11 DEF Mine
<1>13. \A k \in Mine(b) : k \in Nat /\ k < i BY <1>8
<1>14. /\ nextRun' = [nextRun EXCEPT ![last] = i]
       /\ Mine(b) \subseteq 0..num-1
       /\ \A c \in DOMAIN regions : c # b => regions'[c] = regions[c] /\ Mine(c)' = Mine(c)
  BY <1>1, <1>7, <1>8, <1>10
<1> HIDE DEF Mine
<1> QED BY <1>b, <1>l, <1>r, <1>3, <1>4, <1>6, <1>10, <1>11, <1>12, <1>13, <1>14

LEMMA ExtendingKeepsCInv ==
    ASSUME IInv, CInv, ExtendRegion
    PROVE  CInv'
<1>0. /\ pc = "extract" /\ pc' = "extract" /\ i < num
      /\ runs[i].color # 0 /\ parent[i] # i /\ i' = i + 1
      /\ UNCHANGED <<num, runs>>
  BY DEF ExtendRegion, Extracting, IsRoot
<1>2. /\ num \in Nat /\ i \in 0..num-1 /\ parent \in [0..num-1 -> Nat]
      /\ nextRun \in [0..num-1 -> Nat]
      /\ \A k \in 0..num-1 : parent[k] <= k
      /\ \A k \in i..num-1 : nextRun[k] = 0 /\ runs[parent[k]].color = runs[k].color
      /\ Numbered
      /\ Len(regions) \in Nat /\ DOMAIN regions = 1..Len(regions)
      /\ \A c \in DOMAIN regions :
           CanBeLinked(c) /\ WellChained(nextRun, Mine(c), regions[c].run_start)
  BY <1>0, ExtractionGoesOn
<1>r. nextRun[i] = 0 /\ runs[parent[i]].color = runs[i].color
  <2>1. i \in i..num-1 BY <1>2
  <2> QED BY <2>1, <1>2
<1>b. PICK b \in DOMAIN regions : \E last \in Mine(b) :
             /\ last = regions[b].iterator_id /\ \A k \in Mine(b) : k <= last
             /\ b \in Nat /\ b - 1 = parent[parent[i]] /\ b - 1 < Len(regions)
             /\ parent[i] \in Mine(b) /\ runs[parent[i]].color = runs[i].color
             /\ nextRun' = [nextRun EXCEPT ![last] = i]
             /\ regions'[b] = Grown(regions[b], runs[i])
             /\ DOMAIN regions' = DOMAIN regions /\ Len(regions') = Len(regions)
             /\ \A c \in DOMAIN regions : c # b => regions'[c] = regions[c]
                                                  /\ Mine(c)' = Mine(c)
             /\ Mine(b)' = Mine(b) \cup {i}
             /\ Mine(b) \subseteq 0..num-1 /\ \A k \in Mine(b) : k \in Nat /\ k < i
             /\ ColoredRuns' = ColoredRuns /\ i \in ColoredRuns
  BY ExtendingAdds
<1>l. PICK last \in Mine(b) :
             /\ last = regions[b].iterator_id /\ \A k \in Mine(b) : k <= last
             /\ b \in Nat /\ b - 1 = parent[parent[i]] /\ b - 1 < Len(regions)
             /\ parent[i] \in Mine(b) /\ runs[parent[i]].color = runs[i].color
             /\ nextRun' = [nextRun EXCEPT ![last] = i]
             /\ regions'[b] = Grown(regions[b], runs[i])
             /\ DOMAIN regions' = DOMAIN regions /\ Len(regions') = Len(regions)
             /\ \A c \in DOMAIN regions : c # b => regions'[c] = regions[c]
                                                  /\ Mine(c)' = Mine(c)
             /\ Mine(b)' = Mine(b) \cup {i}
             /\ Mine(b) \subseteq 0..num-1 /\ \A k \in Mine(b) : k \in Nat /\ k < i
             /\ ColoredRuns' = ColoredRuns /\ i \in ColoredRuns
  BY <1>b
<1>m. /\ Mine(b) \subseteq 0..num-1 /\ \A k \in Mine(b) : k \in Nat /\ k < i
      /\ last < i
  BY <1>l
<1>3. ColoredRuns' = ColoredRuns /\ ColoredRuns \subseteq 0..num-1 /\ i \in ColoredRuns
  BY <1>l DEF ColoredRuns
<1>4. parent' = [parent EXCEPT ![i] = b - 1] /\ parent'[i] = b - 1
  BY <1>l, <1>2 DEF ExtendRegion
<1>5. /\ \A k \in ColoredRuns : k < i' <=> k < i \/ k = i
      /\ \A k \in ColoredRuns : k < i => k # i
      /\ \A k \in 0..num-1 : k # i => parent'[k] = parent[k]
  BY <1>0, <1>2, <1>3, <1>4
<1>9. /\ {"run_start", "iterator_id"} \subseteq DOMAIN regions[b]
      /\ WellChained(nextRun, Mine(b), regions[b].run_start)
  BY <1>2 DEF CanBeLinked
<1>11. /\ regions'[b].run_start = regions[b].run_start /\ regions'[b].iterator_id = i
       /\ {"run_start", "iterator_id"} \subseteq DOMAIN regions'[b]
  BY <1>9, <1>l DEF Grown
<1>12. CanBeLinked(b)' /\ WellChained(nextRun', Mine(b)', regions'[b].run_start)
  <2>0. Mine(b) \in SUBSET Nat /\ i \notin Mine(b)
    <3>1. i \in Nat BY <1>2
    <3>2. \A k \in Mine(b) : k \in Nat /\ k < i BY <1>m
    <3>3. ~ (i < i) BY <3>1
    <3>4. i \notin Mine(b) BY <3>2, <3>3
    <3> QED BY <3>2, <3>4
  <2>1. last < i /\ i \in 0..num-1 /\ i \in Nat /\ nextRun[i] = 0
    BY <1>2, <1>m, <1>r
  <2>2. WellChained(nextRun', Mine(b) \cup {i}, regions[b].run_start)
    BY <2>1, <2>0, <1>2, <1>9, <1>l, ChainGrows
  <2>3. ASSUME NEW k \in Mine(b) \cup {i} PROVE k <= i
    <3>1. i \in Nat BY <1>2
    <3>2. k \in Mine(b) => k < i /\ k \in Nat BY <1>l
    <3> QED BY <3>1, <3>2
  <2> QED BY <2>2, <2>3, <1>l, <1>11 DEF CanBeLinked
<1>13. ASSUME NEW c \in DOMAIN regions, c # b
       PROVE  CanBeLinked(c)' /\ WellChained(nextRun', Mine(c)', regions'[c].run_start)
  <2>1. last \notin Mine(c)
    <3>1. parent[last] = b - 1 BY DEF Mine
    <3>2. b - 1 # c - 1 BY <1>2, <1>l, <1>13
    <3> QED BY <3>1, <3>2 DEF Mine
  <2>2. \A k \in Mine(c) : nextRun'[k] = nextRun[k]
    BY <2>1, <1>l, <1>2, <1>3 DEF Mine
  <2>3. WellChained(nextRun', Mine(c), regions[c].run_start)
    BY <2>2, <1>2, ChainUntouched
  <2> QED BY <2>3, <1>2, <1>l, <1>13 DEF CanBeLinked
<1>14. Numbered'
  <2>1. \A k \in ColoredRuns : k < i => parent'[k] < Len(regions)
    BY <1>2, <1>3, <1>5 DEF Numbered
  <2>2. parent'[i] < Len(regions) BY <1>2, <1>4, <1>l
  <2> QED BY <2>1, <2>2, <1>3, <1>5, <1>l DEF Numbered
<1>15. nextRun' \in [0..num-1 -> Nat] /\ \A k \in i+1..num-1 : nextRun'[k] = 0
  <2>1. last \in 0..num-1 /\ last < i BY <1>l
  <2>2. nextRun' = [nextRun EXCEPT ![last] = i] /\ i \in Nat BY <1>l, <1>2
  <2>3. nextRun' \in [0..num-1 -> Nat] BY <2>2, <1>2
  <2>4. ASSUME NEW k \in i+1..num-1 PROVE nextRun'[k] = 0
    <3>1. k \in 0..num-1 /\ k \in i..num-1 /\ k # last BY <2>1, <1>2
    <3>2. nextRun[k] = 0 BY <3>1, <1>2
    <3> QED BY <3>1, <3>2, <2>2, <1>2
  <2> QED BY <2>3, <2>4
<1>16. Chained'
  BY <1>0, <1>l, <1>12, <1>13, <1>14, <1>15 DEF Chained, Connecting
<1>17. OneColor'
  <2>1. ASSUME NEW k \in i+1..num-1 PROVE runs[parent'[k]].color = runs[k].color
    <3>1. k \in 0..num-1 /\ k \in i..num-1 /\ k # i BY <1>2
    <3>2. parent'[k] = parent[k] BY <3>1, <1>5
    <3>3. runs[parent[k]].color = runs[k].color BY <3>1, <1>2
    <3> QED BY <3>2, <3>3
  <2> QED BY <2>1, <1>0 DEF OneColor, Connecting
<1> QED BY <1>16, <1>17 DEF CInv

(* The end of a chain, which the code marks once more, is marked already. *)
LEMMA FinishingKeepsCInv ==
    ASSUME IInv, CInv, FinishRegions
    PROVE  CInv'
<1>1. /\ pc = "extract" /\ pc' = "separate"
      /\ regions' = [b \in DOMAIN regions |-> Finished(regions[b])]
      /\ nextRun' = [k \in DOMAIN nextRun |->
                       IF \E b \in DOMAIN regions : regions[b].iterator_id = k
                       THEN 0 ELSE nextRun[k]]
      /\ UNCHANGED <<num, runs, parent, i>>
  BY DEF FinishRegions
<1>2. /\ nextRun \in [0..num-1 -> Nat]
      /\ \A b \in DOMAIN regions :
           CanBeLinked(b) /\ WellChained(nextRun, Mine(b), regions[b].run_start)
  BY <1>1, Extraction
<1>3. \A b \in DOMAIN regions : nextRun[regions[b].iterator_id] = 0
  BY <1>2 DEF CanBeLinked, WellChained, Follows
<1>4. nextRun' = nextRun
  BY <1>1, <1>2, <1>3
<1>5. ASSUME NEW b \in DOMAIN regions
      PROVE  regions'[b].run_start = regions[b].run_start /\ Mine(b)' = Mine(b)
  <2>1. regions'[b] = Finished(regions[b]) BY <1>1
  <2>2. "run_start" \in DOMAIN regions[b] BY <1>2 DEF CanBeLinked
  <2>3. regions'[b].run_start = regions[b].run_start BY <2>1, <2>2 DEF Finished
  <2>4. Mine(b)' = Mine(b) BY <1>1 DEF Mine, ColoredRuns
  <2> QED BY <2>3, <2>4
<1>d. DOMAIN regions' = DOMAIN regions BY <1>1
<1>6. Chained'
  <2>1. \A b \in DOMAIN regions' : WellChained(nextRun', Mine(b)', regions'[b].run_start)
    BY <1>2, <1>4, <1>5, <1>d
  <2>2. nextRun' \in [0..num'-1 -> Nat] BY <1>1, <1>2, <1>4
  <2> QED BY <2>1, <2>2, <1>1 DEF Chained, Connecting
<1>7. OneColor' BY <1>1 DEF OneColor, Connecting
<1> QED BY <1>6, <1>7 DEF CInv

LEMMA ListsKeepCInv ==
    ASSUME IInv, CInv, separateRegions \/ sortRegions \/ UNCHANGED vars
    PROVE  CInv'
<1>1. CASE separateRegions \/ sortRegions
  <2>1. pc' \in {"sort", "done"} /\ UNCHANGED <<num, nextRun>>
    BY <1>1 DEF separateRegions, sortRegions
  <2> QED BY <2>1 DEF CInv, OneColor, Chained, Connecting
<1>2. CASE UNCHANGED vars
  BY <1>2 DEF vars, connectVars, CInv, OneColor, Chained, Numbered, CanBeLinked, Mine,
              ColoredRuns
<1> QED BY <1>1, <1>2

LEMMA ChainsAreRight ==
    ASSUME IInv, CInv
    PROVE  ChainsFollowRegions
<1> SUFFICES ASSUME pc = "separate", NEW b \in DOMAIN regions
             PROVE  /\ regions[b].run_start = Min(Mine(b))
                    /\ \A k \in Mine(b) :
                         LET later == {m \in Mine(b) : m > k} IN
                         nextRun[k] = IF later = {} THEN 0 ELSE Min(later)
  BY DEF ChainsFollowRegions, Mine
<1>1. Mine(b) \subseteq Nat BY DEF Mine, ColoredRuns
<1>2. WellChained(nextRun, Mine(b), regions[b].run_start) BY DEF CInv, Chained
<1>3. regions[b].run_start = Min(Mine(b))
  <2>1. regions[b].run_start \in Mine(b) /\ \A k \in Mine(b) : regions[b].run_start <= k
    BY <1>2 DEF WellChained
  <2>2. Min(Mine(b)) \in Mine(b) /\ \A k \in Mine(b) : Min(Mine(b)) <= k
    BY <2>1, <1>1, MinIsLeast
  <2> QED BY <2>1, <2>2, <1>1
<1>4. ASSUME NEW k \in Mine(b)
      PROVE  LET later == {m \in Mine(b) : m > k} IN
             nextRun[k] = IF later = {} THEN 0 ELSE Min(later)
  <2> DEFINE later == {m \in Mine(b) : m > k}
  <2>1. Follows(nextRun, Mine(b), k) BY <1>2 DEF WellChained
  <2>2. CASE later = {}
    <3>1. \A m \in Mine(b) : m <= k BY <2>2, <1>1
    <3> QED BY <2>1, <2>2, <3>1 DEF Follows
  <2>3. CASE later # {}
    <3>1. nextRun[k] \in later /\ \A m \in later : nextRun[k] <= m
      BY <2>1, <2>3 DEF Follows
    <3>2. later \subseteq Nat BY <1>1
    <3> HIDE DEF later
    <3>3. Min(later) \in later /\ \A m \in later : Min(later) <= m
      BY <2>3, <3>2, MinIsLeast
    <3>4. nextRun[k] \in Nat /\ Min(later) \in Nat BY <3>1, <3>2, <3>3
    <3>5. nextRun[k] <= Min(later) /\ Min(later) <= nextRun[k] BY <3>1, <3>3
    <3>6. nextRun[k] = Min(later) BY <3>4, <3>5
    <3> QED BY <2>3, <3>6 DEF later
  <2> QED BY <2>2, <2>3
<1> QED BY <1>3, <1>4

LEMMA CInvIsInductive == IInv /\ CInv /\ [Next]_vars => CInv'
<1> SUFFICES ASSUME IInv, CInv, [Next]_vars PROVE CInv' OBVIOUS
<1>1. CASE EncodeRun BY <1>1, EncodingKeepsCInv
<1>2. CASE ConnectStep BY <1>2, ConnectKeepsCInv
<1>3. CASE ExtractStep
  BY <1>3, SkippingKeepsCInv, StartingKeepsCInv, ExtendingKeepsCInv, FinishingKeepsCInv
  DEF ExtractStep
<1>4. CASE separateRegions \/ sortRegions \/ UNCHANGED vars BY <1>4, ListsKeepCInv
<1> QED BY <1>1, <1>2, <1>3, <1>4 DEF Next

(* For every image and however small the tables, full or not: from the     *)
(* first run of a region, next leads through all of its runs in the order  *)
(* of the image, and through no other, to the end.                         *)
THEOREM ChainsAreComplete == Spec => []ChainsFollowRegions
BY Initially, InvIsInductive, CInitially, CInvIsInductive, ChainsAreRight, PTL DEF Spec

-----------------------------------------------------------------------------
(* Induction, said of sets, and what it says of recursive functions. *)

LEMMA EveryNumber ==
    ASSUME NEW S \in SUBSET Nat, 0 \in S, \A n \in S : n + 1 \in S
    PROVE  \A n \in Nat : n \in S
<1>. SUFFICES ASSUME Nat \ S # {} PROVE FALSE
  OBVIOUS
<1>1. PICK n \in Nat \ S : \A m \in Nat \ S : n <= m
  BY MinIsLeast
<1>2. n - 1 \in Nat /\ n - 1 \in S BY <1>1
<1>. QED BY <1>1, <1>2

(* f begins with first and goes on by step. *)
Recursion(f, first, step, m) ==
    f = [n \in 0..m |-> IF n = 0 THEN first ELSE step[<<n, f[n - 1]>>]]

LEMMA RecursionExists ==
    ASSUME NEW V, NEW first \in V, NEW m \in Nat,
           NEW step, \A n \in 1..m, v \in V : step[<<n, v>>] \in V
    PROVE  \E f \in [0..m -> V] : Recursion(f, first, step, m)
<1> DEFINE S == {k \in Nat : k <= m => \E f \in [0..k -> V] : Recursion(f, first, step, k)}
<1>1. 0 \in S
  <2> DEFINE f == [n \in 0..0 |-> first]
  <2>1. f \in [0..0 -> V] /\ Recursion(f, first, step, 0) BY DEF Recursion
  <2>. QED BY <2>1
<1>2. ASSUME NEW k \in S PROVE k + 1 \in S
  <2>. SUFFICES ASSUME k + 1 <= m
                PROVE  \E g \in [0..(k + 1) -> V] : Recursion(g, first, step, k + 1)
    OBVIOUS
  <2>1. PICK f \in [0..k -> V] : Recursion(f, first, step, k) OBVIOUS
  <2>2. PICK last \in V : last = step[<<k + 1, f[k]>>] OBVIOUS
  <2> DEFINE g == [n \in 0..(k + 1) |-> IF n = k + 1 THEN last ELSE f[n]]
  <2>3. g \in [0..(k + 1) -> V]
    <3>1. ASSUME NEW n \in 0..(k + 1), n # k + 1 PROVE f[n] \in V
      <4>1. n \in 0..k BY <3>1
      <4>. QED BY <4>1
    <3>. QED BY <3>1
  <2>4. ASSUME NEW n \in 0..(k + 1)
        PROVE  g[n] = IF n = 0 THEN first ELSE step[<<n, g[n - 1]>>]
    <3>1. CASE n = k + 1
      <4>1. g[n] = last /\ n # 0 BY <3>1
      <4>2. g[n - 1] = f[k]
        <5>1. n - 1 = k /\ k \in 0..(k + 1) /\ k # k + 1 BY <3>1
        <5>. QED BY <5>1
      <4>. HIDE DEF g
      <4>. QED BY <4>1, <4>2, <3>1, <2>2
    <3>2. CASE n # k + 1
      <4>1. n \in 0..k /\ g[n] = f[n] BY <3>2
      <4>2. n # 0 => g[n - 1] = f[n - 1]
        <5>1. n # 0 => n - 1 \in 0..(k + 1) /\ n - 1 # k + 1 BY <4>1
        <5>. QED BY <5>1
      <4>3. f[n] = IF n = 0 THEN first ELSE step[<<n, f[n - 1]>>]
        BY <2>1, <4>1 DEF Recursion
      <4>. HIDE DEF g
      <4>. QED BY <4>1, <4>2, <4>3
    <3>. QED BY <3>1, <3>2
  <2>5. g = [n \in 0..(k + 1) |-> g[n]] OBVIOUS
  <2>. HIDE DEF g
  <2>6. Recursion(g, first, step, k + 1) BY <2>4, <2>5 DEF Recursion
  <2>. QED BY <2>3, <2>6
<1>. HIDE DEF S
<1>3. m \in S
  <2>1. S \in SUBSET Nat BY DEF S
  <2>. QED BY <1>1, <1>2, <2>1, EveryNumber
<1>. QED BY <1>3 DEF S

-----------------------------------------------------------------------------
(* Digits. *)

Quotient(n) == n \div CMV_RADIX
Digit(n) == n % CMV_RADIX

LEMMA DivisionByRadix ==
    ASSUME NEW a \in Nat
    PROVE  /\ Quotient(a) \in Nat /\ Digit(a) \in Slots
           /\ a = CMV_RADIX * (Quotient(a)) + Digit(a)
           /\ a > 0 => Quotient(a) < a
<1>1. CMV_RADIX \in Nat /\ CMV_RADIX >= 2 BY SizeAssumption
<1>2. PICK q, r : q = Quotient(a) /\ r = Digit(a)
  OBVIOUS
<1>3. q \in Int /\ r \in Nat /\ r < CMV_RADIX /\ a = CMV_RADIX * q + r
  BY <1>1, <1>2 DEF Quotient, Digit
<1>4. q >= 0
  <2>1. ASSUME q <= -1 PROVE FALSE
    <3>1. CMV_RADIX * q <= CMV_RADIX * (-1) BY <1>1, <1>3, <2>1
    <3>2. CMV_RADIX * (-1) = -CMV_RADIX BY <1>1
    <3>. QED BY <3>1, <3>2, <1>1, <1>3
  <2>. QED BY <2>1, <1>3
<1>5. CMV_RADIX * q >= 2 * q BY <1>1, <1>3, <1>4
<1>6. a > 0 => q < a BY <1>1, <1>3, <1>4, <1>5
<1>7. q \in Nat /\ r \in Slots BY <1>1, <1>3, <1>4 DEF Slots
<1>. QED BY <1>2, <1>3, <1>6, <1>7

LEMMA DivisionKeepsOrder ==
    ASSUME NEW a \in Nat, NEW b \in Nat, a <= b
    PROVE  Quotient(a) <= Quotient(b)
<1>1. PICK q, r : q = Quotient(a) /\ r = Digit(a)
  OBVIOUS
<1>2. PICK p, e : p = Quotient(b) /\ e = Digit(b)
  OBVIOUS
<1>3. q \in Nat /\ r \in Slots /\ a = CMV_RADIX * q + r
  BY <1>1, DivisionByRadix
<1>4. p \in Nat /\ e \in Slots /\ b = CMV_RADIX * p + e
  BY <1>2, DivisionByRadix
<1>5. CMV_RADIX \in Nat /\ r < CMV_RADIX /\ e < CMV_RADIX /\ r \in Nat /\ e \in Nat
  BY <1>3, <1>4, SizeAssumption DEF Slots
<1>6. ASSUME q > p PROVE FALSE
  <2>1. PICK d \in Nat : q = p + 1 + d
    <3>1. q - p - 1 \in Nat /\ q = p + 1 + (q - p - 1) BY <1>3, <1>4, <1>6
    <3>. QED BY <3>1
  <2>2. CMV_RADIX * q = CMV_RADIX * p + CMV_RADIX + CMV_RADIX * d
    BY <2>1, <1>4, <1>5
  <2>3. CMV_RADIX * d >= 0 BY <2>1, <1>5
  <2>. QED BY <2>2, <2>3, <1>3, <1>4, <1>5
<1>7. q <= p BY <1>6, <1>3, <1>4
<1>. QED BY <1>1, <1>2, <1>7

LEMMA ShiftedShifts ==
    ASSUME NEW a \in Nat
    PROVE  /\ Shifted(a, 0) = a
           /\ \A p \in Nat : /\ Shifted(a, p) \in Nat
                             /\ Shifted(a, p + 1) = Quotient(Shifted(a, p))
<1> DEFINE Rest(f, p) == f = [n \in 0..p |-> IF n = 0 THEN a ELSE Quotient(f[n - 1])]
           rest(p) == CHOOSE f : Rest(f, p)
<1>1. ASSUME NEW p \in Nat
      PROVE  rest(p) \in [0..p -> Nat] /\ Rest(rest(p), p)
  <2> DEFINE step == [q \in (1..p) \X Nat |-> Quotient(q[2])]
  <2>1. \A n \in 1..p, v \in Nat : step[<<n, v>>] = Quotient(v) /\ step[<<n, v>>] \in Nat
    BY DivisionByRadix
  <2>. HIDE DEF step
  <2>2. PICK f \in [0..p -> Nat] : Recursion(f, a, step, p)
    BY <2>1, RecursionExists
  <2>3. Rest(f, p)
    <3>1. ASSUME NEW n \in 0..p
          PROVE  f[n] = IF n = 0 THEN a ELSE Quotient(f[n - 1])
      <4>1. f[n] = IF n = 0 THEN a ELSE step[<<n, f[n - 1]>>] BY <2>2 DEF Recursion
      <4>2. n # 0 => n \in 1..p /\ f[n - 1] \in Nat
        <5>1. n # 0 => n \in 1..p /\ n - 1 \in 0..p OBVIOUS
        <5>. QED BY <5>1
      <4>. QED BY <4>1, <4>2, <2>1
    <3>. QED BY <3>1
  <2>4. Rest(rest(p), p) BY <2>3
  <2>. HIDE DEF rest
  <2>5. PICK g : g = rest(p) OBVIOUS
  <2>6. Rest(g, p) BY <2>4, <2>5
  <2>7. g \in [0..p -> Nat]
    <3> DEFINE S == {n \in Nat : n <= p => g[n] \in Nat}
    <3>1. 0 \in S BY <2>6
    <3>2. ASSUME NEW n \in S PROVE n + 1 \in S
      <4>. SUFFICES ASSUME n + 1 <= p PROVE g[n + 1] \in Nat OBVIOUS
      <4>1. n + 1 \in 0..p /\ n + 1 # 0 /\ (n + 1) - 1 = n OBVIOUS
      <4>2. g[n + 1] = Quotient(g[n]) BY <2>6, <4>1
      <4>3. g[n] \in Nat
        <5>1. n <= p OBVIOUS
        <5>. QED BY <5>1
      <4>. QED BY <4>2, <4>3, DivisionByRadix
    <3>. HIDE DEF S
    <3>3. \A n \in Nat : n \in S
      <4>1. S \in SUBSET Nat BY DEF S
      <4>. QED BY <3>1, <3>2, <4>1, EveryNumber
    <3>4. \A n \in 0..p : g[n] \in Nat BY <3>3 DEF S
    <3>. QED BY <2>6, <3>4
  <2>. QED BY <2>5, <2>6, <2>7
<1>2. \A p \in Nat : Shifted(a, p) = rest(p)[p] BY DEF Shifted, Quotient
<1>. HIDE DEF rest
<1>3. ASSUME NEW f, NEW g, NEW p \in Nat, Rest(f, p), Rest(g, p + 1)
      PROVE  g[p + 1] = Quotient(f[p])
  <2> DEFINE S == {n \in Nat : n <= p => g[n] = f[n]}
  <2>1. 0 \in S BY <1>3
  <2>2. ASSUME NEW n \in S PROVE n + 1 \in S
    <3>. SUFFICES ASSUME n + 1 <= p PROVE g[n + 1] = f[n + 1] OBVIOUS
    <3>1. n + 1 \in 0..p /\ n + 1 \in 0..(p + 1) /\ n + 1 # 0 /\ (n + 1) - 1 = n
      OBVIOUS
    <3>2. g[n + 1] = Quotient(g[n]) BY <1>3, <3>1
    <3>3. f[n + 1] = Quotient(f[n]) BY <1>3, <3>1
    <3>. QED BY <3>2, <3>3
  <2>. HIDE DEF S
  <2>3. p \in S
    <3>1. S \in SUBSET Nat BY DEF S
    <3>. QED BY <2>1, <2>2, <3>1, EveryNumber
  <2>4. g[p] = f[p] BY <2>3 DEF S
  <2>5. p + 1 \in 0..(p + 1) /\ p + 1 # 0 /\ (p + 1) - 1 = p OBVIOUS
  <2>6. g[p + 1] = Quotient(g[p]) BY <1>3, <2>5
  <2>. QED BY <2>4, <2>6
<1>4. Shifted(a, 0) = a
  <2>1. Rest(rest(0), 0) BY <1>1
  <2>. QED BY <1>2, <2>1
<1>5. ASSUME NEW p \in Nat
      PROVE  Shifted(a, p) \in Nat /\ Shifted(a, p + 1) = Quotient(Shifted(a, p))
  <2>. HIDE DEF Rest
  <2>0. p \in 0..p /\ p + 1 \in Nat OBVIOUS
  <2>1. Rest(rest(p), p) /\ Rest(rest(p + 1), p + 1) /\ rest(p)[p] \in Nat
    BY <1>1, <2>0
  <2>2. rest(p + 1)[p + 1] = Quotient(rest(p)[p])
    BY <1>3, <2>1
  <2>. QED BY <1>2, <2>1, <2>2
<1>. QED BY <1>4, <1>5

(* Shifting keeps the order, and shifts everything out in the end. *)
LEMMA ShiftedKeepsOrder ==
    ASSUME NEW a \in Nat, NEW b \in Nat, a <= b, NEW p \in Nat
    PROVE  Shifted(a, p) <= Shifted(b, p)
<1> DEFINE S == {n \in Nat : Shifted(a, n) <= Shifted(b, n)}
<1>1. 0 \in S BY ShiftedShifts
<1>2. ASSUME NEW n \in S PROVE n + 1 \in S
  <2>1. Shifted(a, n) \in Nat /\ Shifted(b, n) \in Nat BY ShiftedShifts
  <2>. QED BY <2>1, ShiftedShifts, DivisionKeepsOrder
<1>. HIDE DEF S
<1>3. p \in S
  <2>1. S \in SUBSET Nat BY DEF S
  <2>. QED BY <1>1, <1>2, <2>1, EveryNumber
<1>. QED BY <1>3 DEF S

LEMMA ShiftedAway ==
    ASSUME NEW a \in Nat
    PROVE  Shifted(a, a) = 0
<1> DEFINE S == {n \in Nat : Shifted(a, n) = 0 \/ Shifted(a, n) + n <= a}
<1>1. 0 \in S BY ShiftedShifts
<1>2. ASSUME NEW n \in S PROVE n + 1 \in S
  <2>1. Shifted(a, n) \in Nat /\ Shifted(a, n + 1) \in Nat
        /\ Shifted(a, n + 1) = Quotient(Shifted(a, n))
    BY ShiftedShifts
  <2>2. CASE Shifted(a, n) > 0
    <3>1. Shifted(a, n + 1) < Shifted(a, n) BY <2>1, <2>2, DivisionByRadix
    <3>. QED BY <2>1, <2>2, <3>1
  <2>3. CASE Shifted(a, n) = 0
    <3>1. Shifted(a, n + 1) = 0
      <4>1. Quotient(0) = 0 BY SizeAssumption DEF Quotient
      <4>. QED BY <4>1, <2>1, <2>3
    <3>. QED BY <3>1
  <2>. QED BY <2>1, <2>2, <2>3
<1>. HIDE DEF S
<1>3. a \in S
  <2>1. S \in SUBSET Nat BY DEF S
  <2>. QED BY <1>1, <1>2, <2>1, EveryNumber
<1>4. Shifted(a, a) \in Nat BY ShiftedShifts
<1>. QED BY <1>3, <1>4 DEF S

-----------------------------------------------------------------------------
(* Lists that hold each member of a set once, and which comes first. *)

Enumerates(list, S) ==
    /\ list \in Seq(S)
    /\ \A b \in S : \E k \in 1..Len(list) : list[k] = b
    /\ \A k, l \in 1..Len(list) : list[k] = list[l] => k = l

Before(list, a, b) ==
    \E m, n \in 1..Len(list) : m < n /\ list[m] = a /\ list[n] = b

LEMMA NothingEnumerated ==
    Enumerates(<<>>, {}) /\ \A a, b : ~Before(<<>>, a, b)
BY DEF Enumerates, Before

LEMMA OneEnumerated ==
    ASSUME NEW b
    PROVE  Enumerates(<<b>>, {b}) /\ \A a, c : ~Before(<<b>>, a, c)
<1>1. Len(<<b>>) = 1 /\ <<b>> \in Seq({b}) /\ <<b>>[1] = b
  OBVIOUS
<1>. QED BY <1>1 DEF Enumerates, Before

LEMMA Joining ==
    ASSUME NEW p, NEW S, Enumerates(p, S), NEW q, NEW T, Enumerates(q, T),
           S \cap T = {}
    PROVE  /\ Enumerates(p \o q, S \cup T)
           /\ \A a, b : Before(p \o q, a, b) =>
                 Before(p, a, b) \/ Before(q, a, b) \/ (a \in S /\ b \in T)
<1>1. p \in Seq(S) /\ q \in Seq(T) BY DEF Enumerates
<1>2. p \in Seq(S \cup T) /\ q \in Seq(S \cup T) BY <1>1
<1>3. PICK m \in Nat, n \in Nat : m = Len(p) /\ n = Len(q)
  <2>1. Len(p) \in Nat /\ Len(q) \in Nat BY <1>1
  <2>. QED BY <2>1
<1>4. PICK r \in Seq(S \cup T) : r = p \o q
  <2>1. PICK U : U = S \cup T OBVIOUS
  <2>2. p \in Seq(U) /\ q \in Seq(U) BY <1>2, <2>1
  <2>3. p \o q \in Seq(U) BY <2>2
  <2>. QED BY <2>1, <2>3
<1>5. /\ Len(r) = m + n
      /\ \A k \in 1..m : r[k] = p[k] /\ p[k] \in S
      /\ \A k \in (m + 1)..(m + n) : r[k] = q[k - m] /\ q[k - m] \in T /\ k - m \in 1..n
  <2>1. Len(r) = m + n BY <1>1, <1>3, <1>4
  <2>2. ASSUME NEW k \in 1..m PROVE r[k] = p[k] /\ p[k] \in S
    <3>1. p[k] \in S BY <1>1, <1>3
    <3>2. k \in 1..Len(p) BY <1>3
    <3>3. r[k] = p[k] BY <1>2, <1>4, <3>2
    <3>. QED BY <3>1, <3>3
  <2>3. ASSUME NEW k \in (m + 1)..(m + n)
        PROVE  r[k] = q[k - m] /\ q[k - m] \in T /\ k - m \in 1..n
    <3>1. k - m \in 1..n OBVIOUS
    <3>2. q[k - m] \in T BY <1>1, <1>3, <3>1
    <3>3. r[k] = q[k - m] BY <1>1, <1>2, <1>3, <1>4
    <3>. QED BY <3>1, <3>2, <3>3
  <2>. QED BY <2>1, <2>2, <2>3
<1>6. ASSUME NEW b \in S \cup T PROVE \E k \in 1..(m + n) : r[k] = b
  <2>1. CASE b \in S
    <3>1. PICK k \in 1..m : p[k] = b BY <2>1, <1>3 DEF Enumerates
    <3>. QED BY <3>1, <1>5
  <2>2. CASE b \in T
    <3>1. PICK k \in 1..n : q[k] = b BY <2>2, <1>3 DEF Enumerates
    <3>2. k + m \in (m + 1)..(m + n) /\ (k + m) - m = k OBVIOUS
    <3>3. r[k + m] = b /\ k + m \in 1..(m + n) BY <3>1, <3>2, <1>5
    <3>. QED BY <3>3
  <2>. QED BY <2>1, <2>2
<1>7. ASSUME NEW k \in 1..(m + n), NEW l \in 1..(m + n), r[k] = r[l] PROVE k = l
  <2>1. CASE k \in 1..m /\ l \in 1..m
    BY <2>1, <1>3, <1>5, <1>7 DEF Enumerates
  <2>2. CASE k \in (m + 1)..(m + n) /\ l \in (m + 1)..(m + n)
    <3>1. k - m \in 1..n /\ l - m \in 1..n /\ q[k - m] = q[l - m] BY <2>2, <1>5, <1>7
    <3>2. k - m = l - m BY <3>1, <1>3 DEF Enumerates
    <3>. QED BY <3>2
  <2>3. CASE k \in 1..m /\ l \in (m + 1)..(m + n)
    BY <2>3, <1>5, <1>7
  <2>4. CASE k \in (m + 1)..(m + n) /\ l \in 1..m
    BY <2>4, <1>5, <1>7
  <2>5. (k \in 1..m \/ k \in (m + 1)..(m + n)) /\ (l \in 1..m \/ l \in (m + 1)..(m + n))
    OBVIOUS
  <2>. QED BY <2>1, <2>2, <2>3, <2>4, <2>5
<1>8. Enumerates(r, S \cup T) BY <1>5, <1>6, <1>7 DEF Enumerates
<1>9. ASSUME NEW a, NEW b, Before(r, a, b)
      PROVE  Before(p, a, b) \/ Before(q, a, b) \/ (a \in S /\ b \in T)
  <2>1. PICK k \in 1..(m + n), l \in 1..(m + n) : k < l /\ r[k] = a /\ r[l] = b
    BY <1>5, <1>9 DEF Before
  <2>2. CASE k \in 1..m /\ l \in 1..m
    BY <2>1, <2>2, <1>3, <1>5 DEF Before
  <2>3. CASE k \in (m + 1)..(m + n) /\ l \in (m + 1)..(m + n)
    <3>1. /\ k - m \in 1..n /\ l - m \in 1..n /\ k - m < l - m
          /\ q[k - m] = a /\ q[l - m] = b
      BY <2>1, <2>3, <1>5
    <3>. QED BY <3>1, <1>3 DEF Before
  <2>4. CASE k \in 1..m /\ l \in (m + 1)..(m + n)
    BY <2>1, <2>4, <1>5
  <2>. QED BY <2>1, <2>2, <2>3, <2>4
<1>. QED BY <1>4, <1>8, <1>9

LEMMA Reversing ==
    ASSUME NEW p, NEW S, Enumerates(p, S)
    PROVE  /\ Enumerates(Reverse(p), S)
           /\ \A a, b : Before(Reverse(p), a, b) => Before(p, b, a)
<1>1. p \in Seq(S) BY DEF Enumerates
<1>2. PICK m \in Nat : m = Len(p) BY <1>1
<1>3. PICK r : r = Reverse(p) OBVIOUS
<1>4. r = [k \in 1..m |-> p[(m - k) + 1]] BY <1>2, <1>3 DEF Reverse
<1>5. \A k \in 1..m : (m - k) + 1 \in 1..m /\ r[k] = p[(m - k) + 1] /\ p[k] \in S
  BY <1>1, <1>2, <1>4
<1>6. r \in Seq(S) /\ Len(r) = m
  <2>1. r \in [1..m -> S] BY <1>4, <1>5
  <2>. QED BY <2>1
<1>7. ASSUME NEW b \in S PROVE \E k \in 1..m : r[k] = b
  <2>1. PICK k \in 1..m : p[k] = b BY <1>2 DEF Enumerates
  <2>2. (m - k) + 1 \in 1..m /\ (m - ((m - k) + 1)) + 1 = k OBVIOUS
  <2>3. r[(m - k) + 1] = p[k] BY <2>2, <1>5
  <2>. QED BY <2>1, <2>2, <2>3
<1>8. ASSUME NEW k \in 1..m, NEW l \in 1..m, r[k] = r[l] PROVE k = l
  <2>0. \A i1, i2 \in 1..m : p[i1] = p[i2] => i1 = i2 BY <1>2 DEF Enumerates
  <2>1. (m - k) + 1 = (m - l) + 1
    <3>1. p[(m - k) + 1] = p[(m - l) + 1] BY <1>5, <1>8
    <3>2. (m - k) + 1 \in 1..m /\ (m - l) + 1 \in 1..m OBVIOUS
    <3>. QED BY <3>1, <3>2, <2>0
  <2>. QED BY <2>1
<1>9. Enumerates(r, S) BY <1>6, <1>7, <1>8 DEF Enumerates
<1>10. ASSUME NEW a, NEW b, Before(r, a, b) PROVE Before(p, b, a)
  <2>1. PICK k \in 1..m, l \in 1..m : k < l /\ r[k] = a /\ r[l] = b
    BY <1>6, <1>10 DEF Before
  <2>2. (m - l) + 1 < (m - k) + 1 BY <2>1
  <2>. QED BY <2>1, <2>2, <1>2, <1>5 DEF Before
<1>. QED BY <1>3, <1>9, <1>10

LEMMA PuttingInFront ==
    ASSUME NEW q, NEW T, Enumerates(q, T), NEW b, b \notin T
    PROVE  /\ Enumerates(<<b>> \o q, T \cup {b})
           /\ \A a, c : Before(<<b>> \o q, a, c) => Before(q, a, c) \/ (a = b /\ c \in T)
<1>1. PICK p : p = <<b>> OBVIOUS
<1>2. Enumerates(p, {b}) /\ (\A a, c : ~Before(p, a, c)) BY <1>1, OneEnumerated
<1>3. {b} \cap T = {} OBVIOUS
<1>4. /\ Enumerates(p \o q, {b} \cup T)
      /\ \A a, c : Before(p \o q, a, c) =>
            Before(p, a, c) \/ Before(q, a, c) \/ (a \in {b} /\ c \in T)
  BY <1>2, <1>3, Joining
<1>5. {b} \cup T = T \cup {b} OBVIOUS
<1>6. ASSUME NEW a, NEW c, Before(p \o q, a, c)
      PROVE  Before(q, a, c) \/ (a = b /\ c \in T)
  BY <1>2, <1>4, <1>6
<1>. QED BY <1>1, <1>4, <1>5, <1>6

-----------------------------------------------------------------------------
(* One pass of sorting. *)

Sized(B) == \A b \in B : regions[b].area \in Nat

LEMMA SlotIsDigit ==
    ASSUME NEW B, Sized(B), NEW b \in B, NEW p \in Nat
    PROVE  Slot(b, p) = Digit(Shifted(regions[b].area, p)) /\ Slot(b, p) \in Slots
<1>1. PICK a \in Nat : a = regions[b].area BY DEF Sized
<1>2. PICK d \in Nat : d = Shifted(a, p) BY ShiftedShifts
<1>3. Digit(d) \in Slots BY DivisionByRadix
<1>4. Slot(b, p) = Digit(d) BY <1>1, <1>2 DEF Slot, Digit
<1>. QED BY <1>1, <1>2, <1>3, <1>4

(* The first n regions of the list are in the table, in reverse. *)
IsSplit(tbl, list, B, p, n) ==
    /\ tbl \in [Slots -> Seq(B)]
    /\ \A slot \in Slots :
         /\ Enumerates(tbl[slot], {b \in B : Slot(b, p) = slot /\ \E k \in 1..n : list[k] = b})
         /\ \A a, b : Before(tbl[slot], a, b) => Before(list, b, a)

EmptyTable == [slot \in Slots |-> <<>>]
Entered(tbl, b, p) == [tbl EXCEPT ![Slot(b, p)] = <<b>> \o @]

LEMMA EnteringSplits ==
    ASSUME NEW list, NEW B, Enumerates(list, B), Sized(B), NEW p \in Nat,
           NEW n \in Nat, n < Len(list), NEW tbl, IsSplit(tbl, list, B, p, n)
    PROVE  IsSplit(Entered(tbl, list[n + 1], p), list, B, p, n + 1)
<1> DEFINE In(slot, k) == {b \in B : Slot(b, p) = slot /\ \E l \in 1..k : list[l] = b}
<1>1. PICK m \in Nat : m = Len(list) BY DEF Enumerates
<1>2. n + 1 \in 1..m /\ 1..(n + 1) = (1..n) \cup {n + 1} /\ n + 1 \notin 1..n
  BY <1>1
<1>3. PICK c \in B : c = list[n + 1] BY <1>1, <1>2 DEF Enumerates
<1>4. PICK t \in Slots : t = Slot(c, p) BY SlotIsDigit
<1>5. PICK new : new = Entered(tbl, c, p) OBVIOUS
<1>6. tbl \in [Slots -> Seq(B)] BY DEF IsSplit
<1>7. <<c>> \o tbl[t] \in Seq(B) BY <1>6
<1>8. /\ new \in [Slots -> Seq(B)] /\ new[t] = <<c>> \o tbl[t]
      /\ \A slot \in Slots : slot # t => new[slot] = tbl[slot]
  BY <1>4, <1>5, <1>6, <1>7 DEF Entered
<1>9. ASSUME NEW slot \in Slots
      PROVE  /\ Enumerates(new[slot], In(slot, n + 1))
             /\ \A a, b : Before(new[slot], a, b) => Before(list, b, a)
  <2>1. /\ Enumerates(tbl[slot], In(slot, n))
        /\ \A a, b : Before(tbl[slot], a, b) => Before(list, b, a)
    BY DEF IsSplit
  <2>2. CASE slot # t
    <3>1. In(slot, n + 1) = In(slot, n) BY <1>2, <1>3, <1>4, <2>2
    <3>. QED BY <2>1, <2>2, <3>1, <1>8
  <2>3. CASE slot = t
    <3>1. c \notin In(slot, n)
      <4>1. ASSUME NEW k \in 1..n, list[k] = c PROVE FALSE
        <5>1. k \in 1..m /\ k # n + 1 BY <1>2
        <5>. QED BY <4>1, <5>1, <1>1, <1>2, <1>3 DEF Enumerates
      <4>. QED BY <4>1
    <3>2. In(slot, n + 1) = In(slot, n) \cup {c} BY <1>2, <1>3, <1>4, <2>3
    <3>3. new[slot] = <<c>> \o tbl[slot] BY <1>8, <2>3
    <3>4. \A b \in In(slot, n) : Before(list, b, c)
      <4>1. ASSUME NEW k \in 1..n PROVE Before(list, list[k], c)
        <5>1. k \in 1..m /\ n + 1 \in 1..m /\ k < n + 1 BY <1>2
        <5>. QED BY <5>1, <1>1, <1>3 DEF Before
      <4>. QED BY <4>1
    <3>. HIDE DEF In
    <3>5. /\ Enumerates(<<c>> \o tbl[slot], In(slot, n) \cup {c})
          /\ \A a, b : Before(<<c>> \o tbl[slot], a, b) =>
                Before(tbl[slot], a, b) \/ (a = c /\ b \in In(slot, n))
      BY <2>1, <3>1, PuttingInFront
    <3>6. ASSUME NEW a, NEW b, Before(new[slot], a, b) PROVE Before(list, b, a)
      <4>1. Before(tbl[slot], a, b) \/ (a = c /\ b \in In(slot, n)) BY <3>3, <3>5, <3>6
      <4>. QED BY <4>1, <2>1, <3>4
    <3>. QED BY <3>2, <3>3, <3>5, <3>6
  <2>. QED BY <2>2, <2>3
<1>10. IsSplit(new, list, B, p, n + 1) BY <1>8, <1>9 DEF IsSplit
<1>. QED BY <1>3, <1>5, <1>10

LEMMA SplitRecurs ==
    ASSUME NEW list, NEW B, Enumerates(list, B), Sized(B), NEW p \in Nat
    PROVE  \E f : /\ f = [n \in 0..Len(list) |->
                            IF n = 0 THEN EmptyTable ELSE Entered(f[n - 1], list[n], p)]
                  /\ Split(list, p) = f[Len(list)]
<1> DEFINE Is(f) == f = [n \in 0..Len(list) |->
                           IF n = 0 THEN EmptyTable ELSE Entered(f[n - 1], list[n], p)]
           V == [Slots -> Seq(B)]
           step == [q \in (1..Len(list)) \X V |-> Entered(q[2], list[q[1]], p)]
<1>1. PICK m \in Nat : m = Len(list) BY DEF Enumerates
<1>2. EmptyTable \in V
  <2>1. <<>> \in Seq(B) OBVIOUS
  <2>. QED BY <2>1 DEF EmptyTable
<1>3. ASSUME NEW n \in 1..m, NEW tbl \in V
      PROVE  step[<<n, tbl>>] = Entered(tbl, list[n], p) /\ step[<<n, tbl>>] \in V
  <2>1. step[<<n, tbl>>] = Entered(tbl, list[n], p) BY <1>1
  <2>2. PICK b \in B : b = list[n] BY <1>1 DEF Enumerates
  <2>3. \A slot \in Slots : <<b>> \o tbl[slot] \in Seq(B)
    OBVIOUS
  <2>4. Entered(tbl, b, p) \in V BY <2>3, SlotIsDigit DEF Entered
  <2>. QED BY <2>1, <2>2, <2>4
<1>. HIDE DEF step, V
<1>4. PICK f \in [0..m -> V] : Recursion(f, EmptyTable, step, m)
  BY <1>2, <1>3, RecursionExists
<1>5. Is(f)
  <2>1. ASSUME NEW n \in 0..m
        PROVE  f[n] = IF n = 0 THEN EmptyTable ELSE Entered(f[n - 1], list[n], p)
    <3>1. f[n] = IF n = 0 THEN EmptyTable ELSE step[<<n, f[n - 1]>>] BY <1>4 DEF Recursion
    <3>2. n # 0 => n \in 1..m /\ f[n - 1] \in V
      <4>1. n # 0 => n \in 1..m /\ n - 1 \in 0..m OBVIOUS
      <4>. QED BY <4>1
    <3>. QED BY <3>1, <3>2, <1>3
  <2>. QED BY <2>1, <1>1
<1>6. Split(list, p) = (CHOOSE g : Is(g))[Len(list)]
  BY DEF Split, Entered, EmptyTable
<1>. QED BY <1>5, <1>6

LEMMA Splitting ==
    ASSUME NEW list, NEW B, Enumerates(list, B), Sized(B), NEW p \in Nat
    PROVE  IsSplit(Split(list, p), list, B, p, Len(list))
<1>1. PICK m \in Nat : m = Len(list) BY DEF Enumerates
<1>2. PICK f : /\ f = [n \in 0..m |->
                         IF n = 0 THEN EmptyTable ELSE Entered(f[n - 1], list[n], p)]
               /\ Split(list, p) = f[m]
  BY <1>1, SplitRecurs
<1> DEFINE S == {n \in Nat : n <= m => IsSplit(f[n], list, B, p, n)}
<1>3. 0 \in S
  <2>1. f[0] = EmptyTable BY <1>2
  <2>2. \A slot \in Slots : EmptyTable[slot] = <<>> BY DEF EmptyTable
  <2>3. EmptyTable \in [Slots -> Seq(B)]
    <3>1. <<>> \in Seq(B) OBVIOUS
    <3>. QED BY <3>1 DEF EmptyTable
  <2>4. \A slot : {b \in B : Slot(b, p) = slot /\ \E k \in 1..0 : list[k] = b} = {}
    OBVIOUS
  <2>5. IsSplit(EmptyTable, list, B, p, 0)
    BY <2>2, <2>3, <2>4, NothingEnumerated DEF IsSplit
  <2>. QED BY <2>1, <2>5
<1>4. ASSUME NEW n \in S PROVE n + 1 \in S
  <2>. SUFFICES ASSUME n + 1 <= m PROVE IsSplit(f[n + 1], list, B, p, n + 1)
    OBVIOUS
  <2>1. n + 1 \in 0..m /\ n + 1 # 0 /\ (n + 1) - 1 = n /\ n < m OBVIOUS
  <2>2. f[n + 1] = Entered(f[n], list[n + 1], p) BY <1>2, <2>1
  <2>3. IsSplit(f[n], list, B, p, n) BY <2>1
  <2>. QED BY <1>1, <2>1, <2>2, <2>3, EnteringSplits
<1>. HIDE DEF S
<1>5. m \in S
  <2>1. S \in SUBSET Nat BY DEF S
  <2>. QED BY <1>3, <1>4, <2>1, EveryNumber
<1>. QED BY <1>1, <1>2, <1>5 DEF S

(* The slots below n are back in the list, the largest digits first, and *)
(* what has the same digit in the order it had.                          *)
InOrder(done, list, p) ==
    \A a, b : Before(done, a, b) =>
        \/ Slot(a, p) > Slot(b, p)
        \/ Slot(a, p) = Slot(b, p) /\ Before(list, a, b)

Below(B, p, n) == {b \in B : Slot(b, p) < n}

LEMMA BeforeInside ==
    ASSUME NEW list, NEW S, Enumerates(list, S), NEW a, NEW b, Before(list, a, b)
    PROVE  a \in S /\ b \in S
<1>1. PICK m, n \in 1..Len(list) : list[m] = a /\ list[n] = b BY DEF Before
<1>2. list \in Seq(S) BY DEF Enumerates
<1>3. list[m] \in S /\ list[n] \in S BY <1>2
<1>. QED BY <1>1, <1>3

LEMMA SlotReturns ==
    ASSUME NEW list, NEW B, Enumerates(list, B), Sized(B), NEW p \in Nat,
           NEW tbl, IsSplit(tbl, list, B, p, Len(list)),
           NEW n \in Slots,
           NEW done, Enumerates(done, Below(B, p, n)), InOrder(done, list, p)
    PROVE  /\ Enumerates(Reverse(tbl[n]) \o done, Below(B, p, n + 1))
           /\ InOrder(Reverse(tbl[n]) \o done, list, p)
<1> DEFINE Here == {b \in B : Slot(b, p) = n}
<1>1. Enumerates(tbl[n], Here) /\ \A a, b : Before(tbl[n], a, b) => Before(list, b, a)
  <2>1. \A b \in B : \E k \in 1..Len(list) : list[k] = b BY DEF Enumerates
  <2>2. Here = {b \in B : Slot(b, p) = n /\ \E k \in 1..Len(list) : list[k] = b}
    BY <2>1
  <2>. QED BY <2>2 DEF IsSplit
<1>2. PICK r : r = Reverse(tbl[n]) OBVIOUS
<1>3. Enumerates(r, Here) /\ \A a, b : Before(r, a, b) => Before(list, a, b)
  <2>. HIDE DEF Here
  <2>. QED BY <1>1, <1>2, Reversing
<1>4. \A b \in B : Slot(b, p) \in Nat /\ n \in Nat BY SlotIsDigit DEF Slots
<1>5. Here \cap Below(B, p, n) = {} /\ Here \cup Below(B, p, n) = Below(B, p, n + 1)
  BY <1>4 DEF Below
<1>6. /\ Enumerates(r \o done, Below(B, p, n + 1))
      /\ \A a, b : Before(r \o done, a, b) =>
            Before(r, a, b) \/ Before(done, a, b) \/ (a \in Here /\ b \in Below(B, p, n))
  <2>. HIDE DEF Here
  <2>1. /\ Enumerates(r \o done, Here \cup Below(B, p, n))
        /\ \A a, b : Before(r \o done, a, b) =>
              Before(r, a, b) \/ Before(done, a, b) \/ (a \in Here /\ b \in Below(B, p, n))
    BY <1>3, <1>5, Joining
  <2>. QED BY <1>5, <2>1
<1>7. ASSUME NEW a, NEW b, Before(r \o done, a, b)
      PROVE  Slot(a, p) > Slot(b, p) \/ (Slot(a, p) = Slot(b, p) /\ Before(list, a, b))
  <2>1. CASE Before(r, a, b)
    <3>1. a \in Here /\ b \in Here BY <2>1, <1>3, BeforeInside
    <3>. QED BY <3>1, <2>1, <1>3
  <2>2. CASE Before(done, a, b) BY <2>2 DEF InOrder
  <2>3. CASE a \in Here /\ b \in Below(B, p, n)
    BY <2>3, <1>4 DEF Below
  <2>. QED BY <2>1, <2>2, <2>3, <1>6, <1>7
<1>8. InOrder(r \o done, list, p) BY <1>7 DEF InOrder
<1>. QED BY <1>2, <1>6, <1>8

LEMMA IntegratedRecurs ==
    ASSUME NEW B, NEW tbl \in [Slots -> Seq(B)]
    PROVE  \E f : /\ f = [n \in 0..CMV_RADIX |->
                            IF n = 0 THEN <<>> ELSE Reverse(tbl[n - 1]) \o f[n - 1]]
                  /\ Integrated(tbl) = f[CMV_RADIX]
<1> DEFINE Is(f) == f = [n \in 0..CMV_RADIX |->
                           IF n = 0 THEN <<>> ELSE Reverse(tbl[n - 1]) \o f[n - 1]]
           step == [q \in (1..CMV_RADIX) \X Seq(B) |-> Reverse(tbl[q[1] - 1]) \o q[2]]
<1>1. CMV_RADIX \in Nat BY SizeAssumption
<1>2. ASSUME NEW n \in 1..CMV_RADIX, NEW done \in Seq(B)
      PROVE  step[<<n, done>>] = Reverse(tbl[n - 1]) \o done /\ step[<<n, done>>] \in Seq(B)
  <2>1. step[<<n, done>>] = Reverse(tbl[n - 1]) \o done OBVIOUS
  <2>2. PICK q \in Seq(B) : q = tbl[n - 1]
    <3>1. n - 1 \in Slots BY <1>1 DEF Slots
    <3>. QED BY <3>1
  <2>3. PICK m \in Nat : m = Len(q) OBVIOUS
  <2>4. Reverse(q) \in Seq(B)
    <3>1. Reverse(q) = [k \in 1..m |-> q[(m - k) + 1]] BY <2>3 DEF Reverse
    <3>2. \A k \in 1..m : q[(m - k) + 1] \in B BY <2>3
    <3>3. Reverse(q) \in [1..m -> B] BY <3>1, <3>2
    <3>. QED BY <3>3
  <2>5. PICK r \in Seq(B) : r = Reverse(tbl[n - 1]) BY <2>2, <2>4
  <2>6. r \o done \in Seq(B) OBVIOUS
  <2>. HIDE DEF step
  <2>. QED BY <2>1, <2>5, <2>6
<1>. HIDE DEF step
<1>3. PICK f \in [0..CMV_RADIX -> Seq(B)] : Recursion(f, <<>>, step, CMV_RADIX)
  <2>1. <<>> \in Seq(B) OBVIOUS
  <2>. QED BY <1>1, <1>2, <2>1, RecursionExists
<1>4. Is(f)
  <2>1. ASSUME NEW n \in 0..CMV_RADIX
        PROVE  f[n] = IF n = 0 THEN <<>> ELSE Reverse(tbl[n - 1]) \o f[n - 1]
    <3>1. f[n] = IF n = 0 THEN <<>> ELSE step[<<n, f[n - 1]>>] BY <1>3 DEF Recursion
    <3>2. n # 0 => n \in 1..CMV_RADIX /\ f[n - 1] \in Seq(B)
      <4>1. n # 0 => n \in 1..CMV_RADIX /\ n - 1 \in 0..CMV_RADIX BY <1>1
      <4>. QED BY <4>1
    <3>. QED BY <3>1, <3>2, <1>2
  <2>. QED BY <2>1
<1>5. Integrated(tbl) = (CHOOSE g : Is(g))[CMV_RADIX]
  BY DEF Integrated
<1>. QED BY <1>4, <1>5

LEMMA PassSorts ==
    ASSUME NEW list, NEW B, Enumerates(list, B), Sized(B), NEW p \in Nat
    PROVE  Enumerates(SortPass(list, p), B) /\ InOrder(SortPass(list, p), list, p)
<1>1. PICK tbl : tbl = Split(list, p) OBVIOUS
<1>2. IsSplit(tbl, list, B, p, Len(list)) BY <1>1, Splitting
<1>3. tbl \in [Slots -> Seq(B)] BY <1>2 DEF IsSplit
<1>4. PICK f : /\ f = [n \in 0..CMV_RADIX |->
                         IF n = 0 THEN <<>> ELSE Reverse(tbl[n - 1]) \o f[n - 1]]
               /\ Integrated(tbl) = f[CMV_RADIX]
  BY <1>3, IntegratedRecurs
<1>5. CMV_RADIX \in Nat BY SizeAssumption
<1> DEFINE S == {n \in Nat : n <= CMV_RADIX =>
                   Enumerates(f[n], Below(B, p, n)) /\ InOrder(f[n], list, p)}
<1>6. 0 \in S
  <2>1. f[0] = <<>> BY <1>4, <1>5
  <2>2. Below(B, p, 0) = {} BY SlotIsDigit DEF Below, Slots
  <2>3. InOrder(<<>>, list, p) BY NothingEnumerated DEF InOrder
  <2>. QED BY <2>1, <2>2, <2>3, NothingEnumerated
<1>7. ASSUME NEW n \in S PROVE n + 1 \in S
  <2>. SUFFICES ASSUME n + 1 <= CMV_RADIX
                PROVE  /\ Enumerates(f[n + 1], Below(B, p, n + 1))
                       /\ InOrder(f[n + 1], list, p)
    OBVIOUS
  <2>1. n + 1 \in 0..CMV_RADIX /\ n + 1 # 0 /\ (n + 1) - 1 = n /\ n <= CMV_RADIX
    BY <1>5
  <2>2. n \in Slots BY <1>5, <2>1 DEF Slots
  <2>3. f[n + 1] = Reverse(tbl[n]) \o f[n] BY <1>4, <2>1
  <2>4. PICK done : done = f[n] OBVIOUS
  <2>5. Enumerates(done, Below(B, p, n)) /\ InOrder(done, list, p) BY <2>1, <2>4
  <2>6. /\ Enumerates(Reverse(tbl[n]) \o done, Below(B, p, n + 1))
        /\ InOrder(Reverse(tbl[n]) \o done, list, p)
    BY <1>2, <2>2, <2>5, SlotReturns
  <2>. QED BY <2>3, <2>4, <2>6
<1>. HIDE DEF S
<1>8. CMV_RADIX \in S
  <2>1. S \in SUBSET Nat BY DEF S
  <2>. QED BY <1>5, <1>6, <1>7, <2>1, EveryNumber
<1>9. Below(B, p, CMV_RADIX) = B BY SlotIsDigit, <1>5 DEF Below, Slots
<1>. QED BY <1>1, <1>4, <1>8, <1>9 DEF SortPass, S

-----------------------------------------------------------------------------
(* All passes: after p of them those that agree but in the last p digits are *)
(* sorted.                                                                   *)

SortedUpTo(list, p) ==
    \A a, b :
        Before(list, a, b) /\ Shifted(regions[a].area, p) = Shifted(regions[b].area, p)
          => regions[a].area >= regions[b].area

LEMMA PassSortsFurther ==
    ASSUME NEW list, NEW B, Enumerates(list, B), Sized(B), NEW p \in Nat,
           SortedUpTo(list, p)
    PROVE  Enumerates(SortPass(list, p), B) /\ SortedUpTo(SortPass(list, p), p + 1)
<1>1. PICK next : next = SortPass(list, p) OBVIOUS
<1>2. Enumerates(next, B) /\ InOrder(next, list, p) BY <1>1, PassSorts
<1>3. ASSUME NEW a, NEW b, Before(next, a, b),
             Shifted(regions[a].area, p + 1) = Shifted(regions[b].area, p + 1)
      PROVE  regions[a].area >= regions[b].area
  <2>1. a \in B /\ b \in B BY <1>2, <1>3, BeforeInside
  <2>2. PICK u \in Nat, v \in Nat : u = regions[a].area /\ v = regions[b].area
    BY <2>1 DEF Sized
  <2>3. PICK hu \in Nat, hv \in Nat : hu = Shifted(u, p) /\ hv = Shifted(v, p)
    BY ShiftedShifts
  <2>4. Quotient(hu) = Quotient(hv)
    <3>1. Shifted(u, p + 1) = Quotient(hu) /\ Shifted(v, p + 1) = Quotient(hv)
      BY <2>3, ShiftedShifts
    <3>. QED BY <1>3, <2>2, <3>1
  <2>5. Slot(a, p) = Digit(hu) /\ Slot(b, p) = Digit(hv)
    BY <2>1, <2>2, <2>3, SlotIsDigit
  <2>6. CASE Digit(hu) > Digit(hv)
    <3>1. PICK q \in Nat : q = Quotient(hu) BY DivisionByRadix
    <3>2. PICK c \in Int, d \in Int : c = Digit(hu) /\ d = Digit(hv)
      BY DivisionByRadix DEF Slots
    <3>3. hu = CMV_RADIX * q + c /\ hv = CMV_RADIX * q + d
      BY <2>4, <3>1, <3>2, DivisionByRadix
    <3>4. CMV_RADIX * q \in Nat BY <3>1, SizeAssumption
    <3>5. hu > hv BY <2>6, <3>2, <3>3, <3>4
    <3>6. ASSUME u < v PROVE FALSE
      <4>1. hu <= hv BY <3>6, <2>3, ShiftedKeepsOrder
      <4>. QED BY <4>1, <3>5
    <3>. QED BY <3>6, <2>2
  <2>7. CASE Digit(hu) = Digit(hv)
    <3>1. hu = hv
      <4>1. PICK q \in Nat : q = Quotient(hu) BY DivisionByRadix
      <4>2. PICK c \in Slots : c = Digit(hu) BY DivisionByRadix
      <4>3. hu = CMV_RADIX * q + c /\ hv = CMV_RADIX * q + c
        BY <2>4, <2>7, <4>1, <4>2, DivisionByRadix
      <4>. QED BY <4>3
    <3>2. Before(list, a, b)
      <4>1. ~(Digit(hu) > Digit(hv))
        <5>1. PICK c \in Int : c = Digit(hu) BY DivisionByRadix DEF Slots
        <5>. QED BY <5>1, <2>7
      <4>. QED BY <4>1, <1>2, <1>3, <2>5 DEF InOrder
    <3>. QED BY <3>1, <3>2, <2>2, <2>3 DEF SortedUpTo
  <2>8. Digit(hu) > Digit(hv) \/ Digit(hu) = Digit(hv)
    BY <1>2, <1>3, <2>5 DEF InOrder
  <2>. QED BY <2>6, <2>7, <2>8
<1>4. SortedUpTo(next, p + 1) BY <1>3 DEF SortedUpTo
<1>. QED BY <1>1, <1>2, <1>4

LEMMA SortRecurs ==
    ASSUME NEW list, NEW B, Enumerates(list, B), Sized(B), NEW passes \in Nat
    PROVE  \E f : /\ f = [n \in 0..passes |->
                            IF n = 0 THEN list ELSE SortPass(f[n - 1], n - 1)]
                  /\ sortRegionListByArea(list, passes) =
                       IF Len(list) <= 1 THEN list ELSE f[passes]
<1> DEFINE Is(f) == f = [n \in 0..passes |->
                           IF n = 0 THEN list ELSE SortPass(f[n - 1], n - 1)]
           V == {v \in Seq(B) : Enumerates(v, B)}
           step == [q \in (1..passes) \X V |-> SortPass(q[2], q[1] - 1)]
<1>1. list \in V BY DEF Enumerates
<1>2. ASSUME NEW n \in 1..passes, NEW v \in V
      PROVE  step[<<n, v>>] = SortPass(v, n - 1) /\ step[<<n, v>>] \in V
  <2>1. step[<<n, v>>] = SortPass(v, n - 1) OBVIOUS
  <2>2. PICK p \in Nat : p = n - 1 OBVIOUS
  <2>3. Enumerates(SortPass(v, p), B) BY PassSorts
  <2>4. SortPass(v, p) \in V BY <2>3 DEF Enumerates
  <2>. HIDE DEF step, V
  <2>. QED BY <2>1, <2>2, <2>4
<1>. HIDE DEF step, V
<1>3. PICK f \in [0..passes -> V] : Recursion(f, list, step, passes)
  BY <1>1, <1>2, RecursionExists
<1>4. Is(f)
  <2>1. ASSUME NEW n \in 0..passes
        PROVE  f[n] = IF n = 0 THEN list ELSE SortPass(f[n - 1], n - 1)
    <3>1. f[n] = IF n = 0 THEN list ELSE step[<<n, f[n - 1]>>] BY <1>3 DEF Recursion
    <3>2. n # 0 => n \in 1..passes /\ f[n - 1] \in V
      <4>1. n # 0 => n \in 1..passes /\ n - 1 \in 0..passes OBVIOUS
      <4>. QED BY <4>1
    <3>. QED BY <3>1, <3>2, <1>2
  <2>. QED BY <2>1
<1>5. sortRegionListByArea(list, passes) =
        IF Len(list) <= 1 THEN list ELSE (CHOOSE g : Is(g))[passes]
  BY DEF sortRegionListByArea
<1>. QED BY <1>4, <1>5

(* With as many passes as the areas have digits, the list is sorted. *)
LEMMA SortingSorts ==
    ASSUME NEW list, NEW B, Enumerates(list, B), Sized(B), NEW passes \in Nat,
           \A b \in B : Shifted(regions[b].area, passes) = 0
    PROVE  /\ Enumerates(sortRegionListByArea(list, passes), B)
           /\ \A a, b : Before(sortRegionListByArea(list, passes), a, b) =>
                 regions[a].area >= regions[b].area
<1>1. PICK f : /\ f = [n \in 0..passes |->
                         IF n = 0 THEN list ELSE SortPass(f[n - 1], n - 1)]
               /\ sortRegionListByArea(list, passes) =
                    IF Len(list) <= 1 THEN list ELSE f[passes]
  BY SortRecurs
<1> DEFINE S == {n \in Nat : n <= passes => Enumerates(f[n], B) /\ SortedUpTo(f[n], n)}
<1>2. 0 \in S
  <2>1. f[0] = list BY <1>1
  <2>2. ASSUME NEW a, NEW b, Before(list, a, b),
               Shifted(regions[a].area, 0) = Shifted(regions[b].area, 0)
        PROVE  regions[a].area >= regions[b].area
    <3>1. a \in B /\ b \in B BY <2>2, BeforeInside
    <3>2. PICK u \in Nat, v \in Nat : u = regions[a].area /\ v = regions[b].area
      BY <3>1 DEF Sized
    <3>3. u = v BY <2>2, <3>2, ShiftedShifts
    <3>. QED BY <3>2, <3>3
  <2>3. SortedUpTo(list, 0) BY <2>2 DEF SortedUpTo
  <2>. QED BY <2>1, <2>3
<1>3. ASSUME NEW n \in S PROVE n + 1 \in S
  <2>. SUFFICES ASSUME n + 1 <= passes
                PROVE  Enumerates(f[n + 1], B) /\ SortedUpTo(f[n + 1], n + 1)
    OBVIOUS
  <2>1. n + 1 \in 0..passes /\ n + 1 # 0 /\ (n + 1) - 1 = n /\ n <= passes
    OBVIOUS
  <2>2. f[n + 1] = SortPass(f[n], n) BY <1>1, <2>1
  <2>3. PICK last : last = f[n] OBVIOUS
  <2>4. Enumerates(last, B) /\ SortedUpTo(last, n) BY <2>1, <2>3
  <2>5. n \in Nat OBVIOUS
  <2>6. Enumerates(SortPass(last, n), B) /\ SortedUpTo(SortPass(last, n), n + 1)
    BY <2>4, <2>5, PassSortsFurther
  <2>. QED BY <2>2, <2>3, <2>6
<1>. HIDE DEF S
<1>4. passes \in S
  <2>1. S \in SUBSET Nat BY DEF S
  <2>. QED BY <1>2, <1>3, <2>1, EveryNumber
<1>5. CASE Len(list) <= 1
  <2>1. \A a, b : ~Before(list, a, b)
    <3>1. Len(list) \in Nat BY DEF Enumerates
    <3>. QED BY <1>5, <3>1 DEF Before
  <2>. QED BY <1>1, <1>5, <2>1
<1>6. CASE ~(Len(list) <= 1)
  <2>1. PICK sorted : sorted = sortRegionListByArea(list, passes) OBVIOUS
  <2>2. Enumerates(sorted, B) /\ SortedUpTo(sorted, passes)
    BY <1>1, <1>4, <1>6, <2>1 DEF S
  <2>3. ASSUME NEW a, NEW b, Before(sorted, a, b) PROVE regions[a].area >= regions[b].area
    <3>1. a \in B /\ b \in B BY <2>2, <2>3, BeforeInside
    <3>2. Shifted(regions[a].area, passes) = Shifted(regions[b].area, passes)
      BY <3>1
    <3>. QED BY <2>2, <2>3, <3>2 DEF SortedUpTo
  <2>. QED BY <2>1, <2>2, <2>3
<1>. QED BY <1>5, <1>6

-----------------------------------------------------------------------------
(* As many passes as the areas have digits. *)

LEMMA MaxIsLargest ==
    ASSUME NEW S \in SUBSET Nat, S # {}, NEW u \in Nat, \A n \in S : n <= u
    PROVE  Max(S) \in S /\ \A n \in S : n <= Max(S)
<1> DEFINE Upper == {b \in Nat : \A n \in S : n <= b}
<1>1. Upper \subseteq Nat /\ Upper # {} OBVIOUS
<1>2. PICK b \in Upper : \A c \in Upper : b <= c
  <2>. HIDE DEF Upper
  <2>. QED BY <1>1, MinIsLeast
<1>3. b \in S
  <2>. SUFFICES ASSUME b \notin S PROVE FALSE
    OBVIOUS
  <2>1. \A n \in S : n <= b - 1
    <3>1. ASSUME NEW n \in S PROVE n <= b - 1
      <4>1. n <= b /\ n # b /\ n \in Nat OBVIOUS
      <4>. QED BY <4>1
    <3>. QED BY <3>1
  <2>2. b - 1 \in Nat
    <3>1. PICK n \in S : TRUE OBVIOUS
    <3>2. n <= b - 1 /\ n \in Nat BY <2>1
    <3>. QED BY <3>2
  <2>3. b - 1 \in Upper BY <2>1, <2>2
  <2>. QED BY <1>2, <2>3
<1>4. \A n \in S : b >= n
  <2>1. ASSUME NEW n \in S PROVE b >= n
    <3>1. n <= b /\ n \in Nat OBVIOUS
    <3>. QED BY <3>1
  <2>. QED BY <2>1
<1>5. Max(S) \in S /\ \A n \in S : Max(S) >= n BY <1>3, <1>4 DEF Max
<1>. QED BY <1>5

LEMMA AreasAreBounded ==
    ASSUME NEW m \in Nat, Sized(1..m)
    PROVE  \E u \in Nat : \A b \in 1..m : regions[b].area <= u
<1> DEFINE S == {n \in Nat : n <= m => \E u \in Nat : \A b \in 1..n : regions[b].area <= u}
<1>1. 0 \in S OBVIOUS
<1>2. ASSUME NEW n \in S PROVE n + 1 \in S
  <2>. SUFFICES ASSUME n + 1 <= m
                PROVE  \E u \in Nat : \A b \in 1..(n + 1) : regions[b].area <= u
    OBVIOUS
  <2>1. PICK u \in Nat : \A b \in 1..n : regions[b].area <= u OBVIOUS
  <2>2. PICK v \in Nat : v = regions[n + 1].area
    <3>1. n + 1 \in 1..m OBVIOUS
    <3>. QED BY <3>1 DEF Sized
  <2>3. ASSUME NEW b \in 1..(n + 1) PROVE regions[b].area <= u + v
    <3>1. CASE b = n + 1 BY <2>2, <3>1
    <3>2. CASE b # n + 1
      <4>1. b \in 1..n /\ b \in 1..m BY <3>2
      <4>2. regions[b].area \in Nat BY <4>1 DEF Sized
      <4>. QED BY <2>1, <4>1, <4>2
    <3>. QED BY <3>1, <3>2
  <2>4. PICK w \in Nat : w = u + v OBVIOUS
  <2>. QED BY <2>3, <2>4
<1>. HIDE DEF S
<1>3. m \in S
  <2>1. S \in SUBSET Nat BY DEF S
  <2>. QED BY <1>1, <1>2, <2>1, EveryNumber
<1>4. m <= m OBVIOUS
<1>. QED BY <1>3, <1>4, Zenon DEF S

LEMMA PassesSuffice ==
    ASSUME NEW m \in Nat, Sized(1..m),
           \A c \in DOMAIN lists : Range(lists[c]) \subseteq 1..m
    PROVE  /\ Passes \in Nat
           /\ \A c \in DOMAIN lists : \A b \in Range(lists[c]) :
                 Shifted(regions[b].area, Passes) = 0
<1> DEFINE All == UNION {Range(lists[c]) : c \in DOMAIN lists}
           S == {0} \cup {regions[b].area : b \in All}
<1>1. All \subseteq 1..m OBVIOUS
<1>2. \A b \in All : regions[b].area \in Nat BY <1>1 DEF Sized
<1>3. PICK u \in Nat : \A b \in 1..m : regions[b].area <= u BY AreasAreBounded
<1>4. S \in SUBSET Nat /\ S # {} /\ 0 \in S BY <1>2
<1>5. \A n \in S : n <= u BY <1>1, <1>3
<1>6. PICK largest \in Nat : largest = MaxArea /\ \A n \in S : n <= largest
  <2>1. MaxArea = Max(S) BY DEF MaxArea
  <2>. HIDE DEF S
  <2>. QED BY <1>4, <1>5, <2>1, MaxIsLargest
<1>7. Passes \in Nat /\ Shifted(largest, Passes) = 0
  <2> DEFINE P == {p \in 0..largest : Shifted(largest, p) = 0}
  <2>1. P \subseteq Nat /\ largest \in P BY ShiftedAway
  <2>2. Passes = Min(P) BY <1>6 DEF Passes
  <2>3. Passes \in P
    <3>. HIDE DEF P
    <3>. QED BY <2>1, <2>2, MinIsLeast
  <2>. QED BY <2>3
<1>8. ASSUME NEW c \in DOMAIN lists, NEW b \in Range(lists[c])
      PROVE  Shifted(regions[b].area, Passes) = 0
  <2>1. b \in All OBVIOUS
  <2>2. regions[b].area \in Nat /\ regions[b].area <= largest BY <1>2, <1>6, <2>1
  <2>3. PICK a \in Nat : a = regions[b].area /\ a <= largest BY <2>2
  <2>4. PICK p \in Nat : p = Passes /\ Shifted(largest, p) = 0 BY <1>7
  <2>5. Shifted(a, p) <= 0 /\ Shifted(a, p) \in Nat
    BY <2>3, <2>4, ShiftedKeepsOrder, ShiftedShifts
  <2>. QED BY <2>3, <2>4, <2>5
<1>. QED BY <1>7, <1>8

-----------------------------------------------------------------------------
(* From the region table to the lists. *)

Colors == 0..NumColors-1
Wanted(c, n) == {b \in 1..n : regions[b].color = c /\ regions[b].area >= MinArea}

LEMMA SeparationRecurs ==
    ASSUME NEW m \in Nat, m = Len(regions)
    PROVE  \E f : /\ f = [n \in 0..m |-> IF n = 0 THEN Empty ELSE InsertFront(f[n - 1], n)]
                  /\ f \in [0..m -> [Colors -> Seq(1..m)]]
                  /\ Separated = f[m]
<1> DEFINE Is(f) == f = [n \in 0..m |-> IF n = 0 THEN Empty ELSE InsertFront(f[n - 1], n)]
           V == [Colors -> Seq(1..m)]
           step == [q \in (1..m) \X V |-> InsertFront(q[2], q[1])]
<1>1. Empty \in V
  <2>1. <<>> \in Seq(1..m) OBVIOUS
  <2>. QED BY <2>1 DEF Empty, Colors
<1>2. ASSUME NEW n \in 1..m, NEW table \in V
      PROVE  step[<<n, table>>] = InsertFront(table, n) /\ step[<<n, table>>] \in V
  <2>1. step[<<n, table>>] = InsertFront(table, n) OBVIOUS
  <2>2. \A c \in Colors : table[c] \in Seq(1..m) /\ <<n>> \o table[c] \in Seq(1..m)
    <3>1. ASSUME NEW c \in Colors PROVE <<n>> \o table[c] \in Seq(1..m)
      <4>1. PICK list \in Seq(1..m) : list = table[c] OBVIOUS
      <4>2. <<n>> \in Seq(1..m) OBVIOUS
      <4>3. <<n>> \o list \in Seq(1..m) BY <4>2
      <4>. QED BY <4>1, <4>3
    <3>. QED BY <3>1
  <2>3. DOMAIN table = Colors OBVIOUS
  <2>4. InsertFront(table, n) \in V BY <2>2, <2>3 DEF InsertFront
  <2>. QED BY <2>1, <2>4
<1>. HIDE DEF step, V
<1>3. PICK f \in [0..m -> V] : Recursion(f, Empty, step, m)
  BY <1>1, <1>2, RecursionExists
<1>4. Is(f)
  <2>1. ASSUME NEW n \in 0..m
        PROVE  f[n] = IF n = 0 THEN Empty ELSE InsertFront(f[n - 1], n)
    <3>1. f[n] = IF n = 0 THEN Empty ELSE step[<<n, f[n - 1]>>] BY <1>3 DEF Recursion
    <3>2. n # 0 => n \in 1..m /\ f[n - 1] \in V
      <4>1. n # 0 => n \in 1..m /\ n - 1 \in 0..m OBVIOUS
      <4>. QED BY <4>1
    <3>. QED BY <3>1, <3>2, <1>2
  <2>. QED BY <2>1
<1>5. Separated = (CHOOSE g : Is(g))[m] BY DEF Separated
<1>6. \A g, h : Is(g) /\ Is(h) => g[m] = h[m]
  <2>1. SUFFICES ASSUME NEW g, NEW h, Is(g), Is(h) PROVE g[m] = h[m]
    OBVIOUS
  <2> DEFINE S == {n \in Nat : n <= m => g[n] = h[n]}
  <2>2. 0 \in S BY <2>1
  <2>3. ASSUME NEW n \in S PROVE n + 1 \in S
    <3>. SUFFICES ASSUME n + 1 <= m PROVE g[n + 1] = h[n + 1] OBVIOUS
    <3>1. n + 1 \in 0..m /\ n + 1 # 0 /\ (n + 1) - 1 = n /\ n <= m OBVIOUS
    <3>2. g[n + 1] = InsertFront(g[n], n + 1) BY <2>1, <3>1
    <3>3. h[n + 1] = InsertFront(h[n], n + 1) BY <2>1, <3>1
    <3>4. g[n] = h[n] BY <3>1
    <3>. QED BY <3>2, <3>3, <3>4
  <2>. HIDE DEF S
  <2>4. m \in S
    <3>1. S \in SUBSET Nat BY DEF S
    <3>. QED BY <2>2, <2>3, <3>1, EveryNumber
  <2>. QED BY <2>4 DEF S
<1>. HIDE DEF Is
<1>7. Separated = f[m] BY <1>4, <1>5, <1>6
<1>. QED BY <1>4, <1>7 DEF V, Is

LEMMA Separating ==
    ASSUME NEW m \in Nat, m = Len(regions), Sized(1..m)
    PROVE  /\ DOMAIN Separated = Colors
           /\ \A c \in Colors : Enumerates(Separated[c], Wanted(c, m))
<1>1. PICK f : /\ f = [n \in 0..m |-> IF n = 0 THEN Empty ELSE InsertFront(f[n - 1], n)]
               /\ f \in [0..m -> [Colors -> Seq(1..m)]]
               /\ Separated = f[m]
  BY SeparationRecurs
<1> DEFINE S == {n \in Nat : n <= m => \A c \in Colors : Enumerates(f[n][c], Wanted(c, n))}
<1>2. 0 \in S
  <2>1. f[0] = Empty BY <1>1
  <2>2. \A c \in Colors : Empty[c] = <<>> /\ Wanted(c, 0) = {} BY DEF Empty, Colors, Wanted
  <2>. QED BY <2>1, <2>2, NothingEnumerated
<1>3. ASSUME NEW n \in S PROVE n + 1 \in S
  <2>. SUFFICES ASSUME n + 1 <= m, NEW c \in Colors
                PROVE  Enumerates(f[n + 1][c], Wanted(c, n + 1))
    OBVIOUS
  <2>1. n + 1 \in 0..m /\ n \in 0..m /\ n + 1 # 0 /\ (n + 1) - 1 = n /\ n <= m OBVIOUS
  <2>2. PICK table \in [Colors -> Seq(1..m)] : table = f[n] BY <1>1, <2>1
  <2>3. f[n + 1] = InsertFront(table, n + 1) BY <1>1, <2>1, <2>2
  <2>4. Enumerates(table[c], Wanted(c, n)) BY <2>1, <2>2
  <2>5. PICK b \in Nat : b = n + 1 OBVIOUS
  <2>6. 1..b = (1..n) \cup {b} /\ b \notin 1..n BY <2>5
  <2>7. CASE c = regions[b].color /\ regions[b].area >= MinArea
    <3>1. InsertFront(table, b)[c] = <<b>> \o table[c] BY <2>7 DEF InsertFront
    <3>2. Wanted(c, b) = Wanted(c, n) \cup {b} /\ b \notin Wanted(c, n)
      BY <2>6, <2>7 DEF Wanted
    <3>3. Enumerates(<<b>> \o table[c], Wanted(c, n) \cup {b})
      BY <2>4, <3>2, PuttingInFront
    <3>. QED BY <2>3, <2>5, <3>1, <3>2, <3>3
  <2>8. CASE ~ (c = regions[b].color /\ regions[b].area >= MinArea)
    <3>1. InsertFront(table, b)[c] = table[c] BY <2>8 DEF InsertFront
    <3>2. Wanted(c, b) = Wanted(c, n) BY <2>6, <2>8 DEF Wanted
    <3>. QED BY <2>3, <2>4, <2>5, <3>1, <3>2
  <2>. QED BY <2>7, <2>8
<1>. HIDE DEF S
<1>4. m \in S
  <2>1. S \in SUBSET Nat BY DEF S
  <2>. QED BY <1>2, <1>3, <2>1, EveryNumber
<1>5. m \in 0..m OBVIOUS
<1>6. DOMAIN f[m] = Colors BY <1>1, <1>5
<1>. QED BY <1>1, <1>4, <1>6 DEF S

-----------------------------------------------------------------------------
(* The invariant of the lists. *)

Areas ==
    \A b \in DOMAIN regions : "area" \in DOMAIN regions[b] /\ regions[b].area \in Nat

Listed ==
    /\ DOMAIN lists = Colors
    /\ \A c \in Colors : Enumerates(lists[c], Wanted(c, Len(regions)))

Sorted ==
    \A c \in Colors : \A a, b :
        Before(lists[c], a, b) => regions[a].area >= regions[b].area

LInv ==
    /\ Areas
    /\ pc = "sort" => Listed
    /\ pc = "done" => Listed /\ Sorted

LEMMA LInitially == Init => LInv
<1>. SUFFICES ASSUME Init PROVE LInv OBVIOUS
<1>1. regions = <<>> /\ pc = "encode" BY DEF Init
<1>. QED BY <1>1 DEF LInv, Areas

LEMMA ExtractionKeepsAreas ==
    ASSUME IInv, Areas, ExtractStep
    PROVE  Areas'
<1>1. PICK S : regions \in Seq(S) BY DEF IInv, Counting
<1>2. PICK m \in Nat : m = Len(regions) /\ DOMAIN regions = 1..m BY <1>1
<1>3. num \in Nat /\ \A k \in 0..num-1 : runs[k].width \in Nat BY DEF IInv, Runs
<1>4. CASE SkipClear
  BY <1>4 DEF SkipClear, Areas
<1>5. CASE StartRegion
  <2>1. pc = "extract" /\ i < num /\ regions' = Append(regions, NewRegion(runs[i]))
    BY <1>5 DEF StartRegion, Extracting
  <2>2. i \in 0..num-1 BY <2>1, <1>3 DEF IInv, Counting
  <2>3. PICK g : g = NewRegion(runs[i]) OBVIOUS
  <2>4. "area" \in DOMAIN g /\ g.area \in Nat BY <2>2, <2>3, <1>3 DEF NewRegion
  <2>5. /\ DOMAIN regions' = 1..(m + 1)
        /\ \A b \in 1..m : regions'[b] = regions[b]
        /\ regions'[m + 1] = g
    BY <1>1, <1>2, <2>1, <2>3
  <2>6. \A b \in 1..(m + 1) : b \in 1..m \/ b = m + 1 OBVIOUS
  <2>. QED BY <2>4, <2>5, <2>6, <1>2 DEF Areas
<1>6. CASE ExtendRegion
  <2> DEFINE b == parent[parent[i]] + 1
             grown == Grown(regions[b], runs[i])
  <2>1. /\ pc = "extract" /\ i < num /\ regions' = [regions EXCEPT ![b] = grown]
    BY <1>6 DEF ExtendRegion, Extracting
  <2>2. i \in 0..num-1 BY <2>1, <1>3 DEF IInv, Counting
  <2>3. ASSUME b \in DOMAIN regions PROVE "area" \in DOMAIN grown /\ grown.area \in Nat
    <3>1. PICK g : g = regions[b] OBVIOUS
    <3>2. "area" \in DOMAIN g /\ g.area \in Nat BY <2>3, <3>1 DEF Areas
    <3>3. grown = Grown(g, runs[i]) BY <3>1
    <3>4. DOMAIN grown = DOMAIN g BY <3>3 DEF Grown
    <3>5. grown.area = g.area + runs[i].width BY <3>2, <3>3 DEF Grown
    <3>. QED BY <3>2, <3>4, <3>5, <2>2, <1>3
  <2>. HIDE DEF b, grown
  <2>4. DOMAIN regions' = DOMAIN regions BY <2>1
  <2>5. \A a \in DOMAIN regions : regions'[a] = IF a = b THEN grown ELSE regions[a]
    BY <2>1
  <2>. QED BY <2>3, <2>4, <2>5 DEF Areas
<1>7. CASE FinishRegions
  <2>1. regions' = [b \in DOMAIN regions |-> Finished(regions[b])]
    BY <1>7 DEF FinishRegions
  <2>2. ASSUME NEW b \in DOMAIN regions
        PROVE  "area" \in DOMAIN Finished(regions[b]) /\ Finished(regions[b]).area \in Nat
    <3>1. PICK g : g = regions[b] OBVIOUS
    <3>2. "area" \in DOMAIN g /\ g.area \in Nat BY <3>1 DEF Areas
    <3>3. DOMAIN Finished(g) = DOMAIN g BY DEF Finished
    <3>4. Finished(g).area = g.area BY <3>2 DEF Finished
    <3>. QED BY <3>1, <3>2, <3>3, <3>4
  <2>. QED BY <2>1, <2>2 DEF Areas
<1>. QED BY <1>4, <1>5, <1>6, <1>7 DEF ExtractStep

LEMMA SortedListsStay ==
    ASSUME IInv, LInv, sortRegions
    PROVE  Listed' /\ Sorted'
<1>1. /\ pc = "sort" /\ regions' = regions
      /\ lists' = [c \in DOMAIN lists |-> sortRegionListByArea(lists[c], Passes)]
  BY DEF sortRegions
<1>2. PICK S : regions \in Seq(S) BY DEF IInv, Counting
<1>3. PICK m \in Nat : m = Len(regions) /\ DOMAIN regions = 1..m BY <1>2
<1>4. Listed /\ DOMAIN lists = Colors BY <1>1 DEF LInv, Listed
<1>5. Sized(1..m) BY <1>3 DEF LInv, Areas, Sized
<1>6. ASSUME NEW c \in Colors
      PROVE  /\ Enumerates(lists[c], Wanted(c, m)) /\ Sized(Wanted(c, m))
             /\ Range(lists[c]) = Wanted(c, m)
  <2>1. Enumerates(lists[c], Wanted(c, m)) BY <1>3, <1>4 DEF Listed
  <2>2. Sized(Wanted(c, m)) BY <1>5 DEF Sized, Wanted
  <2>3. PICK list : list = lists[c] OBVIOUS
  <2>4. /\ list \in Seq(Wanted(c, m))
        /\ \A b \in Wanted(c, m) : \E k \in 1..Len(list) : list[k] = b
    BY <2>1, <2>3 DEF Enumerates
  <2>5. DOMAIN list = 1..Len(list) /\ \A k \in 1..Len(list) : list[k] \in Wanted(c, m)
    BY <2>4
  <2>6. Range(list) = Wanted(c, m) BY <2>4, <2>5 DEF Range
  <2>. QED BY <2>1, <2>2, <2>3, <2>6
<1>7. \A c \in DOMAIN lists : Range(lists[c]) \subseteq 1..m
  BY <1>4, <1>6 DEF Wanted
<1>8. /\ Passes \in Nat
      /\ \A c \in DOMAIN lists : \A b \in Range(lists[c]) :
            Shifted(regions[b].area, Passes) = 0
  BY <1>5, <1>7, PassesSuffice
<1>9. PICK passes \in Nat : passes = Passes BY <1>8
<1>10. ASSUME NEW c \in Colors
       PROVE  /\ Enumerates(lists'[c], Wanted(c, m))
              /\ \A a, b : Before(lists'[c], a, b) => regions[a].area >= regions[b].area
  <2>1. PICK list : list = lists[c] OBVIOUS
  <2>2. lists'[c] = sortRegionListByArea(list, passes) BY <1>1, <1>4, <1>9, <2>1
  <2>3. PICK B : B = Wanted(c, m) OBVIOUS
  <2>4. Enumerates(list, B) /\ Sized(B) /\ \A b \in B : Shifted(regions[b].area, passes) = 0
    BY <1>4, <1>6, <1>8, <1>9, <2>1, <2>3
  <2>5. /\ Enumerates(sortRegionListByArea(list, passes), B)
        /\ \A a, b : Before(sortRegionListByArea(list, passes), a, b) =>
              regions[a].area >= regions[b].area
    BY <2>4, SortingSorts
  <2>. QED BY <2>2, <2>3, <2>5
<1>11. \A c : Wanted(c, m)' = Wanted(c, m) BY <1>1 DEF Wanted
<1>12. DOMAIN lists' = Colors BY <1>1, <1>4
<1>13. Len(regions') = m /\ m' = m BY <1>1, <1>3
<1>14. Listed'
  <2>1. \A c : Wanted(c, Len(regions))' = Wanted(c, m) BY <1>1, <1>3 DEF Wanted
  <2>2. Colors' = Colors BY DEF Colors
  <2>. QED BY <1>10, <1>12, <2>1, <2>2 DEF Listed
<1>15. Sorted'
  <2>2. Colors' = Colors BY DEF Colors
  <2>. QED BY <1>1, <1>10, <2>2 DEF Sorted
<1>. QED BY <1>14, <1>15

LEMMA LInvIsInductive == IInv /\ LInv /\ [Next]_vars => LInv'
<1>. SUFFICES ASSUME IInv, LInv, [Next]_vars PROVE LInv' OBVIOUS
<1>1. CASE EncodeRun \/ ConnectStep
  <2>1. /\ pc \in {"encode", "skip", "scan", "climb", "compress"}
        /\ pc' \in {"encode", "skip", "scan", "climb", "compress", "extract"}
        /\ regions' = regions
    BY <1>1 DEF EncodeRun, ConnectStep, SkipFirstLine, PassOn, Adopt, TwoParents,
                ClimbLeft, ClimbRight, UniteRoots, EndScan, Compress, EndCompress, Scanning
  <2>. QED BY <2>1 DEF LInv, Areas
<1>2. CASE ExtractStep
  <2>1. pc' \in {"extract", "separate"}
    BY <1>2 DEF ExtractStep, SkipClear, StartRegion, ExtendRegion, FinishRegions, Extracting
  <2>2. Areas' BY <1>2, ExtractionKeepsAreas DEF LInv
  <2>. QED BY <2>1, <2>2 DEF LInv
<1>3. CASE separateRegions
  <2>1. pc' = "sort" /\ regions' = regions /\ lists' = Separated
    BY <1>3 DEF separateRegions
  <2>2. PICK S : regions \in Seq(S) BY DEF IInv, Counting
  <2>3. PICK m \in Nat : m = Len(regions) /\ DOMAIN regions = 1..m BY <2>2
  <2>4. Sized(1..m) BY <2>3 DEF LInv, Areas, Sized
  <2>5. /\ DOMAIN Separated = Colors
        /\ \A c \in Colors : Enumerates(Separated[c], Wanted(c, m))
    BY <2>3, <2>4, Separating
  <2>6. \A c : Wanted(c, Len(regions))' = Wanted(c, m) BY <2>1, <2>3 DEF Wanted
  <2>7. Colors' = Colors BY DEF Colors
  <2>8. Listed' BY <2>1, <2>5, <2>6, <2>7 DEF Listed
  <2>. QED BY <2>1, <2>8 DEF LInv, Areas
<1>4. CASE sortRegions
  <2>1. pc' = "done" /\ regions' = regions BY <1>4 DEF sortRegions
  <2>. QED BY <1>4, <2>1, SortedListsStay DEF LInv, Areas
<1>5. CASE UNCHANGED vars
  <2>1. pc' = pc /\ regions' = regions /\ lists' = lists BY <1>5 DEF vars
  <2>. QED BY <2>1 DEF LInv, Areas, Listed, Sorted, Wanted, Colors
<1>. QED BY <1>1, <1>2, <1>3, <1>4, <1>5 DEF Next

LEMMA InvariantOfLists == Spec => [](IInv /\ LInv)
BY Initially, LInitially, InvIsInductive, LInvIsInductive, PTL DEF Spec

(* What it says of each list. *)
LEMMA FinalLists ==
    ASSUME IInv, LInv, pc = "done", NEW c \in 0..NumColors-1
    PROVE  \E m, n \in Nat :
             /\ DOMAIN regions = 1..m
             /\ n = Len(lists[c]) /\ lists[c] \in [1..n -> Wanted(c, m)]
             /\ Enumerates(lists[c], Wanted(c, m))
             /\ \A b \in 1..m : regions[b].area \in Nat
             /\ \A k, l \in 1..n : k < l =>
                   regions[lists[c][k]].area >= regions[lists[c][l]].area
<1>1. PICK S : regions \in Seq(S) BY DEF IInv, Counting
<1>2. PICK m \in Nat : m = Len(regions) /\ DOMAIN regions = 1..m BY <1>1
<1>3. Listed /\ Sorted /\ Areas BY DEF LInv
<1>4. PICK list : list = lists[c] OBVIOUS
<1>5. Enumerates(list, Wanted(c, m)) BY <1>2, <1>3, <1>4 DEF Listed, Colors
<1>6. PICK n \in Nat : n = Len(list) /\ list \in [1..n -> Wanted(c, m)]
  <2>1. list \in Seq(Wanted(c, m)) BY <1>5 DEF Enumerates
  <2>. QED BY <2>1
<1>7. \A k, l \in 1..n : k < l => regions[list[k]].area >= regions[list[l]].area
  <2>1. ASSUME NEW k \in 1..n, NEW l \in 1..n, k < l PROVE Before(list, list[k], list[l])
    BY <1>6, <2>1 DEF Before
  <2>. QED BY <1>3, <1>4, <2>1 DEF Sorted, Colors
<1>8. \A b \in 1..m : regions[b].area \in Nat BY <1>2, <1>3 DEF Areas
<1>. QED BY <1>2, <1>4, <1>5, <1>6, <1>7, <1>8

(* Whatever the image, however many colours, however large its regions and  *)
(* whatever the radix: each colour's list ends up with every region of the  *)
(* colour that is large enough, once, the largest first.                    *)
THEOREM ListsAreSorted == Spec => []ListsSortedByArea
<1>1. ASSUME IInv, LInv PROVE ListsSortedByArea
  <2>. SUFFICES ASSUME pc = "done", NEW c \in 0..NumColors-1
                PROVE  /\ Range(lists[c]) = {b \in DOMAIN regions :
                              regions[b].color = c /\ regions[b].area >= MinArea}
                       /\ Cardinality(Range(lists[c])) = Len(lists[c])
                       /\ \A k \in 1..Len(lists[c])-1 :
                             regions[lists[c][k]].area >= regions[lists[c][k + 1]].area
    BY DEF ListsSortedByArea
  <2>1. PICK m \in Nat, n \in Nat :
             /\ DOMAIN regions = 1..m
             /\ n = Len(lists[c]) /\ lists[c] \in [1..n -> Wanted(c, m)]
             /\ Enumerates(lists[c], Wanted(c, m))
             /\ \A b \in 1..m : regions[b].area \in Nat
             /\ \A k, l \in 1..n : k < l =>
                   regions[lists[c][k]].area >= regions[lists[c][l]].area
    BY <1>1, FinalLists
  <2>2. PICK B : B = Wanted(c, m) OBVIOUS
  <2>3. PICK list : list = lists[c] OBVIOUS
  <2>4. /\ list \in [1..n -> B]
        /\ \A b \in B : \E k \in 1..n : list[k] = b
        /\ \A k, l \in 1..n : list[k] = list[l] => k = l
    BY <2>1, <2>2, <2>3 DEF Enumerates
  <2>5. Range(list) = B BY <2>4 DEF Range
  <2>6. Cardinality(B) = n
    <3>1. ExistsBijection(1..n, B)
      BY <2>4 DEF ExistsBijection, Bijection, Injection, Surjection, IsInjective
    <3>. QED BY <3>1, FS_CountingElements
  <2>7. B = {b \in DOMAIN regions : regions[b].color = c /\ regions[b].area >= MinArea}
    BY <2>1, <2>2 DEF Wanted
  <2>8. ASSUME NEW k \in 1..n-1 PROVE regions[list[k]].area >= regions[list[k + 1]].area
    <3>1. k \in 1..n /\ k + 1 \in 1..n /\ k < k + 1 BY <2>1
    <3>. QED BY <2>1, <2>3, <3>1
  <2>. QED BY <2>1, <2>3, <2>5, <2>6, <2>7, <2>8
<1>. QED BY InvariantOfLists, <1>1, PTL

(* Where a filter finds a region it checks, and it finds each it would accept. *)
LEMMA FilterWalks ==
    ASSUME NEW filter \in Filters, NEW list, NEW n \in Nat, n = Len(list),
           DOMAIN list = 1..n,
           \A k \in 1..n : regions[list[k]].area \in Nat,
           \A k, l \in 1..n : k < l => regions[list[k]].area >= regions[list[l]].area
    PROVE  Found(filter, list) = {k \in DOMAIN list : check(filter, regions[list[k]])}
<1>1. PICK min \in Int, max \in Int : min = filter.area.min /\ max = filter.area.max
  BY FilterAssumption
<1>2. PICK area \in [1..n -> Nat] : \A k \in 1..n : area[k] = regions[list[k]].area
  <2>1. [k \in 1..n |-> regions[list[k]].area] \in [1..n -> Nat] OBVIOUS
  <2>. QED BY <2>1
<1>3. PICK first \in 1..(n + 1) :
        /\ first = FirstOfSize(filter, list)
        /\ first = n + 1 \/ area[first] <= max
        /\ \A k \in 1..n : area[k] <= max => first <= k
  <2> DEFINE F == {n + 1} \cup {k \in 1..n : area[k] <= max}
  <2>1. FirstOfSize(filter, list) = Min(F)
    <3>1. F = {Len(list) + 1} \cup
                {k \in DOMAIN list : regions[list[k]].area <= filter.area.max}
      BY <1>1, <1>2
    <3>. QED BY <3>1 DEF FirstOfSize
  <2>2. F \subseteq Nat /\ F # {} OBVIOUS
  <2>3. Min(F) \in F /\ \A k \in F : Min(F) <= k
    <3>. HIDE DEF F
    <3>. QED BY <2>2, MinIsLeast
  <2>4. PICK first : first = Min(F) OBVIOUS
  <2>5. first \in F /\ \A k \in F : first <= k BY <2>3, <2>4
  <2>6. first \in 1..(n + 1) /\ (first = n + 1 \/ area[first] <= max) BY <2>5
  <2>7. \A k \in 1..n : area[k] <= max => first <= k BY <2>5
  <2>. HIDE DEF F
  <2>. QED BY <2>1, <2>4, <2>6, <2>7
<1>4. PICK small \in 1..(n + 1) :
        /\ small = FirstTooSmall(filter, list)
        /\ small = n + 1 \/ area[small] < min
        /\ \A k \in 1..n : area[k] < min => small <= k
  <2> DEFINE F == {n + 1} \cup {k \in 1..n : area[k] < min}
  <2>1. FirstTooSmall(filter, list) = Min(F)
    <3>1. F = {Len(list) + 1} \cup
                {k \in DOMAIN list : regions[list[k]].area < filter.area.min}
      BY <1>1, <1>2
    <3>. QED BY <3>1 DEF FirstTooSmall
  <2>2. F \subseteq Nat /\ F # {} OBVIOUS
  <2>3. Min(F) \in F /\ \A k \in F : Min(F) <= k
    <3>. HIDE DEF F
    <3>. QED BY <2>2, MinIsLeast
  <2>4. PICK small : small = Min(F) OBVIOUS
  <2>5. small \in F /\ \A k \in F : small <= k BY <2>3, <2>4
  <2>6. small \in 1..(n + 1) /\ (small = n + 1 \/ area[small] < min) BY <2>5
  <2>7. \A k \in 1..n : area[k] < min => small <= k BY <2>5
  <2>. HIDE DEF F
  <2>. QED BY <2>1, <2>4, <2>6, <2>7
<1>5. \A k, l \in 1..n : k < l => area[k] >= area[l] BY <1>2
<1>6. first..small - 1 = {k \in 1..n : min <= area[k] /\ area[k] <= max}
  <2>1. ASSUME NEW k \in first..small - 1
        PROVE  k \in 1..n /\ min <= area[k] /\ area[k] <= max
    <3>1. k \in 1..n /\ area[k] \in Nat /\ first \in 1..n OBVIOUS
    <3>2. ~ (area[k] < min) BY <1>4, <3>1
    <3>3. area[first] <= max /\ area[first] \in Nat BY <1>3, <3>1
    <3>4. area[k] <= area[first] BY <1>5, <3>1
    <3>. QED BY <3>1, <3>2, <3>3, <3>4
  <2>2. ASSUME NEW k \in 1..n, min <= area[k], area[k] <= max
        PROVE  k \in first..small - 1
    <3>1. first <= k /\ area[k] \in Nat BY <1>3, <2>2
    <3>2. ASSUME small <= k PROVE FALSE
      <4>1. small \in 1..n /\ area[small] < min /\ area[small] \in Nat BY <1>4, <3>2
      <4>2. area[k] <= area[small] BY <1>5, <3>2, <4>1
      <4>. QED BY <2>2, <3>1, <4>1, <4>2
    <3>. QED BY <3>1, <3>2
  <2>. QED BY <2>1, <2>2
<1>7. Found(filter, list) = {k \in first..small - 1 : RightSize(filter, regions[list[k]])}
  BY <1>3, <1>4 DEF Found
<1>8. \A k \in 1..n : check(filter, regions[list[k]]) <=>
        min <= area[k] /\ area[k] <= max /\ RightSize(filter, regions[list[k]])
  BY <1>1, <1>2 DEF check, inside
<1>. QED BY <1>6, <1>7, <1>8

(* For every filter: what the walk from the first region of size to the first *)
(* that is too small finds is exactly what check accepts.                     *)
THEOREM FilterFindsWhatItChecks == Spec => []FilterAgreesWithCheck
<1>1. ASSUME IInv, LInv PROVE FilterAgreesWithCheck
  <2>. SUFFICES ASSUME pc = "done", NEW c \in 0..NumColors-1, NEW filter \in Filters
                PROVE  Found(filter, lists[c]) =
                         {k \in DOMAIN lists[c] : check(filter, regions[lists[c][k]])}
    BY DEF FilterAgreesWithCheck
  <2>1. PICK m \in Nat, n \in Nat :
             /\ DOMAIN regions = 1..m
             /\ n = Len(lists[c]) /\ lists[c] \in [1..n -> Wanted(c, m)]
             /\ Enumerates(lists[c], Wanted(c, m))
             /\ \A b \in 1..m : regions[b].area \in Nat
             /\ \A k, l \in 1..n : k < l =>
                   regions[lists[c][k]].area >= regions[lists[c][l]].area
    BY <1>1, FinalLists
  <2>2. PICK list : list = lists[c] OBVIOUS
  <2>3. /\ n = Len(list) /\ DOMAIN list = 1..n
        /\ \A k \in 1..n : regions[list[k]].area \in Nat
    <3>1. \A k \in 1..n : list[k] \in 1..m BY <2>1, <2>2 DEF Wanted
    <3>. QED BY <2>1, <2>2, <3>1
  <2>4. \A k, l \in 1..n : k < l => regions[list[k]].area >= regions[list[l]].area
    BY <2>1, <2>2
  <2>5. Found(filter, list) = {k \in DOMAIN list : check(filter, regions[list[k]])}
    BY <2>3, <2>4, FilterWalks
  <2>. QED BY <2>2, <2>5
<1>. QED BY InvariantOfLists, <1>1, PTL

-----------------------------------------------------------------------------
(* The runs draw the image: each is as long as its colour lasts, no two of *)
(* a row overlap, and every coloured pixel passed so far is in one.        *)

Holds(k, a, b) == runs[k].y = b /\ runs[k].x <= a /\ a < End(k)

(* Where encodeRuns has been. *)
Passed(a, b) == b < y \/ (b = y /\ a < x)

DrawnRun(k) ==
    /\ runs[k].x < End(k) /\ runs[k].y < image.height
    /\ \A a \in Nat : Holds(k, a, runs[k].y) =>
         PixelColor(<<a, runs[k].y>>) = runs[k].color
    /\ End(k) < image.width => PixelColor(<<End(k), runs[k].y>>) # runs[k].color
    /\ runs[k].y <= y /\ (runs[k].y = y => End(k) <= x)

Apart == \A k, m \in 0..num-1 : k < m /\ runs[k].y = runs[m].y => End(k) <= runs[m].x

Covered ==
    \A a \in 0..image.width-1, b \in 0..image.height-1 :
      Passed(a, b) /\ PixelColor(<<a, b>>) # 0 =>
        \E k \in 0..num-1 : Holds(k, a, b)

Drawn == (\A k \in 0..num-1 : DrawnRun(k)) /\ Apart /\ Covered

(* A run is all of one colour, and the pixel after it is of another. *)
LEMMA RunEndsAtChange ==
    ASSUME Sizes, x \in Nat, x < image.width
    PROVE  /\ \A a \in Nat : x <= a /\ a < RunEnd =>
                PixelColor(<<a, y>>) = PixelColor(<<x, y>>)
           /\ RunEnd < image.width => PixelColor(<<RunEnd, y>>) # PixelColor(<<x, y>>)
<1> DEFINE Ends(a) == a = image.width \/ PixelColor(<<a, y>>) # PixelColor(<<x, y>>)
           S == {a \in x+1..image.width : Ends(a)}
<1>1. image.width \in S /\ S \subseteq Nat
  BY DEF Sizes
<1>2. Min(S) \in S /\ \A a \in S : Min(S) <= a
  <2> HIDE DEF S
  <2> QED BY <1>1, MinIsLeast
<1>3. RunEnd = Min(S) BY DEF RunEnd
<1>4. RunEnd \in S /\ \A a \in S : RunEnd <= a
  <2> HIDE DEF S
  <2> QED BY <1>2, <1>3
<1>5. ASSUME NEW a \in Nat, x <= a, a < RunEnd
      PROVE  PixelColor(<<a, y>>) = PixelColor(<<x, y>>)
  <2>1. CASE a = x BY <2>1
  <2>2. CASE a # x
    <3>1. a \in x+1..image.width /\ a # image.width
      BY <2>2, <1>4, <1>5 DEF Sizes
    <3>2. a \notin S BY <1>4, <1>5, <1>1
    <3> QED BY <3>1, <3>2
  <2> QED BY <2>1, <2>2
<1>6. Ends(RunEnd) BY <1>4
<1> QED BY <1>4, <1>5, <1>6 DEF Sizes

LEMMA DrawnInitially == Init => Drawn
BY DEF Init, Drawn, Apart, Covered, Passed

LEMMA DrawingStays ==
    ASSUME Drawn, UNCHANGED <<image, x, y, num, runs>>
    PROVE  Drawn'
BY DEF Drawn, DrawnRun, Apart, Covered, Passed, Holds, End, PixelColor

LEMMA EncodingDraws ==
    ASSUME IInv, Drawn, EncodeRun
    PROVE  Drawn'
<1>1. /\ x \in Nat /\ y \in Nat /\ x < image.width /\ y < image.height
      /\ num \in Nat /\ image.width \in Nat /\ image.height \in Nat
      /\ RunEnd \in Nat /\ x < RunEnd /\ RunEnd <= image.width
  BY RunEndInRow DEF IInv, EncodeRun, Cursor, Runs, Sizes
<1>2. /\ x' = IF RunEnd = image.width THEN 0 ELSE RunEnd
      /\ y' = IF RunEnd = image.width THEN y + 1 ELSE y
      /\ image' = image
  BY DEF EncodeRun
<1>3. \A k \in 0..num-1 : /\ runs[k].x \in Nat /\ runs[k].y \in Nat
                          /\ End(k) \in Nat /\ End(k) <= image.width
  BY <1>1 DEF IInv, Runs, End
<1>4. /\ \A a \in Nat : x <= a /\ a < RunEnd => PixelColor(<<a, y>>) = PixelColor(<<x, y>>)
      /\ RunEnd < image.width => PixelColor(<<RunEnd, y>>) # PixelColor(<<x, y>>)
  BY <1>1, RunEndsAtChange DEF IInv
<1>5. \A k \in 0..num-1 : runs[k].y <= y /\ (runs[k].y = y => End(k) <= x)
  BY DEF Drawn, DrawnRun
<1>p. \A q : PixelColor(q)' = PixelColor(q)
  BY <1>2 DEF PixelColor
(* Runs drawn before stay as they are, and lie before the new place. *)
<1>6. ASSUME NEW k \in 0..num-1, runs'[k] = runs[k]
      PROVE  DrawnRun(k)' /\ End(k)' = End(k)
  <2>1. End(k)' = End(k) BY <1>6 DEF End
  <2>2. runs'[k].y <= y' /\ (runs'[k].y = y' => End(k)' <= x')
    BY <2>1, <1>1, <1>2, <1>3, <1>5, <1>6
  <2>3. DrawnRun(k) BY DEF Drawn
  <2>4. runs'[k].y = runs[k].y /\ runs'[k].x = runs[k].x /\ runs'[k].color = runs[k].color
    BY <1>6
  <2>5. \A a, b : Holds(k, a, b)' <=> Holds(k, a, b) BY <2>1, <2>4 DEF Holds
  <2> QED BY <2>1, <2>2, <2>3, <2>4, <2>5, <1>2, <1>p DEF DrawnRun
(* A pixel passed in this step is one of this run. *)
<1>7. ASSUME NEW a \in 0..image.width-1, NEW b \in 0..image.height-1,
             Passed(a, b)'
      PROVE  Passed(a, b) \/ (b = y /\ x <= a /\ a < RunEnd)
  BY <1>1, <1>2, <1>7 DEF Passed
<1>8. CASE ~IsEncoded
  <2>1. num' = num /\ runs' = runs BY <1>8 DEF EncodeRun
  <2>2. Apart'
    BY <2>1 DEF Drawn, Apart, End
  <2>3. ASSUME NEW a \in 0..image.width-1, NEW b \in 0..image.height-1,
               Passed(a, b)', PixelColor(<<a, b>>) # 0
        PROVE  \E k \in 0..num-1 : Holds(k, a, b)
    <3>1. CASE Passed(a, b) BY <3>1, <2>3 DEF Drawn, Covered
    <3>2. CASE b = y /\ x <= a /\ a < RunEnd
      <4>1. a \in Nat BY <1>1
      <4>2. PixelColor(<<a, b>>) = PixelColor(<<x, y>>) BY <3>2, <4>1, <1>4
      <4> QED BY <4>2, <2>3, <1>8 DEF IsEncoded
    <3> QED BY <3>1, <3>2, <2>3, <1>7
  <2>4. Covered'
    BY <2>1, <2>3, <1>2, <1>p DEF Covered, Holds, End
  <2>5. \A k \in 0..num'-1 : DrawnRun(k)' BY <2>1, <1>6
  <2> QED BY <2>2, <2>4, <2>5 DEF Drawn
<1>9. CASE IsEncoded
  <2>1. num' = num + 1 /\ runs' = WithLast(runs, ThisRun)
    BY <1>9 DEF EncodeRun
  <2>n. PICK last \in Nat : last = num BY <1>1
  <2>2. (\A k \in 0..num-1 : runs'[k] = runs[k]) /\ runs'[last] = ThisRun
    BY <2>n, <2>1, <1>1 DEF WithLast
  <2>3. /\ runs'[last].x = x /\ runs'[last].y = y /\ runs'[last].color = PixelColor(<<x, y>>)
        /\ End(last)' = RunEnd
    BY <2>2, <1>1 DEF ThisRun, End
  <2>4. \A a, b : Holds(last, a, b)' <=> b = y /\ x <= a /\ a < RunEnd
    BY <2>3 DEF Holds
  <2>5. DrawnRun(last)'
    <3>1. runs'[last].y <= y' /\ (runs'[last].y = y' => End(last)' <= x')
      BY <2>3, <1>1, <1>2
    <3>2. PICK row \in Nat, e \in Nat : row = y /\ e = RunEnd BY <1>1
    <3>3. \A a \in Nat : Holds(last, a, row)' => PixelColor(<<a, row>>)' = runs'[last].color
      BY <2>3, <2>4, <3>2, <1>4, <1>p
    <3>4. e < image'.width => PixelColor(<<e, row>>)' # runs'[last].color
      BY <2>3, <3>2, <1>2, <1>4, <1>p
    <3>5. runs'[last].y = row /\ End(last)' = e BY <2>3, <3>2
    <3> QED BY <3>1, <3>2, <3>3, <3>4, <3>5, <2>3, <1>1, <1>2 DEF DrawnRun
  <2>6. \A k \in 0..num'-1 : k \in 0..num-1 \/ k = last BY <2>n, <2>1, <1>1
  <2>7. \A k \in 0..num'-1 : DrawnRun(k)' BY <2>2, <2>5, <2>6, <1>6
  <2>8. Apart'
    <3>1. ASSUME NEW k \in 0..num'-1, NEW m \in 0..num'-1, k < m, runs'[k].y = runs'[m].y
          PROVE  End(k)' <= runs'[m].x
      <4>1. k \in 0..num-1 BY <3>1, <2>1, <1>1
      <4>2. runs'[k] = runs[k] /\ End(k)' = End(k) BY <4>1, <2>2, <1>6
      <4>3. CASE m \in 0..num-1
        <5>1. runs'[m] = runs[m] BY <4>3, <2>2
        <5> QED BY <5>1, <4>1, <4>2, <4>3, <3>1 DEF Drawn, Apart
      <4>4. CASE m = last BY <4>1, <4>2, <4>4, <3>1, <2>3, <1>5
      <4> QED BY <4>3, <4>4, <2>6
    <3> QED BY <3>1 DEF Apart
  <2>9. Covered'
    <3>1. ASSUME NEW a \in 0..image.width-1, NEW b \in 0..image.height-1,
                 Passed(a, b)', PixelColor(<<a, b>>) # 0
          PROVE  \E k \in 0..num'-1 : Holds(k, a, b)'
      <4>1. CASE Passed(a, b)
        <5>1. PICK k \in 0..num-1 : Holds(k, a, b) BY <4>1, <3>1 DEF Drawn, Covered
        <5>2. runs'[k] = runs[k] BY <5>1, <2>2
        <5>3. Holds(k, a, b)' BY <5>1, <5>2 DEF Holds, End
        <5>4. k \in 0..num'-1 BY <5>1, <2>1, <1>1
        <5> QED BY <5>3, <5>4
      <4>2. CASE b = y /\ x <= a /\ a < RunEnd
        <5>1. last \in 0..num'-1 BY <2>n, <2>1, <1>1
        <5> QED BY <5>1, <4>2, <2>4
      <4> QED BY <4>1, <4>2, <3>1, <1>7
    <3> QED BY <3>1, <1>2, <1>p DEF Covered
  <2> QED BY <2>7, <2>8, <2>9 DEF Drawn
<1> QED BY <1>8, <1>9

-----------------------------------------------------------------------------
(* The trees.  Two runs are in the same tree if no set that is closed under *)
(* the links between runs and their parents tells them apart; X are the     *)
(* runs whose links do not count.                                           *)

Closed(par, X, U) == \A k \in DOMAIN par : k \in X \/ (k \in U <=> par[k] \in U)
Same(par, X, a, b) ==
    \A U \in SUBSET DOMAIN par : Closed(par, X, U) => (a \in U <=> b \in U)

Meets(a, b) == runs[a].y = runs[b].y + 1 /\ Joined(a, b)

(* r1 and r2 are up to date, and a run the scan has not adopted is a root. *)
Copied ==
    /\ pc \in {"encode", "skip"} => \A k \in 0..num-1 : parent[k] = k
    /\ pc \in {"scan", "climb"} /\ l1 < num =>
         /\ p1 = parent[l1] /\ p2 = parent[l2]
         /\ s # l1 => parent[l1] = l1
         /\ \A k \in l1+1..num-1 : parent[k] = k

(* Runs that meet are in the same tree once the scan has passed one of them, *)
(* and compression makes the root of a tree the parent of all its runs.      *)
Met ==
    /\ pc \in {"scan", "climb"} =>
         \A a, b \in 0..num-1 :
           Meets(a, b) /\ (a < l1 \/ b < l2) => Same(parent, {}, a, b)
    /\ pc = "compress" =>
         /\ \A a, b \in 0..num-1 : Meets(a, b) => Same(parent, {}, a, b)
         /\ \A k \in 0..num-1 : k < i => parent[parent[k]] = parent[k]
    /\ pc = "extract" /\ i = 0 =>
         \A a, b \in 0..num-1 : Meets(a, b) => parent[a] = parent[b]

(* The climbs lead through the old links, and the union will cut those of l1 *)
(* and l2.  The climb from l1 may pass l2, and then goes on in its tree.     *)
Climbing ==
    pc = "climb" =>
      /\ s = l1 /\ i <= p1 /\ j <= p2
      /\ Same(parent, {l1, l2}, p2, j)
      /\ \/ Same(parent, {l1, l2}, p1, i)
         \/ i <= p2 /\ Same(parent, {l1, l2}, p1, l2) /\ Same(parent, {l1, l2}, p2, i)

TInv == Copied /\ Met /\ Climbing

LEMMA SameReflexive == \A par, X, a : Same(par, X, a, a)
BY DEF Same

LEMMA SameTransitive ==
    ASSUME NEW par, NEW X, NEW a, NEW b, NEW c, Same(par, X, a, b), Same(par, X, b, c)
    PROVE  Same(par, X, a, c)
BY DEF Same

LEMMA LinkedAreSame ==
    ASSUME NEW par, NEW X, NEW k \in DOMAIN par, k \notin X
    PROVE  Same(par, X, k, par[k])
BY DEF Same, Closed

(* More links, fewer closed sets: what was the same stays the same. *)
LEMMA SameStays ==
    ASSUME NEW old, NEW new, DOMAIN new = DOMAIN old,
           \A U \in SUBSET DOMAIN old : Closed(new, {}, U) => Closed(old, {}, U),
           NEW a, NEW b, Same(old, {}, a, b)
    PROVE  Same(new, {}, a, b)
BY DEF Same

(* Adopting a root adds a link. *)
LEMMA AdoptingLinks ==
    ASSUME NEW D, NEW old, DOMAIN old = D, NEW a \in D, NEW b \in D, a # b, old[a] = a,
           NEW U \in SUBSET D, Closed([old EXCEPT ![a] = old[b]], {}, U)
    PROVE  Closed(old, {}, U) /\ (a \in U <=> b \in U)
<1> DEFINE new == [old EXCEPT ![a] = old[b]]
<1>1. DOMAIN new = D /\ new[a] = old[b] /\ \A k \in D : k # a => new[k] = old[k]
  OBVIOUS
<1>2. \A k \in D : k \in U <=> new[k] \in U
  <2> HIDE DEF new
  <2>1. Closed(new, {}, U) BY DEF new
  <2> QED BY <2>1, <1>1 DEF Closed
<1> HIDE DEF new
<1>3. Closed(old, {}, U) BY <1>1, <1>2 DEF Closed
<1>4. a \in U <=> b \in U
  <2>1. b \in U <=> old[b] \in U BY <1>3 DEF Closed
  <2>2. a \in U <=> old[b] \in U BY <1>1, <1>2
  <2> QED BY <2>1, <2>2
<1> QED BY <1>3, <1>4

(* From the parents of a and b, climbs have come to c and d. *)
Climbed(par, a, b, c, d) ==
    /\ Same(par, {a, b}, par[b], d)
    /\ \/ Same(par, {a, b}, par[a], c)
       \/ Same(par, {a, b}, par[a], b) /\ Same(par, {a, b}, par[b], c)

(* The union cuts the links of a and b, but nothing falls apart: their old  *)
(* parents' roots are now one tree, and they are in it.                     *)
LEMMA UnionLinks ==
    ASSUME NEW D, NEW old, DOMAIN old = D, NEW a \in D, NEW b \in D, a # b,
           NEW root \in D, NEW other \in D, old[other] = other,
           NEW c, NEW d, {c, d} \subseteq {root, other}, Climbed(old, a, b, c, d),
           NEW U \in SUBSET D,
           Closed([old EXCEPT ![other] = root, ![a] = root, ![b] = root], {}, U)
    PROVE  Closed(old, {}, U) /\ (a \in U <=> b \in U)
<1> DEFINE new == [old EXCEPT ![other] = root, ![a] = root, ![b] = root]
<1>1. /\ DOMAIN new = D /\ new[a] = root /\ new[b] = root /\ new[other] = root
      /\ \A k \in D : k # a /\ k # b /\ k # other => new[k] = old[k]
  OBVIOUS
<1>2. \A k \in D : k \in U <=> new[k] \in U
  <2> HIDE DEF new
  <2>1. Closed(new, {}, U) BY DEF new
  <2> QED BY <2>1, <1>1 DEF Closed
<1> HIDE DEF new
<1>3. Closed(old, {a, b}, U)
  <2>1. ASSUME NEW k \in D, k # a, k # b PROVE k \in U <=> old[k] \in U
    <3>1. CASE k = other BY <3>1
    <3>2. CASE k # other BY <3>2, <2>1, <1>1, <1>2
    <3> QED BY <3>1, <3>2
  <2> QED BY <2>1 DEF Closed
<1>4. (a \in U <=> root \in U) /\ (b \in U <=> root \in U) /\ (other \in U <=> root \in U)
  BY <1>1, <1>2
<1>5. (c \in U <=> root \in U) /\ (d \in U <=> root \in U)
  BY <1>4
<1>6. old[b] \in U <=> root \in U
  BY <1>3, <1>5 DEF Same, Climbed
<1>7. old[a] \in U <=> root \in U
  BY <1>3, <1>4, <1>5, <1>6 DEF Same, Climbed
<1>8. Closed(old, {}, U)
  BY <1>3, <1>4, <1>6, <1>7 DEF Closed
<1> QED BY <1>4, <1>8

(* Skipping a link where the two that follow it are there. *)
LEMMA CompressingLinks ==
    ASSUME NEW D, NEW old, DOMAIN old = D, NEW a \in D, old[a] \in D,
           NEW U \in SUBSET D, Closed([old EXCEPT ![a] = old[old[a]]], {}, U)
    PROVE  Closed(old, {}, U)
<1> DEFINE new == [old EXCEPT ![a] = old[old[a]]]
<1>1. DOMAIN new = D /\ new[a] = old[old[a]] /\ \A k \in D : k # a => new[k] = old[k]
  OBVIOUS
<1>2. \A k \in D : k \in U <=> new[k] \in U
  <2> HIDE DEF new
  <2>1. Closed(new, {}, U) BY DEF new
  <2> QED BY <2>1, <1>1 DEF Closed
<1> HIDE DEF new
<1>3. a \in U <=> old[a] \in U
  BY <1>1, <1>2
<1> QED BY <1>1, <1>2, <1>3 DEF Closed

LEMMA TInitially == Init => TInv
BY DEF Init, TInv, Copied, Met, Climbing

LEMMA EncodingKeepsTInv == IInv /\ TInv /\ EncodeRun => TInv'
<1> SUFFICES ASSUME IInv, TInv, EncodeRun PROVE TInv' OBVIOUS
<1>1. pc = "encode" /\ pc' \in {"encode", "skip"} BY DEF EncodeRun
<1>2. num \in Nat /\ \A k \in 0..num-1 : parent[k] = k
  BY <1>1 DEF IInv, Runs, TInv, Copied
<1>3. \A k \in 0..num'-1 : parent'[k] = k
  <2>1. CASE ~IsEncoded BY <2>1, <1>2 DEF EncodeRun
  <2>2. CASE IsEncoded
    <3>1. num' = num + 1 /\ parent' = WithLast(parent, num) BY <2>2 DEF EncodeRun
    <3> QED BY <3>1, <1>2 DEF WithLast
  <2> QED BY <2>1, <2>2
<1> QED BY <1>1, <1>3 DEF TInv, Copied, Met, Climbing

LEMMA SkippingKeepsTInv == IInv /\ TInv /\ SkipFirstLine => TInv'
<1> SUFFICES ASSUME IInv, TInv, SkipFirstLine PROVE TInv' OBVIOUS
<1>1. /\ pc = "skip" /\ pc' = "scan" /\ UNCHANGED <<num, runs, parent>>
      /\ l2' = 0 /\ p1' = parent[l1'] /\ p2' = parent[0] /\ s' = l1'
  BY DEF SkipFirstLine
<1>2. num \in Nat /\ num >= 2 /\ \A k \in 0..num-1 : parent[k] = k
  BY <1>1 DEF IInv, Runs, SecondRow, TInv, Copied
<1> DEFINE S == {k \in 1..num-1 : runs[k].y # 0}
<1>3. num - 1 \in S /\ S \subseteq Nat
  BY <1>1, <1>2 DEF IInv, SecondRow, Runs
<1>4. l1' = Min(S) BY DEF SkipFirstLine
<1>5. PICK m \in S : l1' = m /\ \A n \in S : m <= n
  <2> HIDE DEF S
  <2> QED BY <1>3, <1>4, MinIsLeast
<1>6. Copied'
  BY <1>1, <1>2, <1>5 DEF Copied
(* No run before m has one above it, and none is before run 0. *)
<1>7. ASSUME NEW a \in 0..num-1, NEW b \in 0..num-1, Meets(a, b), a < m \/ b < 0
      PROVE  FALSE
  <2>1. runs[a].y = 0
    <3>1. CASE a = 0 BY <3>1, <1>2 DEF IInv, RowsInOrder
    <3>2. CASE a # 0
      <4>1. a \in 1..num-1 /\ a < m BY <3>2, <1>5, <1>7, <1>2
      <4>2. a \notin S BY <4>1, <1>5
      <4> QED BY <4>1, <4>2
    <3> QED BY <3>1, <3>2
  <2>2. runs[b].y \in Nat /\ runs[a].y = runs[b].y + 1
    BY <1>7 DEF IInv, Runs, Meets
  <2> QED BY <2>1, <2>2
<1>8. Met'
  BY <1>1, <1>5, <1>7 DEF Met, Meets, Joined, Overlap, End
<1> QED BY <1>1, <1>6, <1>8 DEF TInv, Climbing

(* Two runs do not meet if one ends before the other begins. *)
LEMMA ApartDoNotMeet ==
    ASSUME IInv, Drawn, NEW a \in 0..num-1, NEW b \in 0..num-1,
           End(a) <= runs[b].x \/ End(b) <= runs[a].x
    PROVE  ~Meets(a, b)
<1>1. /\ runs[a].x \in Nat /\ runs[b].x \in Nat /\ End(a) \in Nat /\ End(b) \in Nat
      /\ runs[a].x < End(a) /\ runs[b].x < End(b)
  <2>1. ASSUME NEW k \in 0..num-1
        PROVE  runs[k].x \in Nat /\ End(k) \in Nat /\ runs[k].x < End(k)
    <3>1. runs[k].x \in Nat /\ runs[k].width \in Nat BY DEF IInv, Runs
    <3>2. runs[k].x < End(k) BY DEF Drawn, DrawnRun
    <3> QED BY <3>1, <3>2 DEF End
  <2> QED BY <2>1
<1> QED BY <1>1 DEF Meets, Joined, Overlap

(* Wherever the scan goes, what it passes by does not meet. *)
LEMMA AdvanceKeepsTInv ==
    ASSUME IInv, Drawn, TInv, pc \in {"scan", "climb"}, l1 < num, pc' = "scan",
           UNCHANGED <<num, runs>>,
           NEW q1, NEW q2, Advance(q1, q2), q1 = parent'[l1], q2 = parent'[l2],
           \A k \in l1+1..num-1 : parent'[k] = k,
           s' # l1 => parent'[l1] = l1,
           \A a, b \in 0..num-1 : Same(parent, {}, a, b) => Same(parent', {}, a, b),
           Meets(l1, l2) => Same(parent', {}, l1, l2)
    PROVE  TInv'
<1>1. /\ num \in Nat /\ l1 \in 0..num-1 /\ l2 \in 0..num-1 /\ l2 + 1 \in 0..num-1
  BY ScanPlaces
<1>2. /\ runs[l1].y = runs[l2].y + 1
      /\ \A k \in 0..num-1 : runs[k].x \in Nat /\ runs[k].y \in Nat /\ End(k) \in Nat
  BY DEF IInv, LockStep, Runs, End
<1>3. /\ l1' = l1 \/ (l1' = l1 + 1 /\ End(l2) >= End(l1))
      /\ l2' = l2 \/ (l2' = l2 + 1 /\ End(l2) <= End(l1))
  BY DEF Advance
<1>4. ASSUME NEW a \in 0..num-1, NEW b \in 0..num-1, Meets(a, b), a < l1' \/ b < l2'
      PROVE  Same(parent', {}, a, b)
  <2>0. runs[a].y = runs[b].y + 1 BY <1>4 DEF Meets
  <2>1. CASE a < l1 \/ b < l2
    <3>1. Same(parent, {}, a, b) BY <2>1, <1>4 DEF TInv, Met
    <3> QED BY <3>1
  <2>2. CASE a = l1 /\ b = l2 BY <2>2, <1>4
  <2>3. CASE a = l1 /\ l2 < b /\ End(l2) >= End(l1)
    <3>1. runs[b].y = runs[l2].y BY <2>0, <2>3, <1>1, <1>2
    <3>2. End(l2) <= runs[b].x BY <3>1, <2>3, <1>1 DEF Drawn, Apart
    <3>3. End(a) <= runs[b].x BY <3>2, <2>3, <1>1, <1>2
    <3> QED BY <3>3, <1>4, ApartDoNotMeet
  <2>4. CASE b = l2 /\ l1 < a /\ End(l2) <= End(l1)
    <3>1. runs[a].y = runs[l1].y BY <2>0, <2>4, <1>1, <1>2
    <3>2. End(l1) <= runs[a].x BY <3>1, <2>4, <1>1 DEF Drawn, Apart
    <3>3. End(b) <= runs[a].x BY <3>2, <2>4, <1>1, <1>2
    <3> QED BY <3>3, <1>4, ApartDoNotMeet
  <2> QED BY <2>1, <2>2, <2>3, <2>4, <1>1, <1>3, <1>4
<1>5. Met'
  BY <1>4 DEF Met, Meets, Joined, Overlap, End
<1>6. Copied'
  <2>1. CASE l1' = l1
    <3>1. p1' = q1 BY <2>1, <1>1 DEF Advance
    <3>2. p2' = parent'[l2'] BY DEF Advance
    <3> QED BY <2>1, <3>1, <3>2, <1>1 DEF Copied
  <2>2. CASE l1' = l1 + 1
    <3>1. l1' < num => p1' = parent'[l1'] BY <2>2, <1>1 DEF Advance
    <3>2. p2' = parent'[l2'] BY DEF Advance
    <3>3. \A k \in l1'..num-1 : parent'[k] = k BY <2>2, <1>1
    <3>4. l1' < num => l1' \in l1'..num-1 BY <2>2, <1>1
    <3>5. \A k \in l1'+1..num-1 : parent'[k] = k BY <2>2, <3>3, <1>1
    <3> QED BY <3>1, <3>2, <3>3, <3>4, <3>5 DEF Copied
  <2> QED BY <2>1, <2>2, <1>3
<1> QED BY <1>5, <1>6 DEF TInv, Climbing

LEMMA PassingKeepsTInv ==
    ASSUME IInv, Drawn, TInv, PassOn
    PROVE  TInv'
<1>1. /\ pc = "scan" /\ pc' = "scan" /\ l1 < num
      /\ UNCHANGED <<num, runs, parent, s>>
      /\ ~Joined(l1, l2) \/ (s = l1 /\ p1 = p2)
  BY DEF PassOn, Scanning
<1>0. Advance(p1, p2) BY DEF PassOn
<1>2. /\ p1 = parent[l1] /\ p2 = parent[l2] /\ (s # l1 => parent[l1] = l1)
      /\ \A k \in l1+1..num-1 : parent[k] = k
  BY <1>1 DEF TInv, Copied
<1>3. Meets(l1, l2) => Same(parent, {}, l1, l2)
  <2> SUFFICES ASSUME Meets(l1, l2) PROVE Same(parent, {}, l1, l2) OBVIOUS
  <2>1. parent[l1] = parent[l2] BY <1>1, <1>2 DEF Meets
  <2>2. l1 \in DOMAIN parent /\ l2 \in DOMAIN parent
    BY <1>1, ScanPlaces DEF IInv, Forest
  <2> QED BY <2>1, <2>2 DEF Same, Closed
<1> QED BY <1>0, <1>1, <1>2, <1>3, AdvanceKeepsTInv

LEMMA AdoptingKeepsTInv ==
    ASSUME IInv, Drawn, TInv, Adopt
    PROVE  TInv'
<1>1. /\ pc = "scan" /\ pc' = "scan" /\ l1 < num /\ UNCHANGED <<num, runs>>
      /\ s # l1 /\ s' = l1
      /\ parent' = [parent EXCEPT ![l1] = p2] /\ Advance(p2, p2)
  BY DEF Adopt, Scanning
<1>2. /\ p2 = parent[l2] /\ parent[l1] = l1
      /\ \A k \in l1+1..num-1 : parent[k] = k
  BY <1>1 DEF TInv, Copied
<1>3. /\ num \in Nat /\ l1 \in 0..num-1 /\ l2 \in 0..num-1 /\ l2 < l1
      /\ DOMAIN parent = 0..num-1
  BY <1>1, ScanPlaces DEF IInv, LockStep, Forest
<1>4. parent' = [parent EXCEPT ![l1] = parent[l2]] BY <1>1, <1>2
<1>5. DOMAIN parent' = DOMAIN parent BY <1>4
<1>6. \A U \in SUBSET DOMAIN parent : Closed(parent', {}, U) =>
        Closed(parent, {}, U) /\ (l1 \in U <=> l2 \in U)
  <2> SUFFICES ASSUME NEW U \in SUBSET DOMAIN parent, Closed(parent', {}, U)
               PROVE  Closed(parent, {}, U) /\ (l1 \in U <=> l2 \in U)
    OBVIOUS
  <2>1. Closed([parent EXCEPT ![l1] = parent[l2]], {}, U) BY <1>4
  <2>2. l1 \in DOMAIN parent /\ l2 \in DOMAIN parent /\ l1 # l2 BY <1>3
  <2> QED BY <2>1, <2>2, <1>2, AdoptingLinks, ZenonT(40)
<1>7. \A a, b \in 0..num-1 : Same(parent, {}, a, b) => Same(parent', {}, a, b)
  BY <1>5, <1>6, SameStays
<1>8. Same(parent', {}, l1, l2) BY <1>5, <1>6 DEF Same
<1>9. p2 = parent'[l1] /\ p2 = parent'[l2] BY <1>1, <1>2, <1>3
<1>10. \A k \in l1+1..num-1 : parent'[k] = k BY <1>1, <1>2, <1>3
<1> QED BY <1>1, <1>7, <1>8, <1>9, <1>10, AdvanceKeepsTInv

LEMMA UnitingKeepsTInv ==
    ASSUME IInv, Drawn, TInv, UniteRoots
    PROVE  TInv'
<1> DEFINE root == Smaller(i, j)
           other == Larger(i, j)
<1>1. /\ pc = "climb" /\ pc' = "scan" /\ UNCHANGED <<num, runs, s>>
      /\ parent[i] = i /\ parent[j] = j
      /\ parent' = [parent EXCEPT ![other] = root, ![l1] = root, ![l2] = root]
      /\ Advance(root, root)
  BY DEF UniteRoots, Union, IsRoot
<1>2. l1 < num BY <1>1 DEF IInv, LockStep
<1>3. /\ num \in Nat /\ l1 \in 0..num-1 /\ l2 \in 0..num-1 /\ l2 < l1
      /\ i \in 0..num-1 /\ j \in 0..num-1 /\ i <= l1 /\ j <= l2
      /\ DOMAIN parent = 0..num-1
  BY <1>1, <1>2, ScanPlaces DEF IInv, LockStep, Forest
<1>4. /\ root \in 0..num-1 /\ other \in 0..num-1 /\ other <= l1
      /\ {i, j} \subseteq {root, other} /\ parent[other] = other
      /\ root <= other
  BY <1>1, <1>3 DEF Smaller, Larger
<1> HIDE DEF root, other
<1>5. /\ p1 = parent[l1] /\ p2 = parent[l2] /\ (s # l1 => parent[l1] = l1)
      /\ \A k \in l1+1..num-1 : parent[k] = k
  BY <1>1, <1>2 DEF TInv, Copied
<1>6. /\ Same(parent, {l1, l2}, p2, j)
      /\ \/ Same(parent, {l1, l2}, p1, i)
         \/ Same(parent, {l1, l2}, p1, l2) /\ Same(parent, {l1, l2}, p2, i)
  BY <1>1 DEF TInv, Climbing
<1>7. DOMAIN parent' = DOMAIN parent BY <1>1
<1>8. \A U \in SUBSET DOMAIN parent : Closed(parent', {}, U) =>
        Closed(parent, {}, U) /\ (l1 \in U <=> l2 \in U)
  <2>1. l1 # l2 BY <1>3
  <2>2. Climbed(parent, l1, l2, i, j) BY <1>5, <1>6 DEF Climbed
  <2> SUFFICES ASSUME NEW U \in SUBSET DOMAIN parent, Closed(parent', {}, U)
               PROVE  Closed(parent, {}, U) /\ (l1 \in U <=> l2 \in U)
    OBVIOUS
  <2>4. Closed([parent EXCEPT ![other] = root, ![l1] = root, ![l2] = root], {}, U)
    BY <1>1
  <2>5. /\ l1 \in DOMAIN parent /\ l2 \in DOMAIN parent
        /\ root \in DOMAIN parent /\ other \in DOMAIN parent
    BY <1>3, <1>4
  <2> QED BY <2>1, <2>2, <2>4, <2>5, <1>4, UnionLinks, ZenonT(40)
<1>9. \A a, b \in 0..num-1 : Same(parent, {}, a, b) => Same(parent', {}, a, b)
  BY <1>7, <1>8, SameStays
<1>10. Same(parent', {}, l1, l2) BY <1>7, <1>8 DEF Same
<1>11. root = parent'[l1] /\ root = parent'[l2] BY <1>1, <1>3
<1>12. \A k \in l1+1..num-1 : parent'[k] = k
  BY <1>1, <1>3, <1>4, <1>5
<1>13. s' = l1
  BY <1>1 DEF TInv, Climbing
<1> QED BY <1>1, <1>2, <1>9, <1>10, <1>11, <1>12, <1>13, AdvanceKeepsTInv

LEMMA ClimbingKeepsTInv == IInv /\ TInv /\ (TwoParents \/ ClimbLeft \/ ClimbRight) => TInv'
<1> SUFFICES ASSUME IInv, TInv, TwoParents \/ ClimbLeft \/ ClimbRight PROVE TInv' OBVIOUS
<1>1. /\ pc \in {"scan", "climb"} /\ pc' = "climb" /\ l1 < num
      /\ UNCHANGED <<num, runs, parent, l1, l2, p1, p2, s>>
  BY DEF IInv, LockStep, TwoParents, Scanning, ClimbLeft, ClimbRight, connectVars
<1>2. Copied' /\ Met'
  BY <1>1 DEF TInv, Copied, Met, Meets, Joined, Overlap, End
<1>3. /\ num \in Nat /\ l1 \in 0..num-1 /\ l2 \in 0..num-1 /\ l2 < l1
      /\ p1 \in 0..num-1 /\ p2 \in 0..num-1 /\ p1 <= l1 /\ p2 <= l2
      /\ p1 = parent[l1] /\ p2 = parent[l2]
      /\ DOMAIN parent = 0..num-1 /\ \A k \in 0..num-1 : parent[k] \in Nat /\ parent[k] <= k
  BY <1>1, ScanPlaces DEF IInv, LockStep, Forest, TInv, Copied
<1> DEFINE X == {l1, l2}
<1>4. CASE TwoParents
  <2>1. s = l1 /\ i' = p1 /\ j' = p2 BY <1>4 DEF TwoParents
  <2>2. Same(parent, X, p1, p1) /\ Same(parent, X, p2, p2) BY SameReflexive
  <2>3. Climbing' BY <2>1, <2>2, <1>1, <1>3 DEF Climbing
  <2> QED BY <2>3, <1>2 DEF TInv
<1>5. CASE ClimbLeft \/ ClimbRight
  <2>1. /\ s = l1 /\ i <= p1 /\ j <= p2 /\ Same(parent, X, p2, j)
        /\ \/ Same(parent, X, p1, i)
           \/ i <= p2 /\ Same(parent, X, p1, l2) /\ Same(parent, X, p2, i)
        /\ i \in 0..num-1 /\ j \in 0..num-1
    BY <1>1, <1>5, ScanPlaces DEF ClimbLeft, ClimbRight, TInv, Climbing
  <2>2. CASE ClimbLeft
    <3>1. i' = parent[i] /\ parent[i] # i /\ j' = j
      BY <2>2 DEF ClimbLeft, IsRoot, connectVars
    <3>2. i' \in Nat /\ i' < i BY <3>1, <2>1, <1>3
    <3>3. i # l1 BY <3>1, <3>2, <2>1, <1>3
    <3>4. CASE i # l2
      <4>1. Same(parent, X, i, i') BY <3>1, <3>3, <3>4, <2>1, <1>3, LinkedAreSame
      <4>2. \/ Same(parent, X, p1, i')
            \/ i' <= p2 /\ Same(parent, X, p1, l2) /\ Same(parent, X, p2, i')
        <5>1. CASE Same(parent, X, p1, i) BY <5>1, <4>1, SameTransitive
        <5>2. CASE i <= p2 /\ Same(parent, X, p1, l2) /\ Same(parent, X, p2, i)
          <6>1. Same(parent, X, p2, i') BY <5>2, <4>1, SameTransitive
          <6>2. i' <= p2 BY <5>2, <3>2, <2>1, <1>3
          <6> QED BY <5>2, <6>1, <6>2
        <5> QED BY <5>1, <5>2, <2>1
      <4>3. i' <= p1 BY <3>2, <2>1, <1>3
      <4> QED BY <4>2, <4>3, <3>1, <2>1, <1>1, <1>2 DEF TInv, Climbing
    <3>5. CASE i = l2
      <4>1. i' = p2 BY <3>1, <3>5, <1>3
      <4>2. ~(i <= p2) BY <4>1, <3>2, <1>3, <2>1
      <4>3. Same(parent, X, p1, l2) BY <4>2, <3>5, <2>1
      <4>4. Same(parent, X, p2, i') /\ i' <= p2 BY <4>1, <1>3, SameReflexive
      <4>5. i' <= p1 BY <3>2, <2>1, <1>3
      <4> QED BY <4>3, <4>4, <4>5, <3>1, <2>1, <1>1, <1>2 DEF TInv, Climbing
    <3> QED BY <3>4, <3>5
  <2>3. CASE ClimbRight
    <3>1. j' = parent[j] /\ parent[j] # j /\ i' = i
      BY <2>3 DEF ClimbRight, IsRoot
    <3>2. j' \in Nat /\ j' < j BY <3>1, <2>1, <1>3
    <3>3. j # l1 /\ j # l2 BY <3>1, <3>2, <2>1, <1>3
    <3>4. Same(parent, X, j, j') BY <3>1, <3>3, <2>1, <1>3, LinkedAreSame
    <3>5. Same(parent, X, p2, j') BY <3>4, <2>1, SameTransitive
    <3>6. j' <= p2 BY <3>2, <2>1, <1>3
    <3> QED BY <3>1, <3>5, <3>6, <2>1, <1>1, <1>2 DEF TInv, Climbing
  <2> QED BY <1>5, <2>2, <2>3
<1> QED BY <1>4, <1>5

(* After compression, the runs of a tree are those with one parent. *)
LEMMA SameParent ==
    ASSUME NEW D, NEW par \in [D -> D], \A k \in D : par[par[k]] = par[k],
           NEW a \in D, NEW b \in D, Same(par, {}, a, b)
    PROVE  par[a] = par[b]
<1> DEFINE U == {k \in D : par[k] = par[a]}
<1>1. U \in SUBSET DOMAIN par OBVIOUS
<1>2. Closed(par, {}, U) BY DEF Closed
<1>3. a \in U OBVIOUS
<1> HIDE DEF U
<1>4. b \in U BY <1>1, <1>2, <1>3 DEF Same
<1> QED BY <1>4 DEF U

LEMMA CompressingKeepsTInv == IInv /\ TInv /\ (EndScan \/ Compress \/ EndCompress) => TInv'
<1> SUFFICES ASSUME IInv, TInv, EndScan \/ Compress \/ EndCompress PROVE TInv' OBVIOUS
<1>1. /\ pc' \in {"compress", "extract"} /\ UNCHANGED <<num, runs>>
      /\ num \in Nat /\ parent \in [0..num-1 -> Nat]
      /\ \A k \in 0..num-1 : parent[k] \in 0..num-1 /\ parent[k] <= k
  BY DEF IInv, Runs, Forest, EndScan, Compress, EndCompress, readVars
<1>2. Copied' /\ Climbing' BY <1>1 DEF Copied, Climbing
<1>3. \A a, b : Meets(a, b)' <=> Meets(a, b) BY <1>1 DEF Meets, Joined, Overlap, End
<1>4. CASE EndScan
  <2>1. pc = "scan" /\ pc' = "compress" /\ l1 >= num /\ i' = 0 /\ parent' = parent
    BY <1>4 DEF EndScan
  <2>2. \A a \in 0..num-1 : a < l1
    BY <2>1, <1>1 DEF IInv, LockStep
  <2>3. \A a, b \in 0..num-1 : Meets(a, b) => Same(parent, {}, a, b)
    BY <2>1, <2>2 DEF TInv, Met
  <2>4. \A k \in 0..num-1 : ~(k < 0) OBVIOUS
  <2>5. Met' BY <2>1, <2>3, <2>4, <1>1, <1>3 DEF Met
  <2> QED BY <2>5, <1>2 DEF TInv
<1>5. CASE Compress
  <2>1. /\ pc = "compress" /\ pc' = "compress" /\ i \in 0..num-1 /\ i' = i + 1
        /\ parent' = [parent EXCEPT ![i] = parent[parent[i]]]
    BY <1>5, <1>1 DEF IInv, Counting, Compress
  <2>2. /\ \A a, b \in 0..num-1 : Meets(a, b) => Same(parent, {}, a, b)
        /\ \A k \in 0..num-1 : k < i => parent[parent[k]] = parent[k]
    BY <2>1 DEF TInv, Met
  <2>3. DOMAIN parent' = DOMAIN parent /\ DOMAIN parent = 0..num-1 BY <2>1, <1>1
  <2>4. ASSUME NEW U \in SUBSET DOMAIN parent, Closed(parent', {}, U)
        PROVE  Closed(parent, {}, U)
    <3>1. Closed([parent EXCEPT ![i] = parent[parent[i]]], {}, U) BY <2>1, <2>4
    <3>2. i \in DOMAIN parent /\ parent[i] \in DOMAIN parent BY <2>1, <2>3, <1>1
    <3> QED BY <3>1, <3>2, CompressingLinks
  <2>5. \A a, b \in 0..num-1 : Meets(a, b) => Same(parent', {}, a, b)
    BY <2>2, <2>3, <2>4, SameStays
  <2>6. ASSUME NEW k \in 0..num-1, k < i' PROVE parent'[parent'[k]] = parent'[k]
    <3>1. \A m \in 0..num-1 : m # i => parent'[m] = parent[m] BY <2>1, <1>1
    <3>2. parent'[i] = parent[parent[i]] BY <2>1, <1>1
    <3>3. CASE k < i
      <4>1. parent[k] \in 0..num-1 /\ parent[k] # i BY <3>3, <2>1, <1>1
      <4>2. parent'[k] = parent[k] BY <3>1, <3>3, <2>1
      <4>3. parent'[parent[k]] = parent[parent[k]] BY <3>1, <4>1
      <4> QED BY <4>2, <4>3, <3>3, <2>2
    <3>4. CASE k = i
      <4>1. CASE parent[i] = i BY <4>1, <3>2, <3>4
      <4>2. CASE parent[i] # i
        <5>1. parent[i] \in 0..num-1 /\ parent[i] < i BY <4>2, <2>1, <1>1
        <5>2. parent[parent[i]] = parent[parent[parent[i]]] BY <5>1, <2>2
        <5>3. parent[parent[i]] \in 0..num-1 /\ parent[parent[i]] # i
          BY <5>1, <1>1, <2>1
        <5>4. parent'[parent[parent[i]]] = parent[parent[parent[i]]]
          BY <5>3, <3>1
        <5> QED BY <5>2, <5>4, <3>2, <3>4
      <4> QED BY <4>1, <4>2
    <3> QED BY <3>3, <3>4, <2>1, <2>6, <1>1
  <2>7. Met' BY <2>1, <2>5, <2>6, <1>1, <1>3 DEF Met
  <2> QED BY <2>7, <1>2 DEF TInv
<1>6. CASE EndCompress
  <2>1. pc = "compress" /\ pc' = "extract" /\ i = num /\ parent' = parent
    BY <1>6 DEF EndCompress
  <2>2. /\ \A a, b \in 0..num-1 : Meets(a, b) => Same(parent, {}, a, b)
        /\ \A k \in 0..num-1 : parent[parent[k]] = parent[k]
    BY <2>1, <1>1 DEF TInv, Met
  <2>3. parent \in [0..num-1 -> 0..num-1] BY <1>1
  <2>4. \A a, b \in 0..num-1 : Meets(a, b) => parent[a] = parent[b]
    BY <2>2, <2>3, SameParent
  <2>5. Met' BY <2>1, <2>4, <1>1, <1>3 DEF Met
  <2> QED BY <2>5, <1>2 DEF TInv
<1> QED BY <1>4, <1>5, <1>6

LEMMA LaterStepsKeepTInv ==
    ASSUME IInv, TInv, ExtractStep \/ separateRegions \/ sortRegions \/ UNCHANGED vars
    PROVE  TInv'
<1>1. CASE ExtractStep
  <2>1. pc = "extract" /\ i \in Nat
    BY <1>1 DEF IInv, Counting, Runs, ExtractStep, SkipClear, StartRegion, ExtendRegion,
                FinishRegions, Extracting
  <2>2. pc' \in {"extract", "separate"} /\ (pc' = "extract" => i' = i + 1)
    BY <1>1, <2>1 DEF ExtractStep, SkipClear, StartRegion, ExtendRegion, FinishRegions,
                      Extracting
  <2>3. ~(pc' = "extract" /\ i' = 0) BY <2>1, <2>2
  <2> QED BY <2>2, <2>3 DEF TInv, Copied, Met, Climbing
<1>2. CASE separateRegions \/ sortRegions
  BY <1>2 DEF separateRegions, sortRegions, TInv, Copied, Met, Climbing
<1>3. CASE UNCHANGED vars
  BY <1>3 DEF vars, connectVars, TInv, Copied, Met, Climbing, Meets, Joined, Overlap, End
<1> QED BY <1>1, <1>2, <1>3

-----------------------------------------------------------------------------
(* The pixels.  Two pixels are connected if no set that holds every pixel   *)
(* near one it holds tells them apart; the runs of a tree are connected.    *)

NearClosed(T) == \A q \in T : Near(q) \subseteq T
Connected(q, r) == \A T \in SUBSET Pixels : NearClosed(T) => (q \in T <=> r \in T)

FirstOf(k) == <<runs[k].x, runs[k].y>>
Linked(a, b) == Connected(FirstOf(a), FirstOf(b))

ParentsLinked ==
    /\ pc \in Connecting \/ (pc = "extract" /\ i = 0) =>
         \A k \in 0..num-1 : Linked(k, parent[k])
    /\ pc = "climb" => Meets(l1, l2) /\ Linked(l1, i) /\ Linked(l2, j)

LEMMA ConnectedIsEquivalence ==
    /\ \A q : Connected(q, q)
    /\ \A q, r : Connected(q, r) => Connected(r, q)
    /\ \A q, r, t : Connected(q, r) /\ Connected(r, t) => Connected(q, t)
BY DEF Connected

LEMMA LinkedIsEquivalence ==
    /\ \A a : Linked(a, a)
    /\ \A a, b : Linked(a, b) => Linked(b, a)
    /\ \A a, b, c : Linked(a, b) /\ Linked(b, c) => Linked(a, c)
BY ConnectedIsEquivalence DEF Linked

LEMMA LinksStay ==
    ASSUME UNCHANGED <<image, runs>>
    PROVE  \A a, b : Linked(a, b)' <=> Linked(a, b)
<1>1. \A a : FirstOf(a)' = FirstOf(a) BY DEF FirstOf
<1>2. Pixels' = Pixels BY DEF Pixels
<1>3. \A q : Near(q)' = Near(q) BY DEF Near, Pixels, PixelColor
<1>4. \A q, r : Connected(q, r)' <=> Connected(q, r)
  BY <1>2, <1>3 DEF Connected, NearClosed
<1> QED BY <1>1, <1>4 DEF Linked

(* Beside or above each other. *)
Adjoining(a, b, c, d) ==
    \/ a = c /\ b = d
    \/ b = d /\ (a = c + 1 \/ c = a + 1)
    \/ a = c /\ (b = d + 1 \/ d = b + 1)

LEMMA NearAdjoins ==
    ASSUME Sizes, NEW a \in 0..image.width-1, NEW b \in 0..image.height-1,
           NEW c \in 0..image.width-1, NEW d \in 0..image.height-1
    PROVE  <<c, d>> \in Near(<<a, b>>)
             <=> Adjoining(a, b, c, d) /\ PixelColor(<<c, d>>) = PixelColor(<<a, b>>)
<1>1. a \in Int /\ b \in Int /\ c \in Int /\ d \in Int BY DEF Sizes
<1>2. <<c, d>> \in Pixels BY DEF Pixels
<1>3. <<c, d>> \in Near(<<a, b>>) <=>
        /\ <<c, d>> \in {<<a, b>>, <<a-1, b>>, <<a+1, b>>, <<a, b-1>>, <<a, b+1>>}
        /\ PixelColor(<<c, d>>) = PixelColor(<<a, b>>)
  BY <1>2 DEF Near
<1>4. <<c, d>> \in {<<a, b>>, <<a-1, b>>, <<a+1, b>>, <<a, b-1>>, <<a, b+1>>}
        <=> Adjoining(a, b, c, d)
  <2>1. Adjoining(a, b, c, d) <=>
          \/ (c = a /\ d = b)  \/ (c = a-1 /\ d = b)  \/ (c = a+1 /\ d = b)
          \/ (c = a /\ d = b-1)  \/ (c = a /\ d = b+1)
    BY <1>1 DEF Adjoining
  <2> QED BY <2>1
<1> QED BY <1>3, <1>4

LEMMA AdjoiningAreConnected ==
    ASSUME Sizes, NEW a \in 0..image.width-1, NEW b \in 0..image.height-1,
           NEW c \in 0..image.width-1, NEW d \in 0..image.height-1,
           Adjoining(a, b, c, d), PixelColor(<<c, d>>) = PixelColor(<<a, b>>)
    PROVE  Connected(<<a, b>>, <<c, d>>)
<1>1. Adjoining(c, d, a, b) BY DEF Adjoining
<1>2. <<c, d>> \in Near(<<a, b>>) /\ <<a, b>> \in Near(<<c, d>>)
  BY <1>1, NearAdjoins
<1> QED BY <1>2 DEF Connected, NearClosed

(* The pixels of a run, of one colour, are all connected to the first. *)
LEMMA RunIsConnected ==
    ASSUME IInv, Drawn, NEW k \in 0..num-1, NEW a \in Nat, Holds(k, a, runs[k].y)
    PROVE  /\ a \in 0..image.width-1 /\ runs[k].y \in 0..image.height-1
           /\ PixelColor(<<a, runs[k].y>>) = runs[k].color
           /\ Connected(FirstOf(k), <<a, runs[k].y>>)
<1> DEFINE from == runs[k].x
           row == runs[k].y
           S == {n \in Nat : from + n < End(k) => Connected(FirstOf(k), <<from + n, row>>)}
<1>1. /\ from \in Nat /\ row \in Nat /\ End(k) \in Nat /\ End(k) <= image.width
      /\ image.width \in Nat /\ image.height \in Nat /\ Sizes
  BY DEF IInv, Runs, Sizes, End
<1>2. /\ from < End(k) /\ row < image.height
      /\ \A c \in Nat : Holds(k, c, row) => PixelColor(<<c, row>>) = runs[k].color
  BY DEF Drawn, DrawnRun
<1>3. \A c \in Nat : from <= c /\ c < End(k) =>
        c \in 0..image.width-1 /\ PixelColor(<<c, row>>) = runs[k].color
  BY <1>1, <1>2 DEF Holds
<1>4. row \in 0..image.height-1 BY <1>1, <1>2
<1>5. 0 \in S
  <2>1. from + 0 = from BY <1>1
  <2>2. Connected(FirstOf(k), <<from, row>>) BY ConnectedIsEquivalence DEF FirstOf
  <2> QED BY <2>1, <2>2
<1>6. ASSUME NEW n \in S PROVE n + 1 \in S
  <2> SUFFICES ASSUME from + (n + 1) < End(k)
               PROVE  Connected(FirstOf(k), <<from + (n + 1), row>>)
    OBVIOUS
  <2>1. PICK c \in Nat, d \in Nat : c = from + n /\ d = from + (n + 1) BY <1>1
  <2>2. c < End(k) /\ d < End(k) /\ from <= c /\ from <= d /\ d = c + 1
    BY <2>1, <1>1
  <2>3. Connected(FirstOf(k), <<c, row>>) BY <2>1, <2>2
  <2> HIDE DEF from, row, S
  <2>4. /\ c \in 0..image.width-1 /\ d \in 0..image.width-1
        /\ PixelColor(<<c, row>>) = PixelColor(<<d, row>>)
    BY <2>2, <1>3
  <2>5. Adjoining(c, row, d, row) BY <2>2 DEF Adjoining
  <2>6. Connected(<<c, row>>, <<d, row>>)
    BY <2>4, <2>5, <1>1, <1>4, AdjoiningAreConnected
  <2> QED BY <2>1, <2>3, <2>6, ConnectedIsEquivalence
<1> HIDE DEF S
<1>7. \A n \in Nat : n \in S
  <2>1. S \in SUBSET Nat BY DEF S
  <2> QED BY <1>5, <1>6, <2>1, EveryNumber
<1>8. from <= a /\ a < End(k) BY DEF Holds
<1>9. PICK n \in Nat : a = from + n
  <2>1. a - from \in Nat /\ a = from + (a - from) BY <1>1, <1>8
  <2> QED BY <2>1
<1>10. Connected(FirstOf(k), <<a, row>>) BY <1>7, <1>8, <1>9 DEF S
<1> QED BY <1>3, <1>4, <1>8, <1>10

LEMMA MeetingAreLinked ==
    ASSUME IInv, Drawn, NEW k \in 0..num-1, NEW m \in 0..num-1, Meets(k, m)
    PROVE  Linked(k, m)
<1>1. /\ runs[k].x \in Nat /\ runs[m].x \in Nat /\ runs[k].y \in Nat /\ runs[m].y \in Nat
      /\ End(k) \in Nat /\ End(m) \in Nat /\ Sizes
  BY DEF IInv, Runs, End
<1>2. /\ runs[k].y = runs[m].y + 1 /\ runs[k].color = runs[m].color /\ Overlap(k, m)
      /\ runs[k].x < End(k) /\ runs[m].x < End(m)
  BY DEF Meets, Joined, Drawn, DrawnRun
<1>3. PICK c \in Nat : /\ runs[k].x <= c /\ c < End(k)
                       /\ runs[m].x <= c /\ c < End(m)
  <2>1. CASE runs[m].x <= runs[k].x /\ runs[k].x < End(m) BY <2>1, <1>1, <1>2
  <2>2. CASE runs[k].x <= runs[m].x /\ runs[m].x < End(k) BY <2>2, <1>1, <1>2
  <2> QED BY <2>1, <2>2, <1>2 DEF Overlap
<1>4. Holds(k, c, runs[k].y) /\ Holds(m, c, runs[m].y) BY <1>3 DEF Holds
<1>5. /\ c \in 0..image.width-1 /\ runs[k].y \in 0..image.height-1
      /\ PixelColor(<<c, runs[k].y>>) = runs[k].color
      /\ Connected(FirstOf(k), <<c, runs[k].y>>)
  BY <1>4, RunIsConnected
<1>6. /\ runs[m].y \in 0..image.height-1
      /\ PixelColor(<<c, runs[m].y>>) = runs[m].color
      /\ Connected(FirstOf(m), <<c, runs[m].y>>)
  BY <1>4, RunIsConnected
<1>7. Adjoining(c, runs[k].y, c, runs[m].y) BY <1>2 DEF Adjoining
<1>8. Connected(<<c, runs[k].y>>, <<c, runs[m].y>>)
  BY <1>1, <1>2, <1>5, <1>6, <1>7, AdjoiningAreConnected
<1> QED BY <1>5, <1>6, <1>8, ConnectedIsEquivalence DEF Linked

LEMMA LinksInitially == Init => ParentsLinked
BY DEF Init, ParentsLinked

LEMMA RootsAreLinked ==
    ASSUME pc' \in {"encode", "skip"}, Copied'
    PROVE  ParentsLinked'
<1>1. \A a : Linked(a, a)'
  <2>1. \A q : Connected(q, q)' BY DEF Connected
  <2> QED BY <2>1 DEF Linked
<1>2. \A k \in 0..num'-1 : Linked(k, parent[k])'
  <2>1. \A k \in 0..num'-1 : parent'[k] = k BY DEF Copied
  <2> QED BY <1>1, <2>1 DEF Linked, FirstOf
<1> QED BY <1>2 DEF ParentsLinked

LEMMA ConnectingKeepsLinks ==
    ASSUME IInv, Drawn, TInv, ParentsLinked, ConnectStep
    PROVE  ParentsLinked'
<1>1. UNCHANGED <<image, num, runs>> /\ num \in Nat
  BY DEF ConnectStep, SkipFirstLine, PassOn, Adopt, TwoParents, ClimbLeft, ClimbRight,
         UniteRoots, EndScan, Compress, EndCompress, readVars, connectVars, IInv, Runs
<1>2. \A a, b : Linked(a, b)' <=> Linked(a, b) BY <1>1, LinksStay
<1>p. pc \in {"skip", "scan", "climb", "compress"}
  BY DEF ConnectStep, SkipFirstLine, PassOn, Adopt, TwoParents, ClimbLeft, ClimbRight,
         UniteRoots, EndScan, Compress, EndCompress, Scanning
<1>3. \A k \in 0..num-1 : Linked(k, parent[k])
  BY <1>p DEF ParentsLinked, Connecting
<1>m. \A a, b : Meets(a, b)' <=> Meets(a, b) BY <1>1 DEF Meets, Joined, Overlap, End
<1>4. CASE SkipFirstLine \/ PassOn \/ EndScan \/ EndCompress
  <2>1. parent' = parent /\ pc' # "climb"
    BY <1>4 DEF SkipFirstLine, PassOn, EndScan, EndCompress, Scanning
  <2> QED BY <2>1, <1>1, <1>2, <1>3 DEF ParentsLinked
<1>5. CASE Adopt
  <2>1. /\ pc = "scan" /\ pc' = "scan" /\ l1 < num /\ Joined(l1, l2)
        /\ parent' = [parent EXCEPT ![l1] = p2]
    BY <1>5 DEF Adopt, Scanning
  <2>2. /\ l1 \in 0..num-1 /\ l2 \in 0..num-1 /\ runs[l1].y = runs[l2].y + 1
        /\ p2 = parent[l2]
    BY <2>1, ScanPlaces DEF IInv, LockStep, TInv, Copied
  <2>3. Linked(l1, l2) BY <2>1, <2>2, MeetingAreLinked DEF Meets
  <2>4. Linked(l1, p2) BY <2>2, <2>3, <1>3, LinkedIsEquivalence
  <2>5. ASSUME NEW k \in 0..num-1 PROVE Linked(k, parent'[k])
    <3>1. CASE k = l1
      <4>1. parent'[k] = p2 BY <3>1, <2>1, <2>2 DEF IInv, Forest
      <4> QED BY <4>1, <3>1, <2>4
    <3>2. CASE k # l1
      <4>1. parent'[k] = parent[k] BY <3>2, <2>1
      <4> QED BY <4>1, <1>3
    <3> QED BY <3>1, <3>2
  <2> QED BY <2>1, <2>5, <1>1, <1>2 DEF ParentsLinked
<1>6. CASE TwoParents
  <2>1. /\ pc = "scan" /\ pc' = "climb" /\ l1 < num /\ Joined(l1, l2)
        /\ parent' = parent /\ l1' = l1 /\ l2' = l2 /\ i' = p1 /\ j' = p2
    BY <1>6 DEF TwoParents, Scanning
  <2>2. /\ l1 \in 0..num-1 /\ l2 \in 0..num-1 /\ runs[l1].y = runs[l2].y + 1
        /\ p1 = parent[l1] /\ p2 = parent[l2]
    BY <2>1, ScanPlaces DEF IInv, LockStep, TInv, Copied
  <2>3. Meets(l1, l2) BY <2>1, <2>2 DEF Meets
  <2>4. Linked(l1, i') /\ Linked(l2, j') BY <2>1, <2>2, <1>3
  <2>5. Meets(l1', l2') /\ Linked(l1', i') /\ Linked(l2', j') BY <2>1, <2>3, <2>4
  <2>6. Linked(l1, i)' /\ Linked(l2, j)' /\ Meets(l1, l2)'
    BY <2>5, <1>1 DEF Linked, FirstOf, Connected, NearClosed, Near, Pixels, PixelColor,
                      Meets, Joined, Overlap, End
  <2> QED BY <2>1, <2>6, <1>1, <1>2, <1>3 DEF ParentsLinked

<1>7. CASE ClimbLeft \/ ClimbRight
  <2>1. /\ pc = "climb" /\ pc' = "climb" /\ l1 < num
        /\ parent' = parent /\ l1' = l1 /\ l2' = l2
        /\ i' \in {i, parent[i]} /\ j' \in {j, parent[j]}
    BY <1>7 DEF ClimbLeft, ClimbRight, IInv, LockStep, connectVars
  <2>2. i \in 0..num-1 /\ j \in 0..num-1 BY <2>1, ScanPlaces
  <2>3. Meets(l1, l2) /\ Linked(l1, i) /\ Linked(l2, j) BY <2>1 DEF ParentsLinked
  <2>4. Linked(i, parent[i]) /\ Linked(j, parent[j]) BY <2>2, <1>3
  <2>5. Linked(l1, i') /\ Linked(l2, j') BY <2>1, <2>3, <2>4, LinkedIsEquivalence
  <2>6. Linked(l1, i)' /\ Linked(l2, j)' /\ Meets(l1, l2)'
    BY <2>1, <2>3, <2>5, <1>1, <1>2, <1>m
  <2> QED BY <2>1, <2>6, <1>1, <1>2, <1>3 DEF ParentsLinked
<1>8. CASE UniteRoots
  <2> DEFINE root == Smaller(i, j)
             other == Larger(i, j)
  <2>1. /\ pc = "climb" /\ pc' = "scan"
        /\ parent' = [parent EXCEPT ![other] = root, ![l1] = root, ![l2] = root]
    BY <1>8 DEF UniteRoots, Union
  <2>2. l1 < num BY <2>1 DEF IInv, LockStep
  <2>3. /\ l1 \in 0..num-1 /\ l2 \in 0..num-1 /\ parent \in [0..num-1 -> Nat]
    BY <2>1, <2>2, ScanPlaces DEF IInv, Forest
  <2>4. {root, other} \subseteq {i, j} BY DEF Smaller, Larger
  <2>5. Meets(l1, l2) /\ Linked(l1, i) /\ Linked(l2, j) BY <2>1 DEF ParentsLinked
  <2>6. Linked(l1, l2) BY <2>3, <2>5, MeetingAreLinked
  <2>7. Linked(i, j) BY <2>5, <2>6, LinkedIsEquivalence
  <2> HIDE DEF root, other
  <2>8. Linked(other, root) BY <2>4, <2>7, LinkedIsEquivalence
  <2>9. Linked(l1, root) /\ Linked(l2, root)
    BY <2>4, <2>5, <2>6, <2>7, LinkedIsEquivalence
  <2>10. ASSUME NEW k \in 0..num-1 PROVE Linked(k, parent'[k])
    <3>1. CASE k \notin {other, l1, l2}
      <4>1. parent'[k] = parent[k] BY <3>1, <2>1, <2>3
      <4> QED BY <4>1, <1>3
    <3>2. CASE k \in {other, l1, l2}
      <4>1. parent'[k] = root BY <3>2, <2>1, <2>3
      <4> QED BY <4>1, <3>2, <2>8, <2>9
    <3> QED BY <3>1, <3>2
  <2> QED BY <2>1, <2>10, <1>1, <1>2 DEF ParentsLinked
<1>9. CASE Compress
  <2>1. /\ pc = "compress" /\ pc' = "compress" /\ i \in 0..num-1
        /\ parent' = [parent EXCEPT ![i] = parent[parent[i]]]
    BY <1>9, <1>1 DEF IInv, Counting, Compress
  <2>2. parent[i] \in 0..num-1 /\ parent \in [0..num-1 -> Nat]
    BY <2>1, <1>1 DEF IInv, Forest
  <2>3. Linked(i, parent[parent[i]]) BY <2>1, <2>2, <1>3, LinkedIsEquivalence
  <2>4. ASSUME NEW k \in 0..num-1 PROVE Linked(k, parent'[k])
    <3>1. CASE k = i
      <4>1. parent'[k] = parent[parent[i]] BY <3>1, <2>1, <2>2
      <4> QED BY <4>1, <3>1, <2>3
    <3>2. CASE k # i
      <4>1. parent'[k] = parent[k] BY <3>2, <2>1, <2>2
      <4> QED BY <4>1, <1>3
    <3> QED BY <3>1, <3>2
  <2> QED BY <2>1, <2>4, <1>1, <1>2 DEF ParentsLinked
<1> QED BY <1>4, <1>5, <1>6, <1>7, <1>8, <1>9 DEF ConnectStep

LEMMA LaterStepsKeepLinks ==
    ASSUME IInv, ParentsLinked, ExtractStep \/ separateRegions \/ sortRegions \/ UNCHANGED vars
    PROVE  ParentsLinked'
<1>1. CASE ExtractStep
  <2>1. pc = "extract" /\ i \in Nat
    BY <1>1 DEF IInv, Counting, Runs, ExtractStep, SkipClear, StartRegion, ExtendRegion,
                FinishRegions, Extracting
  <2>2. pc' \in {"extract", "separate"} /\ (pc' = "extract" => i' = i + 1)
    BY <1>1, <2>1 DEF ExtractStep, SkipClear, StartRegion, ExtendRegion, FinishRegions,
                      Extracting
  <2>3. ~(pc' = "extract" /\ i' = 0) BY <2>1, <2>2
  <2> QED BY <2>2, <2>3 DEF ParentsLinked, Connecting
<1>2. CASE separateRegions \/ sortRegions
  BY <1>2 DEF separateRegions, sortRegions, ParentsLinked, Connecting
<1>3. CASE UNCHANGED vars
  <2>1. UNCHANGED <<image, runs, num, parent, pc, i, j, l1, l2>>
    BY <1>3 DEF vars, readVars, connectVars
  <2>2. \A a, b : Linked(a, b)' <=> Linked(a, b) BY <2>1, LinksStay
  <2>3. \A a, b : Meets(a, b)' <=> Meets(a, b) BY <2>1 DEF Meets, Joined, Overlap, End
  <2> QED BY <2>1, <2>2, <2>3 DEF ParentsLinked
<1> QED BY <1>1, <1>2, <1>3

PInv == Drawn /\ TInv /\ ParentsLinked

LEMMA PInitially == Init => PInv
BY TInitially, LinksInitially, DrawnInitially DEF PInv

LEMMA PInvIsInductive == IInv /\ PInv /\ [Next]_vars => PInv'
<1> SUFFICES ASSUME IInv, PInv, [Next]_vars PROVE PInv' OBVIOUS
<1>1. CASE EncodeRun
  <2>1. Drawn' /\ TInv' BY <1>1, EncodingDraws, EncodingKeepsTInv DEF PInv
  <2>2. pc' \in {"encode", "skip"} BY <1>1 DEF EncodeRun
  <2>3. ParentsLinked' BY <2>1, <2>2, RootsAreLinked DEF TInv
  <2> QED BY <2>1, <2>3 DEF PInv
<1>2. CASE ~EncodeRun
  <2>1. UNCHANGED <<image, x, y, num, runs>>
    BY <1>2 DEF Next, ConnectStep, SkipFirstLine, PassOn, Adopt, TwoParents, ClimbLeft,
         ClimbRight, UniteRoots, EndScan, Compress, EndCompress, ExtractStep, SkipClear,
         StartRegion, ExtendRegion, FinishRegions, separateRegions, sortRegions,
         readVars, vars, connectVars
  <2>2. Drawn' BY <2>1, DrawingStays DEF PInv
  <2>3. CASE ConnectStep
    <3>1. ParentsLinked' BY <2>3, ConnectingKeepsLinks DEF PInv
    <3>2. TInv'
      BY <2>3, SkippingKeepsTInv, PassingKeepsTInv, AdoptingKeepsTInv, ClimbingKeepsTInv,
         UnitingKeepsTInv, CompressingKeepsTInv DEF PInv, ConnectStep
    <3> QED BY <2>2, <3>1, <3>2 DEF PInv
  <2>4. CASE ExtractStep \/ separateRegions \/ sortRegions \/ UNCHANGED vars
    BY <2>2, <2>4, LaterStepsKeepTInv, LaterStepsKeepLinks DEF PInv
  <2> QED BY <1>2, <2>3, <2>4 DEF Next
<1> QED BY <1>1, <1>2

-----------------------------------------------------------------------------
(* A component is the least set around its pixel that is closed: the walk   *)
(* that Component describes ends there, as the image is finite.             *)

Around(S) == UNION {Near(r) : r \in S}
Closure(S) == {q \in Pixels : \A T \in SUBSET Pixels : NearClosed(T) /\ S \subseteq T => q \in T}
Walk(f) == f = [S \in SUBSET Pixels |-> IF Around(S) = S THEN S ELSE f[Around(S)]]

LEMMA AroundGrows ==
    ASSUME NEW S \in SUBSET Pixels
    PROVE  /\ S \subseteq Around(S) /\ Around(S) \in SUBSET Pixels
           /\ Around(S) = S => Closure(S) = S
           /\ Closure(Around(S)) = Closure(S)
<1>1. \A q \in Pixels : q \in Near(q) /\ Near(q) \subseteq Pixels BY DEF Near
<1>2. S \subseteq Around(S) BY <1>1 DEF Around
<1>3. Around(S) \in SUBSET Pixels BY <1>1 DEF Around
<1>4. Around(S) = S => NearClosed(S) BY DEF Around, NearClosed
<1>5. Around(S) = S => Closure(S) = S BY <1>4 DEF Closure
<1>6. ASSUME NEW T \in SUBSET Pixels, NearClosed(T)
      PROVE  S \subseteq T <=> Around(S) \subseteq T
  BY <1>2, <1>6 DEF Around, NearClosed
<1>7. Closure(Around(S)) = Closure(S) BY <1>6 DEF Closure
<1> QED BY <1>2, <1>3, <1>5, <1>7

LEMMA ImageIsFinite ==
    ASSUME Sizes
    PROVE  IsFiniteSet(Pixels)
<1>1. IsFiniteSet(0..image.width-1) /\ IsFiniteSet(0..image.height-1)
  <2>1. PICK zero, w, h \in Int : zero = 0 /\ w = image.width-1 /\ h = image.height-1
    BY DEF Sizes
  <2>2. IsFiniteSet(zero..w) /\ IsFiniteSet(zero..h) BY <2>1, FS_Interval
  <2> QED BY <2>1, <2>2
<1> QED BY <1>1, FS_Product DEF Pixels

LEMMA WalkEnds ==
    ASSUME Sizes, NEW g, Walk(g), NEW R \in SUBSET Pixels
    PROVE  g[R] = Closure(R)
<1> DEFINE N == {n \in Nat : \A S \in SUBSET Pixels :
                   Cardinality(Pixels \ S) <= n => g[S] = Closure(S)}
<1>1. IsFiniteSet(Pixels) BY ImageIsFinite
<1>2. \A S \in SUBSET Pixels : IsFiniteSet(Pixels \ S) /\ Cardinality(Pixels \ S) \in Nat
  <2>1. ASSUME NEW S \in SUBSET Pixels PROVE IsFiniteSet(Pixels \ S)
    BY <1>1, FS_Subset
  <2> QED BY <2>1, FS_CardinalityType
<1>3. ASSUME NEW S \in SUBSET Pixels
      PROVE  g[S] = IF Around(S) = S THEN S ELSE g[Around(S)]
  BY DEF Walk
(* One step of the walk, if it is not the last, leaves less of the image. *)
<1>4. ASSUME NEW S \in SUBSET Pixels, Around(S) # S
      PROVE  Cardinality(Pixels \ Around(S)) < Cardinality(Pixels \ S)
  <2> DEFINE A == Pixels \ Around(S)
             B == Pixels \ S
  <2>1. S \subseteq Around(S) /\ Around(S) \in SUBSET Pixels BY AroundGrows
  <2>2. A \subseteq B /\ A # B BY <2>1, <1>4
  <2>3. IsFiniteSet(B) /\ Cardinality(A) \in Nat /\ Cardinality(B) \in Nat BY <2>1, <1>2
  <2> HIDE DEF A, B
  <2>4. Cardinality(A) <= Cardinality(B) /\ Cardinality(A) # Cardinality(B)
    BY <2>2, <2>3, FS_Subset
  <2>5. Cardinality(A) < Cardinality(B) BY <2>3, <2>4
  <2> QED BY <2>5 DEF A, B
<1>5. ASSUME NEW S \in SUBSET Pixels, NEW n \in Nat,
             \A T \in SUBSET Pixels : Cardinality(Pixels \ T) < n => g[T] = Closure(T),
             Cardinality(Pixels \ S) <= n
      PROVE  g[S] = Closure(S)
  <2>1. CASE Around(S) = S BY <2>1, <1>3, AroundGrows
  <2>2. CASE Around(S) # S
    <3>1. Around(S) \in SUBSET Pixels /\ Closure(Around(S)) = Closure(S) BY AroundGrows
    <3>2. Cardinality(Pixels \ Around(S)) < n
      <4>1. PICK c, d \in Nat : c = Cardinality(Pixels \ Around(S)) /\ d = Cardinality(Pixels \ S)
        BY <3>1, <1>2
      <4>2. c < d /\ d <= n BY <4>1, <2>2, <1>4, <1>5
      <4> QED BY <4>1, <4>2
    <3>3. g[Around(S)] = Closure(S) BY <3>1, <3>2, <1>5
    <3> QED BY <3>3, <2>2, <1>3
  <2> QED BY <2>1, <2>2
<1>6. 0 \in N
  <2>1. \A T \in SUBSET Pixels : ~(Cardinality(Pixels \ T) < 0) BY <1>2
  <2>2. ASSUME NEW S \in SUBSET Pixels, Cardinality(Pixels \ S) <= 0
        PROVE  g[S] = Closure(S)
    BY <2>1, <2>2, <1>5
  <2> QED BY <2>2
<1>7. ASSUME NEW n \in N PROVE n + 1 \in N
  <2>1. \A T \in SUBSET Pixels : Cardinality(Pixels \ T) < n + 1 => g[T] = Closure(T)
    <3>1. ASSUME NEW T \in SUBSET Pixels, Cardinality(Pixels \ T) < n + 1
          PROVE  g[T] = Closure(T)
      <4>1. PICK c \in Nat : c = Cardinality(Pixels \ T) BY <1>2
      <4>2. c <= n BY <4>1, <3>1
      <4> QED BY <4>1, <4>2
    <3> QED BY <3>1
  <2>2. \A S \in SUBSET Pixels : Cardinality(Pixels \ S) <= n + 1 => g[S] = Closure(S)
    <3>1. n + 1 \in Nat OBVIOUS
    <3> QED BY <2>1, <3>1, <1>5
  <2> QED BY <2>2
<1> HIDE DEF N
<1>8. \A n \in Nat : n \in N
  <2>1. N \in SUBSET Nat BY DEF N
  <2> QED BY <1>6, <1>7, <2>1, EveryNumber
<1>9. PICK n \in Nat : n = Cardinality(Pixels \ R) BY <1>2
<1>10. n \in N /\ Cardinality(Pixels \ R) <= n BY <1>8, <1>9
<1> QED BY <1>10 DEF N

LEMMA ComponentIsClosure ==
    ASSUME Sizes, NEW q \in Pixels
    PROVE  Component(q) = Closure({q})
<1>1. Walk([S \in SUBSET Pixels |-> Closure(S)])
  <2> DEFINE f == [S \in SUBSET Pixels |-> Closure(S)]
  <2>1. ASSUME NEW S \in SUBSET Pixels
        PROVE  Closure(S) = IF Around(S) = S THEN S ELSE f[Around(S)]
    <3>1. f[Around(S)] = Closure(Around(S)) BY AroundGrows
    <3> QED BY <3>1, AroundGrows
  <2> QED BY <2>1 DEF Walk
<1>2. Component(q) = (CHOOSE f : Walk(f))[{q}]
  BY DEF Component, Walk, Around
<1>3. Walk(CHOOSE f : Walk(f)) BY <1>1
<1> QED BY <1>2, <1>3, WalkEnds

-----------------------------------------------------------------------------
(* The end: pixels near each other are in runs of one parent, and runs of   *)
(* one parent are connected.                                                *)

LEMMA PixelsOfRunAreHeld ==
    ASSUME IInv, NEW k \in 0..num-1, NEW q
    PROVE  q \in PixelsOfRun(k) <=> \E a, b \in Nat : q = <<a, b>> /\ Holds(k, a, b)
<1>1. runs[k].x \in Nat /\ runs[k].y \in Nat /\ End(k) \in Nat
  BY DEF IInv, Runs, End
<1>2. \A a \in Nat : a \in runs[k].x..End(k)-1 <=> runs[k].x <= a /\ a < End(k)
  BY <1>1
<1>3. runs[k].x..End(k)-1 \subseteq Nat BY <1>1
<1>4. q \in PixelsOfRun(k)
        <=> \E a \in runs[k].x..End(k)-1, b \in {runs[k].y} : q = <<a, b>>
  BY DEF PixelsOfRun
<1> HIDE DEF PixelsOfRun
<1>5. ASSUME q \in PixelsOfRun(k)
      PROVE  \E a, b \in Nat : q = <<a, b>> /\ Holds(k, a, b)
  <2>1. PICK a \in runs[k].x..End(k)-1 : q = <<a, runs[k].y>> BY <1>4, <1>5
  <2>2. a \in Nat /\ Holds(k, a, runs[k].y) BY <2>1, <1>1, <1>2, <1>3 DEF Holds
  <2> QED BY <2>1, <2>2, <1>1
<1>6. ASSUME NEW a \in Nat, NEW b \in Nat, q = <<a, b>>, Holds(k, a, b)
      PROVE  q \in PixelsOfRun(k)
  BY <1>2, <1>4, <1>6 DEF Holds
<1> QED BY <1>5, <1>6

(* Side by side, one colour is one run. *)
LEMMA NoSeam ==
    ASSUME IInv, Drawn, NEW k \in 0..num-1, NEW m \in 0..num-1, k < m,
           NEW a \in Nat, NEW c \in Nat, NEW b \in Nat, Holds(k, a, b), Holds(m, c, b),
           runs[k].color = runs[m].color
    PROVE  a + 1 < c
<1>1. /\ runs[k].y = b /\ runs[m].y = b /\ a < End(k) /\ runs[m].x <= c
      /\ runs[m].x \in Nat /\ End(k) \in Nat
  BY DEF Holds, IInv, Runs, End
<1>2. End(k) <= runs[m].x BY <1>1 DEF Drawn, Apart
<1>3. CASE End(k) = c
  <2>1. c \in 0..image.width-1 /\ PixelColor(<<c, runs[m].y>>) = runs[m].color
    BY <1>1, RunIsConnected
  <2>2. End(k) < image.width BY <2>1, <1>3 DEF IInv, Sizes
  <2>3. PixelColor(<<End(k), runs[k].y>>) # runs[k].color BY <2>2 DEF Drawn, DrawnRun
  <2> QED BY <2>1, <2>3, <1>1, <1>3
<1>4. CASE End(k) # c BY <1>1, <1>2, <1>4
<1> QED BY <1>3, <1>4

LEMMA AdjoiningRuns ==
    ASSUME IInv, Drawn, NEW k \in 0..num-1, NEW m \in 0..num-1,
           NEW a \in Nat, NEW b \in Nat, NEW c \in Nat, NEW d \in Nat,
           Holds(k, a, b), Holds(m, c, d), Adjoining(a, b, c, d),
           runs[k].color = runs[m].color, runs[k].color # 0
    PROVE  k = m \/ Meets(k, m) \/ Meets(m, k)
<1>0. num \in Nat BY DEF IInv, Runs
<1>1. CASE b = d
  <2>1. ~(a + 1 < c) /\ ~(c + 1 < a) BY <1>1 DEF Adjoining
  <2>2. ~(k < m) BY <2>1, <1>1, NoSeam
  <2>3. ~(m < k) BY <2>1, <1>1, NoSeam
  <2> QED BY <2>2, <2>3, <1>0
<1>2. CASE b # d
  <2>1. a = c /\ (b = d + 1 \/ d = b + 1) BY <1>2 DEF Adjoining
  <2>2. /\ runs[k].y = b /\ runs[m].y = d
        /\ runs[k].x <= a /\ a < End(k) /\ runs[m].x <= a /\ a < End(m)
    BY <2>1 DEF Holds
  <2>3. runs[k].x \in Nat /\ runs[m].x \in Nat /\ End(k) \in Nat /\ End(m) \in Nat
    BY DEF IInv, Runs, End
  <2>4. Overlap(k, m) /\ Overlap(m, k) BY <2>2, <2>3 DEF Overlap
  <2> QED BY <2>1, <2>2, <2>4 DEF Meets, Joined
<1> QED BY <1>1, <1>2

-----------------------------------------------------------------------------
(* Groups of runs that leave out none that meets one of theirs. *)

PixelsOf(G) == UNION {PixelsOfRun(k) : k \in G}
Complete(G) ==
    /\ G \in SUBSET ColoredRuns
    /\ \A k \in G, m \in ColoredRuns : Meets(k, m) \/ Meets(m, k) => m \in G

LEMMA ColoredRunsAreRuns ==
    \A k : k \in ColoredRuns <=> k \in 0..num-1 /\ runs[k].color # 0
BY DEF ColoredRuns

LEMMA PixelsArePairs ==
    \A q : q \in Pixels <=> \E a \in 0..image.width-1, b \in 0..image.height-1 : q = <<a, b>>
BY DEF Pixels

(* Every coloured pixel is in a run of its colour, and only those are.      *)
LEMMA RunsHoldPixels ==
    ASSUME IInv, Drawn, NEW k \in ColoredRuns, NEW a \in Nat, NEW b \in Nat, Holds(k, a, b)
    PROVE  /\ a \in 0..image.width-1 /\ b \in 0..image.height-1
           /\ PixelColor(<<a, b>>) = runs[k].color
           /\ Connected(FirstOf(k), <<a, b>>)
<1>1. b = runs[k].y /\ k \in 0..num-1 BY ColoredRunsAreRuns DEF Holds
<1> QED BY <1>1, RunIsConnected

LEMMA PixelsAreInRuns ==
    ASSUME IInv, Drawn, WholeImage,
           NEW a \in 0..image.width-1, NEW b \in 0..image.height-1, PixelColor(<<a, b>>) # 0
    PROVE  \E k \in ColoredRuns : Holds(k, a, b) /\ runs[k].color = PixelColor(<<a, b>>)
<1>1. image.width \in Nat /\ image.height \in Nat BY DEF IInv, Sizes
<1>2. b < y BY <1>1 DEF WholeImage
<1>3. PICK k \in 0..num-1 : Holds(k, a, b) BY <1>1, <1>2 DEF Drawn, Covered, Passed
<1>4. a \in Nat /\ b = runs[k].y BY <1>1, <1>3 DEF Holds
<1>5. PixelColor(<<a, b>>) = runs[k].color BY <1>3, <1>4, RunIsConnected
<1> QED BY <1>3, <1>5, ColoredRunsAreRuns

LEMMA RunsAreColoredPixels ==
    ASSUME IInv, Drawn, WholeImage
    PROVE  PixelsOf(ColoredRuns) = ColoredPixels
<1>1. ASSUME NEW k \in ColoredRuns, NEW q \in PixelsOfRun(k) PROVE q \in ColoredPixels
  <2>1. PICK a, b \in Nat : q = <<a, b>> /\ Holds(k, a, b)
    BY ColoredRunsAreRuns, PixelsOfRunAreHeld
  <2>2. q \in Pixels /\ PixelColor(q) = runs[k].color BY <2>1, PixelsArePairs, RunsHoldPixels
  <2> QED BY <2>2, ColoredRunsAreRuns DEF ColoredPixels
<1>2. ASSUME NEW q \in ColoredPixels PROVE \E k \in ColoredRuns : q \in PixelsOfRun(k)
  <2>1. q \in Pixels /\ PixelColor(q) # 0 BY DEF ColoredPixels
  <2>2. PICK a \in 0..image.width-1, b \in 0..image.height-1 : q = <<a, b>>
    BY <2>1, PixelsArePairs
  <2>3. PICK k \in ColoredRuns : Holds(k, a, b) BY <2>1, <2>2, PixelsAreInRuns
  <2>4. a \in Nat /\ b \in Nat BY <2>2 DEF IInv, Sizes
  <2> QED BY <2>2, <2>3, <2>4, ColoredRunsAreRuns, PixelsOfRunAreHeld
<1> QED BY <1>1, <1>2 DEF PixelsOf

LEMMA PixelsOfGroup ==
    ASSUME IInv, NEW G \in SUBSET ColoredRuns, NEW q
    PROVE  q \in PixelsOf(G) <=> \E k \in G, a, b \in Nat : q = <<a, b>> /\ Holds(k, a, b)
<1>1. q \in PixelsOf(G) <=> \E k \in G : q \in PixelsOfRun(k) BY DEF PixelsOf
<1>2. \A k \in G : k \in 0..num-1 BY ColoredRunsAreRuns
<1> QED BY <1>1, <1>2, PixelsOfRunAreHeld

LEMMA PixelsOfGroupArePixels ==
    ASSUME IInv, Drawn, NEW G \in SUBSET ColoredRuns
    PROVE  PixelsOf(G) \in SUBSET Pixels
<1>1. ASSUME NEW q \in PixelsOf(G) PROVE q \in Pixels
  <2>1. PICK k \in G, a, b \in Nat : q = <<a, b>> /\ Holds(k, a, b) BY PixelsOfGroup
  <2> QED BY <2>1, RunsHoldPixels, PixelsArePairs
<1> QED BY <1>1

LEMMA FirstIsHeld ==
    ASSUME IInv, Drawn, NEW k \in 0..num-1
    PROVE  /\ runs[k].x \in Nat /\ runs[k].y \in Nat
           /\ Holds(k, runs[k].x, runs[k].y)
<1>1. /\ runs[k].x \in Nat /\ runs[k].y \in Nat /\ runs[k].x < End(k)
  BY DEF IInv, Runs, Drawn, DrawnRun
<1> QED BY <1>1 DEF Holds

(* No pixel is in two runs. *)
LEMMA OneHolds ==
    ASSUME IInv, Drawn, NEW k \in 0..num-1, NEW m \in 0..num-1,
           NEW a \in Nat, NEW b, Holds(k, a, b), Holds(m, a, b)
    PROVE  k = m
<1>1. /\ num \in Nat /\ runs[k].x \in Nat /\ runs[m].x \in Nat
      /\ End(k) \in Nat /\ End(m) \in Nat
  BY DEF IInv, Runs, End
<1>2. runs[k].y = runs[m].y /\ runs[k].x <= a /\ a < End(k) /\ runs[m].x <= a /\ a < End(m)
  BY DEF Holds
<1>3. ~(k < m) BY <1>1, <1>2 DEF Drawn, Apart
<1>4. ~(m < k) BY <1>1, <1>2 DEF Drawn, Apart
<1> QED BY <1>1, <1>3, <1>4

LEMMA GroupIsClosed ==
    ASSUME IInv, Drawn, WholeImage, NEW G, Complete(G)
    PROVE  /\ PixelsOf(G) \in SUBSET Pixels
           /\ NearClosed(PixelsOf(G))
           /\ \A k \in ColoredRuns : k \in G <=> FirstOf(k) \in PixelsOf(G)
<1>0. G \in SUBSET ColoredRuns /\ Sizes BY DEF Complete, IInv
<1>1. PixelsOf(G) \in SUBSET Pixels BY <1>0, PixelsOfGroupArePixels
<1>2. ASSUME NEW q \in PixelsOf(G), NEW r \in Near(q) PROVE r \in PixelsOf(G)
  <2>1. PICK k \in G, a, b \in Nat : q = <<a, b>> /\ Holds(k, a, b)
    BY <1>0, PixelsOfGroup
  <2>2. /\ a \in 0..image.width-1 /\ b \in 0..image.height-1
        /\ PixelColor(q) = runs[k].color
    BY <2>1, <1>0, RunsHoldPixels
  <2>3. r \in Pixels BY <1>2 DEF Near
  <2>4. PICK c \in 0..image.width-1, d \in 0..image.height-1 : r = <<c, d>>
    BY <2>3, PixelsArePairs
  <2>5. Adjoining(a, b, c, d) /\ PixelColor(r) = runs[k].color
    BY <2>1, <2>2, <2>4, <1>2, <1>0, NearAdjoins
  <2>6. k \in 0..num-1 /\ runs[k].color # 0 BY <1>0, ColoredRunsAreRuns
  <2>7. PICK m \in ColoredRuns : Holds(m, c, d) /\ runs[m].color = runs[k].color
    BY <2>4, <2>5, <2>6, PixelsAreInRuns
  <2>8. c \in Nat /\ d \in Nat /\ m \in 0..num-1
    BY <2>4, <1>0, <2>7, ColoredRunsAreRuns DEF Sizes
  <2>9. k = m \/ Meets(k, m) \/ Meets(m, k)
    BY <2>1, <2>5, <2>6, <2>7, <2>8, AdjoiningRuns
  <2>10. m \in G BY <2>7, <2>9 DEF Complete
  <2> QED BY <2>4, <2>7, <2>8, <2>10, <1>0, PixelsOfGroup
<1>3. ASSUME NEW k \in ColoredRuns PROVE k \in G <=> FirstOf(k) \in PixelsOf(G)
  <2>1. k \in 0..num-1 BY ColoredRunsAreRuns
  <2>2. PICK a, b \in Nat : Holds(k, a, b) /\ FirstOf(k) = <<a, b>>
    BY <2>1, FirstIsHeld DEF FirstOf
  <2>3. k \in G => FirstOf(k) \in PixelsOf(G) BY <2>2, <1>0, PixelsOfGroup
  <2>4. ASSUME FirstOf(k) \in PixelsOf(G) PROVE k \in G
    <3>1. PICK m \in G, c, d \in Nat : <<a, b>> = <<c, d>> /\ Holds(m, c, d)
      BY <2>2, <2>4, <1>0, PixelsOfGroup
    <3>2. Holds(m, a, b) BY <3>1
    <3>3. m \in 0..num-1 BY <1>0, ColoredRunsAreRuns
    <3> QED BY <2>1, <2>2, <3>2, <3>3, OneHolds
  <2> QED BY <2>3, <2>4
<1> QED BY <1>1, <1>2, <1>3 DEF NearClosed

(* A complete group whose runs are connected is a component. *)
LEMMA GroupIsComponent ==
    ASSUME IInv, Drawn, WholeImage, NEW G, Complete(G), NEW p,
           \A k \in G : Linked(k, p), NEW q \in PixelsOf(G)
    PROVE  PixelsOf(G) = Component(q)
<1>0. G \in SUBSET ColoredRuns /\ Sizes BY DEF Complete, IInv
<1>1. PixelsOf(G) \in SUBSET Pixels /\ NearClosed(PixelsOf(G)) BY GroupIsClosed
<1>2. Component(q) = Closure({q}) BY <1>0, <1>1, ComponentIsClosure
<1>3. ASSUME NEW r \in PixelsOf(G) PROVE Connected(FirstOf(p), r)
  <2>1. PICK k \in G, a, b \in Nat : r = <<a, b>> /\ Holds(k, a, b)
    BY <1>0, PixelsOfGroup
  <2>2. Connected(FirstOf(k), r) BY <2>1, <1>0, RunsHoldPixels
  <2>3. Connected(FirstOf(k), FirstOf(p)) BY DEF Linked
  <2> QED BY <2>2, <2>3, ConnectedIsEquivalence
<1>4. Component(q) \subseteq PixelsOf(G) BY <1>1, <1>2 DEF Closure
<1>5. ASSUME NEW r \in PixelsOf(G) PROVE r \in Component(q)
  <2>1. Connected(q, r) BY <1>3, ConnectedIsEquivalence
  <2>2. r \in Pixels BY <1>1
  <2> QED BY <2>1, <2>2, <1>2 DEF Closure, Connected
<1> QED BY <1>4, <1>5

-----------------------------------------------------------------------------
(* The end of connecting: the runs of one parent are a complete group.      *)

ConnectingDone == pc = "extract" /\ i = 0 /\ WholeImage

LEMMA TreesAreComplete ==
    ASSUME IInv, OneColor, PInv, ConnectingDone
    PROVE  /\ \A p : Complete({m \in ColoredRuns : parent[m] = p})
           /\ \A k \in ColoredRuns : /\ parent[k] \in ColoredRuns /\ Linked(k, parent[k])
                                     /\ \E p \in Nat : p = parent[k] /\ p <= k
<1>1. num \in Nat /\ pc = "extract" /\ i = 0 BY DEF IInv, Runs, ConnectingDone
<1>2. \A k \in 0..num-1 : parent[k] \in 0..num-1 /\ parent[k] \in Nat /\ parent[k] <= k
  BY <1>1 DEF IInv, Forest
<1>3. \A k \in 0..num-1 : Linked(k, parent[k]) BY <1>1 DEF PInv, ParentsLinked
<1>4. \A k \in 0..num-1 : runs[parent[k]].color = runs[k].color BY <1>1 DEF OneColor
<1>5. \A k, m \in 0..num-1 : Meets(k, m) => parent[k] = parent[m]
  BY <1>1 DEF PInv, TInv, Met
<1>6. ASSUME NEW k \in ColoredRuns
      PROVE  /\ parent[k] \in ColoredRuns /\ Linked(k, parent[k])
             /\ \E p \in Nat : p = parent[k] /\ p <= k
  <2>1. k \in 0..num-1 /\ runs[k].color # 0 BY ColoredRunsAreRuns
  <2> QED BY <2>1, <1>2, <1>3, <1>4, ColoredRunsAreRuns
<1>7. ASSUME NEW p PROVE Complete({m \in ColoredRuns : parent[m] = p})
  BY <1>5, ColoredRunsAreRuns DEF Complete
<1> QED BY <1>6, <1>7

LEMMA ParentsAreRight ==
    ASSUME IInv, OneColor, PInv
    PROVE  OneParentPerComponent
<1> SUFFICES ASSUME ConnectingDone
             PROVE  /\ UNION {PixelsOfRun(k) : k \in ColoredRuns} = ColoredPixels
                    /\ \A p \in {parent[k] : k \in ColoredRuns} :
                         PixelsOfParent(p)
                           = Component(CHOOSE q \in PixelsOfParent(p) : TRUE)
  BY DEF OneParentPerComponent, ConnectingDone
<1>1. WholeImage /\ Drawn BY DEF ConnectingDone, PInv
<1>2. UNION {PixelsOfRun(k) : k \in ColoredRuns} = ColoredPixels
  BY <1>1, RunsAreColoredPixels DEF PixelsOf
<1>3. ASSUME NEW start \in ColoredRuns, NEW p, p = parent[start], NEW P, P = PixelsOfParent(p)
      PROVE  P = Component(CHOOSE q \in P : TRUE)
  <2>1. PICK G : G = {m \in ColoredRuns : parent[m] = p} OBVIOUS
  <2>2. P = PixelsOf(G) BY <2>1, <1>3 DEF PixelsOfParent, PixelsOf
  <2>3. Complete(G) /\ start \in G BY <2>1, <1>3, TreesAreComplete
  <2>4. \A k \in G : Linked(k, p) BY <2>1, TreesAreComplete
  <2>5. PICK q \in P : q = CHOOSE r \in P : TRUE
    <3>1. FirstOf(start) \in P BY <1>1, <2>2, <2>3, GroupIsClosed
    <3> QED BY <3>1
  <2>6. P = Component(q) BY <1>1, <2>2, <2>3, <2>4, <2>5, GroupIsComponent
  <2> QED BY <2>5, <2>6
<1> QED BY <1>2, <1>3

(* When connecting is done, and the image was not cut short for want of     *)
(* room for its runs, the runs of one parent are exactly the pixels of one  *)
(* component, for images of every size however their components wind.       *)
THEOREM ComponentsAreFound == Spec => []OneParentPerComponent
<1>1. CInv => OneColor BY DEF CInv
<1>2. Spec => [](IInv /\ CInv /\ PInv)
  BY Initially, InvIsInductive, CInitially, CInvIsInductive, PInitially, PInvIsInductive,
     PTL DEF Spec
<1> QED BY <1>1, <1>2, ParentsAreRight, PTL

-----------------------------------------------------------------------------
(* Sums over finite sets.  g[A] is the sum of F over A, for every subset A  *)
(* of U, taken in the order in which CHOOSE takes the members.              *)

Goes(F, g, A) ==
    g[A] = IF A = {} THEN 0
           ELSE F[CHOOSE e \in A : TRUE] + g[A \ {CHOOSE e \in A : TRUE}]

Sums(F, U, g) == g \in [SUBSET U -> Nat] /\ \A A \in SUBSET U : Goes(F, g, A)

LEMMA FiniteSubsets ==
    ASSUME NEW U, IsFiniteSet(U), NEW A \in SUBSET U
    PROVE  /\ IsFiniteSet(A) /\ Cardinality(A) \in Nat
           /\ \A e \in A : Cardinality(A \ {e}) = Cardinality(A) - 1
           /\ A = {} <=> Cardinality(A) = 0
<1>1. IsFiniteSet(A) BY FS_Subset
<1>2. Cardinality(A) \in Nat BY <1>1, FS_CardinalityType
<1>3. \A e \in A : Cardinality(A \ {e}) = Cardinality(A) - 1 BY <1>1, FS_RemoveElement
<1>4. A = {} <=> Cardinality(A) = 0 BY <1>1, FS_EmptySet
<1> QED BY <1>1, <1>2, <1>3, <1>4

(* Induction over the subsets of a finite set by their size. *)
LEMMA EverySubset ==
    ASSUME NEW U, IsFiniteSet(U), NEW W,
           \A A \in SUBSET U :
             (\A B \in SUBSET U : Cardinality(B) < Cardinality(A) => B \in W) => A \in W
    PROVE  \A A \in SUBSET U : A \in W
<1> DEFINE N == {n \in Nat : \A A \in SUBSET U : Cardinality(A) <= n => A \in W}
<1>1. \A A \in SUBSET U : Cardinality(A) \in Nat BY FiniteSubsets
<1>2. 0 \in N
  <2>1. ASSUME NEW A \in SUBSET U, Cardinality(A) <= 0 PROVE A \in W
    <3>1. \A B \in SUBSET U : ~(Cardinality(B) < Cardinality(A)) BY <2>1, <1>1
    <3> QED BY <3>1
  <2> QED BY <2>1
<1>3. ASSUME NEW n \in N PROVE n + 1 \in N
  <2>1. ASSUME NEW A \in SUBSET U, Cardinality(A) <= n + 1 PROVE A \in W
    <3>1. ASSUME NEW B \in SUBSET U, Cardinality(B) < Cardinality(A) PROVE B \in W
      <4>1. Cardinality(B) <= n BY <3>1, <2>1, <1>1
      <4> QED BY <4>1
    <3> QED BY <3>1
  <2> QED BY <2>1
<1> HIDE DEF N
<1>4. \A n \in Nat : n \in N
  <2>1. N \in SUBSET Nat BY DEF N
  <2> QED BY <1>2, <1>3, <2>1, EveryNumber
<1>5. ASSUME NEW A \in SUBSET U PROVE A \in W
  <2>1. PICK n \in Nat : n = Cardinality(A) BY <1>1
  <2>2. n \in N /\ Cardinality(A) <= n BY <2>1, <1>4
  <2> QED BY <2>2 DEF N
<1> QED BY <1>5

LEMMA SumExists ==
    ASSUME NEW U, IsFiniteSet(U), NEW F \in [U -> Nat]
    PROVE  \E g : Sums(F, U, g)
<1> DEFINE N == {n \in Nat : \E g \in [SUBSET U -> Nat] :
                   \A A \in SUBSET U : Cardinality(A) <= n => Goes(F, g, A)}
<1>1. \A A \in SUBSET U :
        /\ Cardinality(A) \in Nat /\ (A = {} <=> Cardinality(A) = 0)
        /\ A # {} => /\ (CHOOSE e \in A : TRUE) \in A
                     /\ Cardinality(A \ {CHOOSE e \in A : TRUE}) = Cardinality(A) - 1
  BY FiniteSubsets
<1>2. 0 \in N
  <2> DEFINE g == [A \in SUBSET U |-> 0]
  <2>1. g \in [SUBSET U -> Nat] OBVIOUS
  <2>2. ASSUME NEW A \in SUBSET U, Cardinality(A) <= 0 PROVE Goes(F, g, A)
    <3>1. PICK n \in Nat : n = Cardinality(A) /\ (A = {} <=> n = 0) BY <1>1
    <3>2. A = {} BY <3>1, <2>2
    <3> QED BY <3>2 DEF Goes
  <2> QED BY <2>1, <2>2
<1>3. ASSUME NEW n \in N PROVE n + 1 \in N
  <2>1. PICK f \in [SUBSET U -> Nat] :
          \A A \in SUBSET U : Cardinality(A) <= n => Goes(F, f, A)
    OBVIOUS
  <2> DEFINE g == [A \in SUBSET U |->
                     IF Cardinality(A) <= n THEN f[A]
                     ELSE F[CHOOSE e \in A : TRUE] + f[A \ {CHOOSE e \in A : TRUE}]]
  <2>2. g \in [SUBSET U -> Nat]
    <3>1. ASSUME NEW A \in SUBSET U, ~(Cardinality(A) <= n)
          PROVE  F[CHOOSE e \in A : TRUE] + f[A \ {CHOOSE e \in A : TRUE}] \in Nat
      <4>1. A # {} BY <3>1, <1>1
      <4>2. PICK c \in U : c = CHOOSE e \in A : TRUE BY <4>1, <1>1
      <4>3. F[c] \in Nat /\ f[A \ {c}] \in Nat OBVIOUS
      <4> QED BY <4>2, <4>3
    <3> QED BY <3>1
  <2>3. ASSUME NEW A \in SUBSET U, Cardinality(A) <= n + 1 PROVE Goes(F, g, A)
    <3>1. CASE A = {}
      <4>1. Cardinality(A) <= n BY <3>1, <1>1
      <4>2. g[A] = f[A] /\ Goes(F, f, A) BY <4>1, <2>1
      <4> QED BY <4>2, <3>1 DEF Goes
    <3>2. CASE A # {}
      <4>1. PICK c \in A : c = CHOOSE e \in A : TRUE BY <3>2, <1>1
      <4>2. Cardinality(A \ {c}) <= n BY <4>1, <3>2, <2>3, <1>1
      <4>3. g[A \ {c}] = f[A \ {c}] BY <4>2
      <4>4. g[A] = F[c] + f[A \ {c}]
        <5>1. CASE Cardinality(A) <= n
          <6>1. g[A] = f[A] /\ Goes(F, f, A) BY <5>1, <2>1
          <6> QED BY <6>1, <4>1, <3>2 DEF Goes
        <5>2. CASE ~(Cardinality(A) <= n) BY <5>2, <4>1
        <5> QED BY <5>1, <5>2
      <4> HIDE DEF g
      <4> QED BY <4>1, <4>3, <4>4, <3>2 DEF Goes
    <3> QED BY <3>1, <3>2
  <2> HIDE DEF g
  <2> QED BY <2>2, <2>3
<1> HIDE DEF N
<1>4. \A n \in Nat : n \in N
  <2>1. N \in SUBSET Nat BY DEF N
  <2> QED BY <1>2, <1>3, <2>1, EveryNumber
<1>5. PICK n \in Nat : n = Cardinality(U) BY <1>1
<1>6. PICK g \in [SUBSET U -> Nat] : \A A \in SUBSET U : Cardinality(A) <= n => Goes(F, g, A)
  <2>1. n \in N BY <1>4
  <2> QED BY <2>1 DEF N
<1>7. \A A \in SUBSET U : Cardinality(A) <= n BY <1>5, FS_Subset
<1> QED BY <1>6, <1>7 DEF Sums

(* The order does not matter. *)
LEMMA SumOfMore ==
    ASSUME NEW U, IsFiniteSet(U), NEW F \in [U -> Nat], NEW g, Sums(F, U, g)
    PROVE  \A A \in SUBSET U : \A e \in U : e \notin A => g[A \cup {e}] = g[A] + F[e]
<1> DEFINE W == {A \in SUBSET U : \A e \in U : e \notin A => g[A \cup {e}] = g[A] + F[e]}
<1>1. ASSUME NEW A \in SUBSET U,
             \A B \in SUBSET U : Cardinality(B) < Cardinality(A) => B \in W
      PROVE  A \in W
  <2> SUFFICES ASSUME NEW e \in U, e \notin A PROVE g[A \cup {e}] = g[A] + F[e]
    OBVIOUS
  <2>1. PICK B \in SUBSET U : B = A \cup {e} OBVIOUS
  <2>2. PICK c \in B : c = CHOOSE z \in B : TRUE BY <2>1
  <2>3. g[B] = F[c] + g[B \ {c}] BY <2>1, <2>2 DEF Sums, Goes
  <2>4. g \in [SUBSET U -> Nat] BY DEF Sums
  <2>5. CASE c = e
    <3>1. B \ {c} = A BY <2>1, <2>5
    <3>2. PICK m, n \in Nat : m = g[A] /\ n = F[e] BY <2>4
    <3>3. g[B] = n + m BY <3>1, <3>2, <2>3, <2>5
    <3> QED BY <3>2, <3>3, <2>1
  <2>6. CASE c # e
    <3>1. c \in A /\ c \in U BY <2>1, <2>2, <2>6
    <3>2. PICK C \in SUBSET U : C = A \ {c} OBVIOUS
    <3>3. Cardinality(C) < Cardinality(A) BY <3>1, <3>2, FiniteSubsets
    <3>4. C \in W BY <3>3, <1>1
    <3>5. e \notin C /\ c \notin C /\ C \cup {c} = A /\ B \ {c} = C \cup {e}
      BY <2>1, <2>6, <3>1, <3>2
    <3>6. g[C \cup {e}] = g[C] + F[e] /\ g[C \cup {c}] = g[C] + F[c]
      BY <3>1, <3>4, <3>5
    <3>7. g[C] \in Nat /\ F[e] \in Nat /\ F[c] \in Nat BY <2>4, <3>1
    <3>8. g[B] = F[c] + (g[C] + F[e]) BY <2>3, <3>5, <3>6
    <3>9. g[A] = g[C] + F[c] BY <3>5, <3>6
    <3> QED BY <3>7, <3>8, <3>9, <2>1
  <2> QED BY <2>5, <2>6
<1> HIDE DEF W
<1>2. \A A \in SUBSET U : A \in W BY <1>1, EverySubset
<1> QED BY <1>2 DEF W

LEMMA SumOfBoth ==
    ASSUME NEW U, IsFiniteSet(U), NEW F \in [U -> Nat], NEW g, Sums(F, U, g),
           NEW A \in SUBSET U
    PROVE  \A B \in SUBSET U : A \cap B = {} => g[A \cup B] = g[A] + g[B]
<1> DEFINE W == {B \in SUBSET U : A \cap B = {} => g[A \cup B] = g[A] + g[B]}
<1>1. g \in [SUBSET U -> Nat] BY DEF Sums
<1>2. ASSUME NEW B \in SUBSET U,
             \A C \in SUBSET U : Cardinality(C) < Cardinality(B) => C \in W
      PROVE  B \in W
  <2> SUFFICES ASSUME A \cap B = {} PROVE g[A \cup B] = g[A] + g[B] OBVIOUS
  <2>1. CASE B = {}
    <3>1. A \cup B = A /\ g[B] = 0 BY <2>1 DEF Sums, Goes
    <3>2. PICK m \in Nat : m = g[A] BY <1>1
    <3>3. g[A \cup B] = m BY <3>1, <3>2
    <3>4. m = m + 0 OBVIOUS
    <3> QED BY <3>1, <3>2, <3>3, <3>4
  <2>2. CASE B # {}
    <3>1. PICK c \in B : TRUE BY <2>2
    <3>2. PICK C \in SUBSET U : C = B \ {c} OBVIOUS
    <3>3. Cardinality(C) < Cardinality(B) BY <3>1, <3>2, FiniteSubsets
    <3>4. g[A \cup C] = g[A] + g[C] BY <3>2, <3>3, <1>2
    <3>5. c \in U /\ c \notin C /\ c \notin A \cup C /\ C \cup {c} = B
          /\ (A \cup C) \cup {c} = A \cup B /\ A \cup C \in SUBSET U
      BY <3>1, <3>2
    <3>6. g[B] = g[C] + F[c] BY <3>5, SumOfMore
    <3>7. g[A \cup B] = g[A \cup C] + F[c]
      <4>1. PICK D \in SUBSET U : D = A \cup C BY <3>5
      <4>2. c \in U /\ c \notin D /\ D \cup {c} = A \cup B BY <4>1, <3>5
      <4>3. g[D \cup {c}] = g[D] + F[c] BY <4>2, SumOfMore
      <4> QED BY <4>1, <4>2, <4>3
    <3>8. g[A] \in Nat /\ g[C] \in Nat /\ F[c] \in Nat BY <3>5, <1>1
    <3> QED BY <3>4, <3>6, <3>7, <3>8
  <2> QED BY <2>1, <2>2
<1> HIDE DEF W
<1>3. \A B \in SUBSET U : B \in W BY <1>2, EverySubset
<1> QED BY <1>3 DEF W

(* What recursion over the subsets of S alone computes. *)
LEMMA SumIsUnique ==
    ASSUME NEW U, IsFiniteSet(U), NEW F, NEW g, Sums(F, U, g),
           NEW S \in SUBSET U, NEW h, \A A \in SUBSET S : Goes(F, h, A)
    PROVE  h[S] = g[S]
<1> DEFINE W == {A \in SUBSET S : h[A] = g[A]}
<1>1. IsFiniteSet(S) BY FS_Subset
<1>2. ASSUME NEW A \in SUBSET S,
             \A B \in SUBSET S : Cardinality(B) < Cardinality(A) => B \in W
      PROVE  A \in W
  <2>1. Goes(F, h, A) /\ Goes(F, g, A) BY DEF Sums
  <2>2. CASE A = {} BY <2>1, <2>2 DEF Goes
  <2>3. CASE A # {}
    <3>1. PICK c \in A : c = CHOOSE e \in A : TRUE BY <2>3
    <3>2. PICK B \in SUBSET S : B = A \ {c} OBVIOUS
    <3>3. Cardinality(B) < Cardinality(A) BY <3>1, <3>2, <1>1, FiniteSubsets
    <3>4. h[B] = g[B] BY <3>3, <1>2
    <3>5. h[A] = F[c] + h[B] /\ g[A] = F[c] + g[B] BY <2>1, <2>3, <3>1, <3>2 DEF Goes
    <3> QED BY <3>4, <3>5
  <2> QED BY <2>2, <2>3
<1> HIDE DEF W
<1>3. \A A \in SUBSET S : A \in W BY <1>1, <1>2, EverySubset
<1>4. S \in W BY <1>3
<1> QED BY <1>4 DEF W

(* Some sum of F over subsets of U: they all agree. *)
SumOf(F, U) == CHOOSE g : Sums(F, U, g)

LEMMA SumOfSums ==
    ASSUME NEW U, IsFiniteSet(U), NEW F \in [U -> Nat]
    PROVE  /\ Sums(F, U, SumOf(F, U))
           /\ SumOf(F, U) \in [SUBSET U -> Nat]
           /\ SumOf(F, U)[{}] = 0
<1>1. Sums(F, U, SumOf(F, U)) BY SumExists DEF SumOf
<1>2. Goes(F, SumOf(F, U), {}) BY <1>1 DEF Sums
<1> QED BY <1>1, <1>2 DEF Sums, Goes

LEMMA SumOfOneMore ==
    ASSUME NEW U, IsFiniteSet(U), NEW F \in [U -> Nat],
           NEW A \in SUBSET U, NEW e \in U, e \notin A
    PROVE  SumOf(F, U)[A \cup {e}] = SumOf(F, U)[A] + F[e]
<1>1. PICK g : g = SumOf(F, U) /\ Sums(F, U, g) BY SumOfSums
<1>2. g[A \cup {e}] = g[A] + F[e] BY <1>1, SumOfMore
<1> QED BY <1>1, <1>2

LEMMA SumOfUnion ==
    ASSUME NEW U, IsFiniteSet(U), NEW F \in [U -> Nat],
           NEW A \in SUBSET U, NEW B \in SUBSET U, A \cap B = {}
    PROVE  SumOf(F, U)[A \cup B] = SumOf(F, U)[A] + SumOf(F, U)[B]
<1>1. PICK g : g = SumOf(F, U) /\ Sums(F, U, g) BY SumOfSums
<1>2. g[A \cup B] = g[A] + g[B] BY <1>1, SumOfBoth
<1> QED BY <1>1, <1>2

(* The sums that the library's fold takes: of coordinates and of areas. *)
Folding(F, S, h) ==
    h = [A \in SUBSET S |->
           IF A = {} THEN 0
           ELSE F[CHOOSE e \in A : TRUE] + h[A \ {CHOOSE e \in A : TRUE}]]

LEMMA FoldingIsSum ==
    ASSUME NEW U, IsFiniteSet(U), NEW F \in [U -> Nat], NEW S \in SUBSET U,
           NEW h, Folding(F, S, h)
    PROVE  h[S] = SumOf(F, U)[S]
<1>1. \A A \in SUBSET S : Goes(F, h, A)
  <2> TAKE A \in SUBSET S
  <2>1. h[A] = IF A = {} THEN 0
               ELSE F[CHOOSE e \in A : TRUE] + h[A \ {CHOOSE e \in A : TRUE}]
    BY DEF Folding
  <2> QED BY <2>1 DEF Goes
<1>2. Sums(F, U, SumOf(F, U)) BY SumOfSums
<1> QED BY <1>1, <1>2, SumIsUnique

LEMMA FoldingExists ==
    ASSUME NEW U, IsFiniteSet(U), NEW F \in [U -> Nat], NEW S \in SUBSET U
    PROVE  \E h : Folding(F, S, h)
<1>1. PICK g : g = SumOf(F, U) /\ Sums(F, U, g) BY SumOfSums
<1> DEFINE h == [A \in SUBSET S |-> g[A]]
<1>2. ASSUME NEW A \in SUBSET S
      PROVE  g[A] = IF A = {} THEN 0
                    ELSE F[CHOOSE e \in A : TRUE] + h[A \ {CHOOSE e \in A : TRUE}]
  <2>1. Goes(F, g, A) BY <1>1 DEF Sums
  <2>2. PICK B \in SUBSET S : B = A \ {CHOOSE e \in A : TRUE} OBVIOUS
  <2>3. h[B] = g[B] OBVIOUS
  <2> HIDE DEF h
  <2> QED BY <2>1, <2>2, <2>3 DEF Goes
<1>3. Folding(F, S, h)
  BY <1>2 DEF Folding
<1> QED BY <1>3

LEMMA SumOfX ==
    ASSUME NEW U, IsFiniteSet(U), NEW F \in [U -> Nat], NEW S \in SUBSET U,
           \A q \in U : F[q] = q[1]
    PROVE  MapThenSumSet(LAMBDA q : q[1], S) = SumOf(F, U)[S]
<1> DEFINE Step(h) == [A \in SUBSET S |->
                         IF A = {} THEN 0
                         ELSE (CHOOSE e \in A : TRUE)[1] + h[A \ {CHOOSE e \in A : TRUE}]]
<1>1. ASSUME NEW h PROVE h = Step(h) <=> Folding(F, S, h)
  <2>1. ASSUME NEW A \in SUBSET S, A # {}
        PROVE  (CHOOSE e \in A : TRUE)[1] = F[CHOOSE e \in A : TRUE]
    <3>1. (CHOOSE e \in A : TRUE) \in U BY <2>1
    <3> QED BY <3>1
  <2> QED BY <2>1 DEF Folding
<1>2. MapThenSumSet(LAMBDA q : q[1], S) = (CHOOSE h : h = Step(h))[S]
  BY DEF MapThenSumSet, MapThenFoldSet
<1>3. \E h : Folding(F, S, h) BY FoldingExists
<1> HIDE DEF Step
<1>4. PICK h : h = CHOOSE g : g = Step(g) OBVIOUS
<1>5. Folding(F, S, h) BY <1>1, <1>3, <1>4
<1>6. h[S] = SumOf(F, U)[S] BY <1>5, FoldingIsSum
<1> QED BY <1>2, <1>4, <1>6

LEMMA SumOfY ==
    ASSUME NEW U, IsFiniteSet(U), NEW F \in [U -> Nat], NEW S \in SUBSET U,
           \A q \in U : F[q] = q[2]
    PROVE  MapThenSumSet(LAMBDA q : q[2], S) = SumOf(F, U)[S]
<1> DEFINE Step(h) == [A \in SUBSET S |->
                         IF A = {} THEN 0
                         ELSE (CHOOSE e \in A : TRUE)[2] + h[A \ {CHOOSE e \in A : TRUE}]]
<1>1. ASSUME NEW h PROVE h = Step(h) <=> Folding(F, S, h)
  <2>1. ASSUME NEW A \in SUBSET S, A # {}
        PROVE  (CHOOSE e \in A : TRUE)[2] = F[CHOOSE e \in A : TRUE]
    <3>1. (CHOOSE e \in A : TRUE) \in U BY <2>1
    <3> QED BY <3>1
  <2> QED BY <2>1 DEF Folding
<1>2. MapThenSumSet(LAMBDA q : q[2], S) = (CHOOSE h : h = Step(h))[S]
  BY DEF MapThenSumSet, MapThenFoldSet
<1>3. \E h : Folding(F, S, h) BY FoldingExists
<1> HIDE DEF Step
<1>4. PICK h : h = CHOOSE g : g = Step(g) OBVIOUS
<1>5. Folding(F, S, h) BY <1>1, <1>3, <1>4
<1>6. h[S] = SumOf(F, U)[S] BY <1>5, FoldingIsSum
<1> QED BY <1>2, <1>4, <1>6

LEMMA SumOfAreas ==
    ASSUME NEW U, IsFiniteSet(U), NEW F \in [U -> Nat], NEW S \in SUBSET U,
           \A q \in U : F[q] = regions[q].area
    PROVE  MapThenSumSet(LAMBDA q : regions[q].area, S) = SumOf(F, U)[S]
<1> DEFINE Step(h) == [A \in SUBSET S |->
                         IF A = {} THEN 0
                         ELSE regions[CHOOSE e \in A : TRUE].area + h[A \ {CHOOSE e \in A : TRUE}]]
<1>1. ASSUME NEW h PROVE h = Step(h) <=> Folding(F, S, h)
  <2>1. ASSUME NEW A \in SUBSET S, A # {}
        PROVE  regions[CHOOSE e \in A : TRUE].area = F[CHOOSE e \in A : TRUE]
    <3>1. (CHOOSE e \in A : TRUE) \in U BY <2>1
    <3> QED BY <3>1
  <2> QED BY <2>1 DEF Folding
<1>2. MapThenSumSet(LAMBDA q : regions[q].area, S) = (CHOOSE h : h = Step(h))[S]
  BY DEF MapThenSumSet, MapThenFoldSet
<1>3. \E h : Folding(F, S, h) BY FoldingExists
<1> HIDE DEF Step
<1>4. PICK h : h = CHOOSE g : g = Step(g) OBVIOUS
<1>5. Folding(F, S, h) BY <1>1, <1>3, <1>4
<1>6. h[S] = SumOf(F, U)[S] BY <1>5, FoldingIsSum
<1> QED BY <1>2, <1>4, <1>6

-----------------------------------------------------------------------------
(* What a run adds to the sums of its region. *)

XOf == [q \in Pixels |-> q[1]]
YOf == [q \in Pixels |-> q[2]]
Row(from, n, b) == (from..from+n-1) \X {b}

LEMMA PixelsAreFinite ==
    ASSUME Sizes
    PROVE  /\ IsFiniteSet(Pixels)
           /\ XOf \in [Pixels -> Nat] /\ YOf \in [Pixels -> Nat]
           /\ \A a, b : <<a, b>> \in Pixels => XOf[<<a, b>>] = a /\ YOf[<<a, b>>] = b
<1>1. IsFiniteSet(Pixels) BY ImageIsFinite
<1>2. \A q \in Pixels : q[1] \in Nat /\ q[2] \in Nat BY DEF Pixels, Sizes
<1> QED BY <1>1, <1>2 DEF XOf, YOf

LEMMA HalfOfMore ==
    ASSUME NEW m \in Int, NEW n \in Int
    PROVE  (m + 2 * n) \div 2 = (m \div 2) + n
OBVIOUS

LEMMA RangeSums ==
    ASSUME NEW from \in Nat, NEW n \in Nat
    PROVE  /\ rangeSum(from, 0) = 0
           /\ rangeSum(from, n) \in Int
           /\ rangeSum(from, n + 1) = rangeSum(from, n) + (from + n)
<1>1. (0 * (2 * from + 0 - 1)) = 0 OBVIOUS
<1>2. rangeSum(from, 0) = 0 BY <1>1 DEF rangeSum
<1>3. PICK m \in Int : m = n * (2 * from + n - 1) OBVIOUS
<1>4. (n + 1) * (2 * from + (n + 1) - 1) = m + 2 * (from + n) BY <1>3
<1>5. (m + 2 * (from + n)) \div 2 = (m \div 2) + (from + n)
  <2>1. from + n \in Int OBVIOUS
  <2> QED BY <2>1, HalfOfMore
<1>6. m \div 2 \in Int OBVIOUS
<1> QED BY <1>2, <1>3, <1>4, <1>5, <1>6 DEF rangeSum

LEMMA RowGrows ==
    ASSUME NEW from \in Nat, NEW n \in Nat, NEW b
    PROVE  /\ Row(from, 0, b) = {}
           /\ Row(from, n + 1, b) = Row(from, n, b) \cup {<<from + n, b>>}
           /\ <<from + n, b>> \notin Row(from, n, b)
<1>1. from..from+0-1 = {} OBVIOUS
<1>2. from..from+(n+1)-1 = (from..from+n-1) \cup {from + n} OBVIOUS
<1>3. from + n \notin from..from+n-1 OBVIOUS
<1>4. PICK old, new, last : /\ old = from..from+n-1 /\ new = from..from+(n+1)-1
                            /\ last = from + n
  OBVIOUS
<1>5. new = old \cup {last} /\ last \notin old BY <1>2, <1>3, <1>4
<1>6. new \X {b} = (old \X {b}) \cup {<<last, b>>} /\ <<last, b>> \notin old \X {b}
  BY <1>5
<1>7. {} \X {b} = {} OBVIOUS
<1> QED BY <1>1, <1>4, <1>6, <1>7 DEF Row

LEMMA RowSums ==
    ASSUME Sizes, NEW from \in Nat, NEW b \in Nat
    PROVE  \A n \in Nat : Row(from, n, b) \in SUBSET Pixels =>
             /\ Cardinality(Row(from, n, b)) = n
             /\ SumOf(XOf, Pixels)[Row(from, n, b)] = rangeSum(from, n)
             /\ SumOf(YOf, Pixels)[Row(from, n, b)] = b * n
<1> DEFINE Good(n) == Row(from, n, b) \in SUBSET Pixels =>
                        /\ Cardinality(Row(from, n, b)) = n
                        /\ SumOf(XOf, Pixels)[Row(from, n, b)] = rangeSum(from, n)
                        /\ SumOf(YOf, Pixels)[Row(from, n, b)] = b * n
           N == {n \in Nat : Good(n)}
<1>1. 0 \in N
  <2>1. Row(from, 0, b) = {} BY RowGrows
  <2>2. Cardinality({}) = 0 BY FS_EmptySet
  <2>3. SumOf(XOf, Pixels)[{}] = 0 /\ SumOf(YOf, Pixels)[{}] = 0
    BY PixelsAreFinite, SumOfSums
  <2>4. b * 0 = 0 OBVIOUS
  <2>5. rangeSum(from, 0) = 0 BY RangeSums
  <2> QED BY <2>1, <2>2, <2>3, <2>4, <2>5
<1>2. ASSUME NEW n \in N PROVE n + 1 \in N
  <2> SUFFICES ASSUME Row(from, n + 1, b) \in SUBSET Pixels PROVE Good(n + 1) OBVIOUS
  <2>1. PICK R, q, last : /\ R = Row(from, n, b) /\ q = <<last, b>> /\ last = from + n
    OBVIOUS
  <2>2. Row(from, n + 1, b) = R \cup {q} /\ q \notin R BY <2>1, RowGrows
  <2>3. R \in SUBSET Pixels /\ q \in Pixels BY <2>2
  <2>4. /\ Cardinality(R) = n
        /\ SumOf(XOf, Pixels)[R] = rangeSum(from, n)
        /\ SumOf(YOf, Pixels)[R] = b * n
    BY <2>1, <2>3
  <2>5. IsFiniteSet(Pixels) /\ XOf \in [Pixels -> Nat] /\ YOf \in [Pixels -> Nat]
        /\ XOf[q] = last /\ YOf[q] = b
    BY <2>1, <2>3, PixelsAreFinite
  <2>6. Cardinality(R \cup {q}) = n + 1
    <3>1. IsFiniteSet(R) BY <2>3, <2>5, FS_Subset
    <3> QED BY <3>1, <2>2, <2>4, FS_AddElement
  <2>m. /\ IsFiniteSet(Pixels) /\ XOf \in [Pixels -> Nat] /\ YOf \in [Pixels -> Nat]
        /\ R \in SUBSET Pixels /\ q \in Pixels /\ q \notin R
    BY <2>2, <2>3, <2>5
  <2>7. SumOf(XOf, Pixels)[R \cup {q}] = rangeSum(from, n) + last
    <3>1. SumOf(XOf, Pixels)[R \cup {q}] = SumOf(XOf, Pixels)[R] + XOf[q]
      BY <2>m, SumOfOneMore
    <3> QED BY <3>1, <2>4, <2>5
  <2>8. SumOf(YOf, Pixels)[R \cup {q}] = b * n + b
    <3>1. SumOf(YOf, Pixels)[R \cup {q}] = SumOf(YOf, Pixels)[R] + YOf[q]
      BY <2>m, SumOfOneMore
    <3> QED BY <3>1, <2>4, <2>5
  <2>9. b * (n + 1) = b * n + b OBVIOUS
  <2>10. rangeSum(from, n + 1) = rangeSum(from, n) + last BY <2>1, RangeSums
  <2> QED BY <2>2, <2>6, <2>7, <2>8, <2>9, <2>10
<1> HIDE DEF N
<1>3. \A n \in Nat : n \in N
  <2>1. N \in SUBSET Nat BY DEF N
  <2> QED BY <1>1, <1>2, <2>1, EveryNumber
<1> QED BY <1>3 DEF N

-----------------------------------------------------------------------------
(* Extraction puts the runs of one component, and no others, into one       *)
(* region: a run that is its own parent is the first of its component.      *)

Together ==
    \A k, m \in ColoredRuns : k < i /\ m < i => (parent[k] = parent[m] <=> Linked(k, m))

Grouped ==
    WholeImage =>
      /\ pc = "extract" =>
           /\ Together
           /\ \A k \in ColoredRuns : k >= i =>
                /\ parent[k] \in ColoredRuns /\ Linked(k, parent[k])
                /\ parent[k] = k => \A m \in ColoredRuns : Linked(k, m) => k <= m
      /\ pc = "separate" /\ ~full => Together /\ i = num /\ Numbered

LEMMA TreesAreGroups ==
    ASSUME IInv, OneColor, PInv, pc = "extract", i = 0
    PROVE  Grouped
<1> SUFFICES ASSUME ConnectingDone PROVE Grouped BY DEF Grouped, ConnectingDone
<1>1. WholeImage /\ Drawn BY DEF ConnectingDone, PInv
<1>2. ColoredRuns \subseteq Nat BY DEF ColoredRuns
<1>3. Together BY <1>2 DEF Together
<1>4. ASSUME NEW k \in ColoredRuns, parent[k] = k, NEW m \in ColoredRuns, Linked(k, m)
      PROVE  k <= m
  <2>1. PICK G : G = {c \in ColoredRuns : parent[c] = k} OBVIOUS
  <2>2. Complete(G) /\ k \in G BY <2>1, <1>4, TreesAreComplete
  <2>3. PixelsOf(G) \in SUBSET Pixels /\ NearClosed(PixelsOf(G)) /\ FirstOf(k) \in PixelsOf(G)
    BY <1>1, <2>2, GroupIsClosed
  <2>4. FirstOf(m) \in PixelsOf(G) BY <2>3, <1>4 DEF Linked, Connected
  <2>5. m \in G BY <1>1, <2>2, <2>4, GroupIsClosed
  <2> QED BY <2>1, <2>5, TreesAreComplete
<1> QED BY <1>3, <1>4, TreesAreComplete DEF Grouped

LEMMA ExtractingKeepsGroups ==
    ASSUME IInv, CInv, Grouped, ExtractStep
    PROVE  Grouped'
<1>1. /\ pc = "extract" /\ UNCHANGED <<image, x, y, num, runs>>
      /\ pc' \in {"extract", "separate"}
  BY DEF ExtractStep, SkipClear, StartRegion, ExtendRegion, FinishRegions, Extracting, readVars
<1>2. /\ ColoredRuns' = ColoredRuns /\ WholeImage' = WholeImage
      /\ \A a, b : Linked(a, b)' <=> Linked(a, b)
  BY <1>1, LinksStay DEF ColoredRuns, WholeImage
<1>3. /\ num \in Nat /\ i \in 0..num /\ parent \in [0..num-1 -> Nat]
      /\ \A k \in 0..num-1 : parent[k] <= k
      /\ Numbered /\ Len(regions) \in Nat
  BY <1>1, Extraction
<1>4. ColoredRuns \subseteq 0..num-1 BY DEF ColoredRuns
<1> SUFFICES ASSUME WholeImage PROVE Grouped' BY <1>2 DEF Grouped
<1>5. /\ Together
      /\ \A k \in ColoredRuns : k >= i =>
           /\ parent[k] \in ColoredRuns /\ Linked(k, parent[k])
           /\ parent[k] = k => \A m \in ColoredRuns : Linked(k, m) => k <= m
  BY <1>1 DEF Grouped
<1>6. CASE SkipClear
  <2>1. i < num /\ runs[i].color = 0 /\ i' = i + 1 /\ parent' = parent /\ pc' = "extract"
    BY <1>6 DEF SkipClear, Extracting
  <2>2. i \notin ColoredRuns BY <2>1 DEF ColoredRuns
  <2>3. \A k \in ColoredRuns : k < i' <=> k < i BY <2>1, <2>2, <1>3, <1>4
  <2>4. \A k \in ColoredRuns : k >= i' => k >= i BY <2>1, <1>3, <1>4
  <2>5. Together' BY <1>2, <1>5, <2>1, <2>3 DEF Together
  <2> QED BY <1>2, <1>5, <2>1, <2>4, <2>5 DEF Grouped
<1>7. CASE FinishRegions
  <2>1. i >= num /\ UNCHANGED <<i, parent>> /\ pc' = "separate"
        /\ regions' = [b \in DOMAIN regions |-> Finished(regions[b])]
    BY <1>7 DEF FinishRegions
  <2>2. i = num BY <2>1, <1>3
  <2>3. Together' BY <1>2, <1>5, <2>1 DEF Together
  <2>4. Len(regions') = Len(regions)
    <3>1. PICK S : regions \in Seq(S) BY DEF IInv, Counting
    <3>2. PICK n \in Nat : n = Len(regions) /\ DOMAIN regions = 1..n BY <3>1
    <3>3. regions' = [b \in 1..n |-> Finished(regions[b])] BY <2>1, <3>2
    <3>4. Len(regions') = n BY <3>3
    <3> QED BY <3>2, <3>4
  <2>5. Numbered' BY <1>2, <1>3, <2>1, <2>4 DEF Numbered
  <2> QED BY <1>1, <2>1, <2>2, <2>3, <2>5 DEF Grouped
<1>8. CASE StartRegion \/ ExtendRegion
  <2>1. /\ i < num /\ i \in ColoredRuns /\ i' = i + 1
        /\ pc' = "separate" => full'
    BY <1>3, <1>8 DEF StartRegion, ExtendRegion, Extracting, ColoredRuns
  <2>2. i \in 0..num-1 /\ i \in Nat BY <1>3, <2>1
  <2>3. /\ \A k \in ColoredRuns : k < i' <=> k < i \/ k = i
        /\ \A k \in ColoredRuns : k >= i' => k >= i /\ k # i
        /\ \A k \in ColoredRuns : k < i => k # i
    BY <1>4, <2>1, <2>2
  <2>4. \A k \in 0..num-1 : k # i => parent'[k] = parent[k]
    BY <1>3, <1>8 DEF StartRegion, ExtendRegion
  <2>5. ASSUME NEW m \in ColoredRuns, m < i
        PROVE  parent'[i] = parent[m] <=> Linked(i, m)
    <3>1. CASE StartRegion
      <4>1. parent[i] = i /\ parent' = [parent EXCEPT ![i] = Len(regions)]
        BY <3>1 DEF StartRegion, IsRoot
      <4>2. parent'[i] = Len(regions) BY <4>1, <1>3, <2>2
      <4>3. PICK p, c \in Nat : p = parent[m] /\ c = Len(regions) /\ p < c
        BY <1>3, <1>4, <2>5 DEF Numbered
      <4>4. parent'[i] # parent[m] BY <4>2, <4>3
      <4>5. m \in Nat /\ ~(i <= m) BY <1>4, <2>2, <2>5
      <4>6. i >= i BY <2>2
      <4>7. ~Linked(i, m) BY <1>5, <2>1, <4>1, <4>5, <4>6
      <4> QED BY <4>4, <4>7
    <3>2. CASE ExtendRegion
      <4>1. parent[i] # i /\ parent' = [parent EXCEPT ![i] = parent[parent[i]]]
        BY <3>2 DEF ExtendRegion, IsRoot
      <4>2. i >= i BY <2>2
      <4>3. PICK p \in ColoredRuns : p = parent[i] /\ Linked(i, p)
        BY <1>5, <2>1, <4>2
      <4>4. p < i
        <5>1. p \in Nat /\ p <= i /\ p # i BY <1>3, <2>2, <4>1, <4>3
        <5> QED BY <5>1, <2>2
      <4>5. parent'[i] = parent[p] BY <4>1, <4>3, <1>3, <2>2
      <4>6. parent[p] = parent[m] <=> Linked(p, m) BY <1>5, <4>4, <2>5 DEF Together
      <4>7. Linked(p, m) <=> Linked(i, m) BY <4>3, LinkedIsEquivalence
      <4> QED BY <4>5, <4>6, <4>7
    <3> QED BY <1>8, <3>1, <3>2
  <2>6. ASSUME NEW k \in ColoredRuns, NEW m \in ColoredRuns, k < i', m < i'
        PROVE  parent'[k] = parent'[m] <=> Linked(k, m)
    <3>1. CASE k = i /\ m = i BY <3>1, LinkedIsEquivalence
    <3>2. CASE k = i /\ m # i
      <4>1. m < i /\ parent'[m] = parent[m] BY <2>3, <2>4, <2>6, <3>2, <1>4
      <4> QED BY <2>5, <3>2, <4>1
    <3>3. CASE k # i /\ m = i
      <4>1. k < i /\ parent'[k] = parent[k] BY <2>3, <2>4, <2>6, <3>3, <1>4
      <4>2. Linked(k, i) <=> Linked(i, k) BY LinkedIsEquivalence
      <4> QED BY <2>5, <3>3, <4>1, <4>2
    <3>4. CASE k # i /\ m # i
      <4>1. k < i /\ m < i /\ parent'[k] = parent[k] /\ parent'[m] = parent[m]
        BY <2>3, <2>4, <2>6, <3>4, <1>4
      <4> QED BY <1>5, <4>1 DEF Together
    <3> QED BY <3>1, <3>2, <3>3, <3>4
  <2>7. Together' BY <1>2, <2>6 DEF Together
  <2>8. ASSUME NEW k \in ColoredRuns, k >= i'
        PROVE  /\ parent'[k] \in ColoredRuns /\ Linked(k, parent'[k])
               /\ parent'[k] = k => \A m \in ColoredRuns : Linked(k, m) => k <= m
    <3>1. k >= i /\ parent'[k] = parent[k] BY <2>3, <2>4, <2>8, <1>4
    <3> QED BY <3>1, <1>5
  <2> QED BY <1>1, <1>2, <2>1, <2>7, <2>8 DEF Grouped
<1> QED BY <1>6, <1>7, <1>8 DEF ExtractStep

-----------------------------------------------------------------------------
(* What a region says of its pixels.  While it grows, its right edge is one *)
(* past the last column and its centroids are plain sums.                   *)

Fields == {"color", "area", "x1", "y1", "x2", "y2", "cen_x", "cen_y"}

Bounds(g, P, past) ==
    /\ (\E q \in P : g.x1 = q[1]) /\ \A q \in P : g.x1 <= q[1]
    /\ (\E q \in P : g.y1 = q[2]) /\ \A q \in P : g.y1 <= q[2]
    /\ (\E q \in P : g.x2 = q[1] + past) /\ \A q \in P : q[1] + past <= g.x2
    /\ (\E q \in P : g.y2 = q[2]) /\ \A q \in P : q[2] <= g.y2

Measures(g, P, past, n) ==
    /\ Fields \subseteq DOMAIN g
    /\ g.area = Cardinality(P)
    /\ \A q \in P : PixelColor(q) = g.color
    /\ Bounds(g, P, past)
    /\ g.cen_x = <<SumOf(XOf, Pixels)[P], n>>
    /\ g.cen_y = <<SumOf(YOf, Pixels)[P], n>>

LEMMA RunIsMeasured ==
    ASSUME IInv, Drawn, NEW k \in ColoredRuns, NEW r, r = runs[k], NEW P, P = PixelsOfRun(k)
    PROVE  /\ r.x \in Nat /\ r.y \in Nat /\ r.width \in Nat
           /\ P \in SUBSET Pixels /\ Cardinality(P) = r.width
           /\ SumOf(XOf, Pixels)[P] = rangeSum(r.x, r.width)
           /\ SumOf(YOf, Pixels)[P] = r.y * r.width
           /\ \A q \in P : PixelColor(q) = r.color /\ q[2] = r.y
                           /\ q[1] \in Nat /\ r.x <= q[1] /\ q[1] + 1 <= r.x + r.width
           /\ \E q \in P : q[1] = r.x
           /\ \E q \in P : q[1] + 1 = r.x + r.width
<1>1. k \in 0..num-1 /\ Sizes BY ColoredRunsAreRuns DEF IInv
<1>2. /\ r.x \in Nat /\ r.y \in Nat /\ r.width \in Nat /\ End(k) = r.x + r.width
      /\ r.x < End(k)
  BY <1>1, <1>1 DEF IInv, Runs, End, Drawn, DrawnRun
<1>3. \A q : q \in P <=> \E a, b \in Nat : q = <<a, b>> /\ Holds(k, a, b)
  BY <1>1, PixelsOfRunAreHeld
<1>4. \A a, b : Holds(k, a, b) <=> b = r.y /\ r.x <= a /\ a < r.x + r.width
  BY <1>2 DEF Holds
<1>5. P = Row(r.x, r.width, r.y) BY <1>2 DEF PixelsOfRun, Row
<1>6. ASSUME NEW q \in P
      PROVE  /\ q \in Pixels /\ PixelColor(q) = r.color /\ q[2] = r.y
             /\ q[1] \in Nat /\ r.x <= q[1] /\ q[1] + 1 <= r.x + r.width
  <2>1. PICK a, b \in Nat : q = <<a, b>> /\ Holds(k, a, b) BY <1>3
  <2>2. q \in Pixels /\ PixelColor(q) = r.color BY <2>1, RunsHoldPixels, PixelsArePairs
  <2>3. a + 1 <= r.x + r.width BY <2>1, <1>2, <1>4
  <2> QED BY <2>1, <2>2, <2>3, <1>4
<1>7. P \in SUBSET Pixels BY <1>6
<1>8. /\ Cardinality(P) = r.width
      /\ SumOf(XOf, Pixels)[P] = rangeSum(r.x, r.width)
      /\ SumOf(YOf, Pixels)[P] = r.y * r.width
  BY <1>1, <1>2, <1>5, <1>7, RowSums
<1>9. \E q \in P : q[1] = r.x
  <2>1. <<r.x, r.y>> \in P BY <1>2, <1>3, <1>4
  <2> QED BY <2>1
<1>10. \E q \in P : q[1] + 1 = r.x + r.width
  <2>1. PICK a \in Nat : a + 1 = r.x + r.width
    <3>1. r.x + r.width - 1 \in Nat BY <1>2
    <3> QED BY <3>1, <1>2
  <2>2. r.x <= a /\ a < r.x + r.width BY <2>1, <1>2
  <2>3. <<a, r.y>> \in P BY <2>2, <1>2, <1>3, <1>4
  <2> QED BY <2>1, <2>3
<1> QED BY <1>2, <1>6, <1>7, <1>8, <1>9, <1>10

LEMMA NewIsMeasured ==
    ASSUME IInv, Drawn, NEW k \in ColoredRuns
    PROVE  Measures(NewRegion(runs[k]), PixelsOfRun(k), 1, 1)
<1>1. PICK r, P, g : r = runs[k] /\ P = PixelsOfRun(k) /\ g = NewRegion(r) OBVIOUS
<1>2. /\ r.x \in Nat /\ r.y \in Nat /\ r.width \in Nat
      /\ Cardinality(P) = r.width
      /\ SumOf(XOf, Pixels)[P] = rangeSum(r.x, r.width)
      /\ SumOf(YOf, Pixels)[P] = r.y * r.width
      /\ \A q \in P : PixelColor(q) = r.color /\ q[2] = r.y
                      /\ q[1] \in Nat /\ r.x <= q[1] /\ q[1] + 1 <= r.x + r.width
      /\ \E q \in P : q[1] = r.x
      /\ \E q \in P : q[1] + 1 = r.x + r.width
  BY <1>1, RunIsMeasured
<1>3. Fields \subseteq DOMAIN g BY <1>1 DEF Fields, NewRegion
<1>4. /\ g.color = r.color /\ g.area = r.width
      /\ g.x1 = r.x /\ g.y1 = r.y /\ g.x2 = r.x + r.width /\ g.y2 = r.y
      /\ g.cen_x = <<rangeSum(r.x, r.width), 1>> /\ g.cen_y = <<r.y * r.width, 1>>
  BY <1>1 DEF NewRegion
<1>5. Bounds(g, P, 1)
  <2>1. \A q \in P : q[2] <= r.y /\ r.y <= q[2] BY <1>2
  <2> QED BY <2>1, <1>2, <1>4 DEF Bounds
<1> QED BY <1>1, <1>2, <1>3, <1>4, <1>5 DEF Measures

LEMMA GrownIsMeasured ==
    ASSUME IInv, Drawn, NEW k \in ColoredRuns, NEW g, NEW P \in SUBSET Pixels,
           Measures(g, P, 1, 1), P \cap PixelsOfRun(k) = {},
           g.color = runs[k].color, \A q \in P : q[2] <= runs[k].y
    PROVE  Measures(Grown(g, runs[k]), P \cup PixelsOfRun(k), 1, 1)
<1>1. PICK r, R, h : r = runs[k] /\ R = PixelsOfRun(k) /\ h = Grown(g, r) OBVIOUS
<1>2. /\ r.x \in Nat /\ r.y \in Nat /\ r.width \in Nat
      /\ R \in SUBSET Pixels /\ Cardinality(R) = r.width
      /\ SumOf(XOf, Pixels)[R] = rangeSum(r.x, r.width)
      /\ SumOf(YOf, Pixels)[R] = r.y * r.width
      /\ \A q \in R : PixelColor(q) = r.color /\ q[2] = r.y
                      /\ q[1] \in Nat /\ r.x <= q[1] /\ q[1] + 1 <= r.x + r.width
      /\ \E q \in R : q[1] = r.x
      /\ \E q \in R : q[1] + 1 = r.x + r.width
  BY <1>1, RunIsMeasured
<1>3. /\ Fields \subseteq DOMAIN g /\ g.area = Cardinality(P)
      /\ \A q \in P : PixelColor(q) = g.color
      /\ Bounds(g, P, 1)
      /\ g.cen_x = <<SumOf(XOf, Pixels)[P], 1>> /\ g.cen_y = <<SumOf(YOf, Pixels)[P], 1>>
  BY DEF Measures
<1>4. DOMAIN h = DOMAIN g BY <1>1 DEF Grown
<1>5. /\ h.color = g.color /\ h.area = g.area + r.width
      /\ h.x1 = Smaller(r.x, g.x1) /\ h.x2 = Larger(r.x + r.width, g.x2)
      /\ h.y1 = g.y1 /\ h.y2 = r.y
      /\ h.cen_x = AddToSum(g.cen_x, rangeSum(r.x, r.width))
      /\ h.cen_y = AddToSum(g.cen_y, r.y * r.width)
  BY <1>1, <1>3 DEF Grown, Fields
<1>6. IsFiniteSet(Pixels) /\ XOf \in [Pixels -> Nat] /\ YOf \in [Pixels -> Nat]
  BY PixelsAreFinite DEF IInv
<1>7. Cardinality(P \cup R) = g.area + r.width
  <2>1. IsFiniteSet(P) /\ IsFiniteSet(R) BY <1>2, <1>6, FS_Subset
  <2>2. Cardinality(P \cup R) = Cardinality(P) + Cardinality(R) - Cardinality(P \cap R)
    BY <2>1, FS_Union
  <2>3. Cardinality(P \cap R) = 0 BY <1>1, FS_EmptySet
  <2>4. PICK a, b \in Nat : a = Cardinality(P) /\ b = Cardinality(R)
    BY <2>1, FS_CardinalityType
  <2>5. Cardinality(P \cup R) = a + b BY <2>2, <2>3, <2>4
  <2> QED BY <2>4, <2>5, <1>2, <1>3
<1>8. SumOf(XOf, Pixels)[P \cup R] = SumOf(XOf, Pixels)[P] + rangeSum(r.x, r.width)
  <2>1. P \cap R = {} BY <1>1
  <2>2. SumOf(XOf, Pixels)[P \cup R] = SumOf(XOf, Pixels)[P] + SumOf(XOf, Pixels)[R]
    BY <2>1, <1>2, <1>6, SumOfUnion
  <2> QED BY <2>2, <1>2
<1>9. SumOf(YOf, Pixels)[P \cup R] = SumOf(YOf, Pixels)[P] + r.y * r.width
  <2>1. P \cap R = {} BY <1>1
  <2>2. SumOf(YOf, Pixels)[P \cup R] = SumOf(YOf, Pixels)[P] + SumOf(YOf, Pixels)[R]
    BY <2>1, <1>2, <1>6, SumOfUnion
  <2> QED BY <2>2, <1>2
<1>10. /\ h.cen_x = <<SumOf(XOf, Pixels)[P \cup R], 1>>
       /\ h.cen_y = <<SumOf(YOf, Pixels)[P \cup R], 1>>
  BY <1>3, <1>5, <1>8, <1>9 DEF AddToSum
<1>c. \A q \in P \cup R : PixelColor(q) = h.color BY <1>1, <1>2, <1>3, <1>5
<1>11. \A q \in P : q[1] \in Nat /\ q[2] \in Nat BY DEF Pixels, IInv, Sizes
<1>12. Bounds(h, P \cup R, 1)
  <2>1. PICK q \in P : g.x1 = q[1] BY <1>3 DEF Bounds
  <2>2. PICK v \in P : g.x2 = v[1] + 1 BY <1>3 DEF Bounds
  <2>3. PICK w \in P : g.y1 = w[2] BY <1>3 DEF Bounds
  <2>4. g.x1 \in Nat /\ g.x2 \in Nat /\ g.y1 \in Nat BY <2>1, <2>2, <2>3, <1>11
  <2>5. PICK lo \in R : lo[1] = r.x BY <1>2
  <2>6. PICK hi \in R : hi[1] + 1 = r.x + r.width BY <1>2
  <2>7. (\E z \in P \cup R : h.x1 = z[1]) /\ \A z \in P \cup R : h.x1 <= z[1]
    <3>1. (h.x1 = r.x /\ r.x < g.x1) \/ (h.x1 = g.x1 /\ g.x1 <= r.x)
      BY <1>2, <1>5, <2>4 DEF Smaller
    <3>2. \A z \in P : g.x1 <= z[1] BY <1>3 DEF Bounds
    <3> QED BY <3>1, <3>2, <2>1, <2>4, <2>5, <1>2, <1>11
  <2>8. (\E z \in P \cup R : h.x2 = z[1] + 1) /\ \A z \in P \cup R : z[1] + 1 <= h.x2
    <3>1. PICK e \in Nat : e = r.x + r.width BY <1>2
    <3>2. (h.x2 = e /\ g.x2 <= e) \/ (h.x2 = g.x2 /\ e < g.x2)
      BY <3>1, <1>5, <2>4 DEF Larger
    <3>3. \A z \in P : z[1] + 1 <= g.x2 BY <1>3 DEF Bounds
    <3>4. \A z \in R : z[1] + 1 <= e BY <3>1, <1>2
    <3> QED BY <3>1, <3>2, <3>3, <3>4, <2>2, <2>4, <2>6, <1>2, <1>11
  <2>9. (\E z \in P \cup R : h.y1 = z[2]) /\ \A z \in P \cup R : h.y1 <= z[2]
    <3>1. \A z \in P : g.y1 <= z[2] BY <1>3 DEF Bounds
    <3>2. g.y1 <= r.y BY <2>3, <1>1
    <3> QED BY <3>1, <3>2, <2>3, <1>2, <1>5
  <2>10. (\E z \in P \cup R : h.y2 = z[2]) /\ \A z \in P \cup R : z[2] <= h.y2
    <3>1. \A z \in P : z[2] <= r.y BY <1>1
    <3>2. \A z \in R : z[2] <= r.y BY <1>2
    <3> QED BY <3>1, <3>2, <2>5, <1>2, <1>5
  <2> QED BY <2>7, <2>8, <2>9, <2>10 DEF Bounds
<1> QED BY <1>1, <1>3, <1>4, <1>5, <1>7, <1>10, <1>c, <1>12 DEF Measures

LEMMA FinishedIsMeasured ==
    ASSUME NEW g, NEW P, Measures(g, P, 1, 1), P \in SUBSET Pixels, Sizes
    PROVE  Measures(Finished(g), P, 0, Finished(g).area)
<1>1. PICK h : h = Finished(g) OBVIOUS
<1>2. /\ Fields \subseteq DOMAIN g /\ g.area = Cardinality(P)
      /\ \A q \in P : PixelColor(q) = g.color
      /\ Bounds(g, P, 1)
      /\ g.cen_x = <<SumOf(XOf, Pixels)[P], 1>> /\ g.cen_y = <<SumOf(YOf, Pixels)[P], 1>>
  BY DEF Measures
<1>3. DOMAIN h = DOMAIN g BY <1>1 DEF Finished
<1>4. /\ h.color = g.color /\ h.area = g.area
      /\ h.x1 = g.x1 /\ h.x2 = g.x2 - 1 /\ h.y1 = g.y1 /\ h.y2 = g.y2
      /\ h.cen_x = <<g.cen_x[1], g.area>> /\ h.cen_y = <<g.cen_y[1], g.area>>
  BY <1>1, <1>2 DEF Finished, Fields
<1>5. \A q \in P : q[1] \in Nat BY DEF Pixels, Sizes
<1>6. (\E q \in P : h.x2 = q[1] + 0) /\ \A q \in P : q[1] + 0 <= h.x2
  <2>1. PICK q \in P : g.x2 = q[1] + 1 BY <1>2 DEF Bounds
  <2>2. h.x2 = q[1] BY <2>1, <1>4, <1>5
  <2>3. \A z \in P : z[1] + 1 <= q[1] + 1 BY <2>1, <1>2 DEF Bounds
  <2>4. \A z \in P : z[1] <= q[1] BY <2>3, <1>5
  <2> QED BY <2>2, <2>4, <1>5
<1>7. Bounds(h, P, 0) BY <1>2, <1>4, <1>6 DEF Bounds
<1>8. h.cen_x = <<SumOf(XOf, Pixels)[P], h.area>> /\ h.cen_y = <<SumOf(YOf, Pixels)[P], h.area>>
  BY <1>2, <1>4
<1> QED BY <1>1, <1>2, <1>3, <1>4, <1>7, <1>8 DEF Measures

(* Which is what Measure asks of a component. *)
LEMMA LeastIsMin ==
    ASSUME NEW S \in SUBSET Nat, NEW a \in S, \A e \in S : a <= e
    PROVE  Min(S) = a
<1>1. Min(S) \in S /\ \A e \in S : Min(S) <= e BY MinIsLeast
<1>2. PICK b \in S : b = Min(S) BY <1>1
<1>3. a <= b /\ b <= a BY <1>1, <1>2
<1> QED BY <1>2, <1>3

LEMMA LargestIsMax ==
    ASSUME NEW S \in SUBSET Nat, NEW a \in S, \A e \in S : e <= a
    PROVE  Max(S) = a
<1>1. Max(S) = CHOOSE b \in S : \A e \in S : b >= e BY DEF Max
<1>2. PICK b \in S : b = Max(S) /\ \A e \in S : b >= e
  <2>1. \E b \in S : \A e \in S : b >= e
    <3>1. \A e \in S : a >= e OBVIOUS
    <3> QED BY <3>1
  <2> QED BY <2>1, <1>1
<1>3. a >= b /\ b >= a BY <1>2
<1> QED BY <1>2, <1>3

LEMMA MeasuresIsMeasure ==
    ASSUME Sizes, NEW g, NEW P \in SUBSET Pixels, Measures(g, P, 0, g.area)
    PROVE  Measure(P) =
             [color |-> g.color, area |-> g.area, x1 |-> g.x1, y1 |-> g.y1, x2 |-> g.x2,
              y2 |-> g.y2, cen_x |-> g.cen_x, cen_y |-> g.cen_y]
<1>1. /\ g.area = Cardinality(P)
      /\ \A q \in P : PixelColor(q) = g.color
      /\ Bounds(g, P, 0)
      /\ g.cen_x = <<SumOf(XOf, Pixels)[P], g.area>>
      /\ g.cen_y = <<SumOf(YOf, Pixels)[P], g.area>>
  BY DEF Measures
<1>2. \A q \in P : q[1] \in Nat /\ q[2] \in Nat BY DEF Pixels, Sizes
<1> DEFINE xs == {q[1] : q \in P}
           ys == {q[2] : q \in P}
<1>3. xs \in SUBSET Nat /\ ys \in SUBSET Nat BY <1>2
<1>4. /\ g.x1 \in xs /\ (\A e \in xs : g.x1 <= e)
      /\ g.y1 \in ys /\ (\A e \in ys : g.y1 <= e)
      /\ g.y2 \in ys /\ (\A e \in ys : e <= g.y2)
  BY <1>1 DEF Bounds
<1>5. g.x2 \in xs /\ \A e \in xs : e <= g.x2
  <2>1. \A q \in P : q[1] + 0 = q[1] BY <1>2
  <2> QED BY <2>1, <1>1 DEF Bounds
<1>6. PICK c \in P : c = CHOOSE q \in P : TRUE BY <1>1 DEF Bounds
<1>7. PixelColor(CHOOSE q \in P : TRUE) = g.color BY <1>1, <1>6
<1>8. /\ MapThenSumSet(LAMBDA q : q[1], P) = SumOf(XOf, Pixels)[P]
      /\ MapThenSumSet(LAMBDA q : q[2], P) = SumOf(YOf, Pixels)[P]
  <2>1. IsFiniteSet(Pixels) /\ XOf \in [Pixels -> Nat] /\ YOf \in [Pixels -> Nat]
    BY PixelsAreFinite
  <2>2. \A q \in Pixels : XOf[q] = q[1] /\ YOf[q] = q[2] BY DEF XOf, YOf
  <2>3. MapThenSumSet(LAMBDA q : q[1], P) = SumOf(XOf, Pixels)[P]
    BY <2>1, <2>2, SumOfX
  <2>4. MapThenSumSet(LAMBDA q : q[2], P) = SumOf(YOf, Pixels)[P]
    BY <2>1, <2>2, SumOfY
  <2> QED BY <2>3, <2>4
<1>9. Measure(P) =
        [color |-> PixelColor(CHOOSE q \in P : TRUE), area |-> Cardinality(P),
         x1 |-> Min(xs), y1 |-> Min(ys), x2 |-> Max(xs), y2 |-> Max(ys),
         cen_x |-> <<MapThenSumSet(LAMBDA q : q[1], P), Cardinality(P)>>,
         cen_y |-> <<MapThenSumSet(LAMBDA q : q[2], P), Cardinality(P)>>]
  BY DEF Measure
<1> HIDE DEF xs, ys
<1>10. Min(xs) = g.x1 /\ Min(ys) = g.y1 /\ Max(xs) = g.x2 /\ Max(ys) = g.y2
  BY <1>3, <1>4, <1>5, LeastIsMin, LargestIsMax
<1> QED BY <1>1, <1>7, <1>8, <1>9, <1>10

-----------------------------------------------------------------------------
(* Every region measures the runs it has so far. *)

MInv ==
    /\ pc = "extract" =>
         \A b \in DOMAIN regions : Measures(regions[b], PixelsOf(Mine(b)), 1, 1)
    /\ pc = "separate" /\ ~full =>
         \A b \in DOMAIN regions :
           Measures(regions[b], PixelsOf(Mine(b)), 0, regions[b].area)

LEMMA PixelsStay ==
    ASSUME UNCHANGED <<image, runs>>
    PROVE  /\ Pixels' = Pixels
           /\ \A q : PixelColor(q)' = PixelColor(q)
           /\ \A k : PixelsOfRun(k)' = PixelsOfRun(k)
           /\ \A G : PixelsOf(G)' = PixelsOf(G)
           /\ \A g, P, past, n : Measures(g, P, past, n)' <=> Measures(g, P, past, n)
<1>1. Pixels' = Pixels BY DEF Pixels
<1>2. \A q : PixelColor(q)' = PixelColor(q) BY DEF PixelColor
<1>3. \A k : PixelsOfRun(k)' = PixelsOfRun(k) BY DEF PixelsOfRun, End
<1>4. \A G : PixelsOf(G)' = PixelsOf(G) BY <1>3 DEF PixelsOf
<1>5. XOf' = XOf /\ YOf' = YOf BY <1>1 DEF XOf, YOf
<1>6. \A g, P, past, n : Measures(g, P, past, n)' <=> Measures(g, P, past, n)
  BY <1>1, <1>2, <1>5 DEF Measures, Bounds
<1> QED BY <1>1, <1>2, <1>3, <1>4, <1>6

LEMMA MineAreColored ==
    ASSUME NEW b
    PROVE  Mine(b) \in SUBSET ColoredRuns /\ \A k \in Mine(b) : k \in 0..num-1 /\ k < i
BY DEF Mine, ColoredRuns

LEMMA PixelsOfMine ==
    ASSUME IInv, Drawn, NEW G \in SUBSET ColoredRuns, NEW k \in ColoredRuns, k \notin G,
           \A m \in G : m <= k
    PROVE  /\ PixelsOf(G) \in SUBSET Pixels
           /\ PixelsOf(G) \cap PixelsOfRun(k) = {}
           /\ \A q \in PixelsOf(G) : q[2] <= runs[k].y
           /\ PixelsOf(G \cup {k}) = PixelsOf(G) \cup PixelsOfRun(k)
<1>1. k \in 0..num-1 /\ \A m \in G : m \in 0..num-1 BY ColoredRunsAreRuns
<1>2. ASSUME NEW q \in PixelsOf(G)
      PROVE  q[2] <= runs[k].y /\ q \notin PixelsOfRun(k)
  <2>1. PICK m \in G, a, b \in Nat : q = <<a, b>> /\ Holds(m, a, b) BY PixelsOfGroup
  <2>3. q[2] = runs[m].y BY <2>1 DEF Holds
  <2>4. runs[m].y <= runs[k].y BY <1>1 DEF IInv, RowsInOrder
  <2>5. ASSUME q \in PixelsOfRun(k) PROVE FALSE
    <3>1. PICK c, d \in Nat : q = <<c, d>> /\ Holds(k, c, d) BY <2>5, <1>1, PixelsOfRunAreHeld
    <3>2. Holds(k, a, b) BY <2>1, <3>1
    <3>3. k = m BY <1>1, <2>1, <3>2, OneHolds
    <3> QED BY <3>3
  <2> QED BY <2>3, <2>4, <2>5
<1>3. PixelsOf(G \cup {k}) = PixelsOf(G) \cup PixelsOfRun(k) BY DEF PixelsOf
<1> QED BY <1>2, <1>3, PixelsOfGroupArePixels

LEMMA ExtractingMeasures ==
    ASSUME IInv, CInv, Drawn, MInv, ExtractStep
    PROVE  MInv'
<1>1. /\ pc = "extract" /\ UNCHANGED <<image, num, runs>>
      /\ pc' \in {"extract", "separate"}
  BY DEF ExtractStep, SkipClear, StartRegion, ExtendRegion, FinishRegions, Extracting, readVars
<1>2. \A b \in DOMAIN regions : Measures(regions[b], PixelsOf(Mine(b)), 1, 1)
  BY <1>1 DEF MInv
<1>3. /\ \A G : PixelsOf(G)' = PixelsOf(G)
      /\ \A g, P, past, n : Measures(g, P, past, n)' <=> Measures(g, P, past, n)
  BY <1>1, PixelsStay
<1>4. num \in Nat /\ i \in 0..num BY <1>1, Extraction
<1>5. CASE SkipClear
  <2>1. i < num /\ runs[i].color = 0 /\ i' = i + 1 /\ UNCHANGED <<parent, regions>>
        /\ pc' = "extract"
    BY <1>5, <1>1 DEF SkipClear, Extracting
  <2>2. ASSUME NEW b PROVE Mine(b)' = Mine(b)
    <3>1. \A k \in ColoredRuns : k \in Nat /\ (k < i + 1 <=> k < i)
      BY <2>1, <1>4 DEF ColoredRuns
    <3>2. ColoredRuns' = ColoredRuns BY <1>1 DEF ColoredRuns
    <3> QED BY <2>1, <3>1, <3>2 DEF Mine
  <2> QED BY <1>2, <1>3, <2>1, <2>2 DEF MInv
<1>6. CASE StartRegion
  <2>1. pc' = "separate" => full' BY <1>6, <1>1 DEF StartRegion
  <2>2. PICK new \in Nat :
          /\ \A b \in DOMAIN regions' : b \in DOMAIN regions \/ b = new
          /\ \A b \in DOMAIN regions : regions'[b] = regions[b] /\ Mine(b)' = Mine(b)
          /\ regions'[new] = NewRegion(runs[i]) /\ Mine(new)' = {i}
          /\ i \in ColoredRuns
    BY <1>6, StartingAdds
  <2>3. PixelsOf({i}) = PixelsOfRun(i) BY DEF PixelsOf
  <2>4. Measures(regions'[new], PixelsOf(Mine(new)'), 1, 1)
    BY <2>2, <2>3, NewIsMeasured
  <2>5. \A b \in DOMAIN regions' : Measures(regions'[b], PixelsOf(Mine(b)'), 1, 1)
    BY <2>2, <2>4, <1>2
  <2> QED BY <1>1, <1>3, <2>1, <2>5 DEF MInv
<1>7. CASE ExtendRegion
  <2>1. pc' = "extract" BY <1>7, <1>1 DEF ExtendRegion
  <2>2. PICK b \in DOMAIN regions :
          /\ parent[i] \in Mine(b) /\ runs[parent[i]].color = runs[i].color
          /\ regions'[b] = Grown(regions[b], runs[i])
          /\ DOMAIN regions' = DOMAIN regions
          /\ \A c \in DOMAIN regions : c # b => regions'[c] = regions[c]
                                               /\ Mine(c)' = Mine(c)
          /\ Mine(b)' = Mine(b) \cup {i}
          /\ i \in ColoredRuns
    BY <1>7, ExtendingAdds
  <2>3. i \notin Mine(b) /\ \A m \in Mine(b) : m <= i BY <1>4, MineAreColored
  <2>4. Mine(b) \in SUBSET ColoredRuns BY MineAreColored
  <2>5. /\ PixelsOf(Mine(b)) \in SUBSET Pixels
        /\ PixelsOf(Mine(b)) \cap PixelsOfRun(i) = {}
        /\ \A q \in PixelsOf(Mine(b)) : q[2] <= runs[i].y
        /\ PixelsOf(Mine(b) \cup {i}) = PixelsOf(Mine(b)) \cup PixelsOfRun(i)
    BY <2>2, <2>3, <2>4, PixelsOfMine
  <2>6. regions[b].color = runs[i].color
    <3>1. PICK k \in ColoredRuns : k = parent[i] /\ k \in Mine(b) BY <2>2, <2>4
    <3>2. PICK q \in PixelsOfRun(k) : PixelColor(q) = runs[k].color
      BY RunIsMeasured
    <3>3. q \in PixelsOf(Mine(b)) BY <3>1 DEF PixelsOf
    <3>4. PixelColor(q) = regions[b].color BY <3>3, <1>2 DEF Measures
    <3> QED BY <3>1, <3>2, <3>4, <2>2
  <2>7. Measures(regions'[b], PixelsOf(Mine(b)'), 1, 1)
    <3>1. Measures(regions[b], PixelsOf(Mine(b)), 1, 1) BY <1>2
    <3>2. Measures(Grown(regions[b], runs[i]), PixelsOf(Mine(b)) \cup PixelsOfRun(i), 1, 1)
      BY <3>1, <2>2, <2>5, <2>6, GrownIsMeasured
    <3> QED BY <3>2, <2>2, <2>5
  <2>8. \A c \in DOMAIN regions' : Measures(regions'[c], PixelsOf(Mine(c)'), 1, 1)
    BY <2>2, <2>7, <1>2
  <2> QED BY <1>3, <2>1, <2>8 DEF MInv
<1>8. CASE FinishRegions
  <2>1. /\ pc' = "separate" /\ UNCHANGED <<i, parent>>
        /\ regions' = [b \in DOMAIN regions |-> Finished(regions[b])]
    BY <1>8 DEF FinishRegions
  <2>2. ASSUME NEW b PROVE Mine(b)' = Mine(b) BY <1>1, <2>1 DEF Mine, ColoredRuns
  <2>3. ASSUME NEW b \in DOMAIN regions
        PROVE  Measures(regions'[b], PixelsOf(Mine(b)), 0, regions'[b].area)
    <3>1. PixelsOf(Mine(b)) \in SUBSET Pixels BY MineAreColored, PixelsOfGroupArePixels
    <3>2. Measures(regions[b], PixelsOf(Mine(b)), 1, 1) BY <1>2
    <3>3. Measures(Finished(regions[b]), PixelsOf(Mine(b)), 0, Finished(regions[b]).area)
      BY <3>1, <3>2, FinishedIsMeasured DEF IInv
    <3> QED BY <3>3, <2>1
  <2>4. DOMAIN regions' = DOMAIN regions BY <2>1
  <2> QED BY <1>3, <2>1, <2>2, <2>3, <2>4 DEF MInv
<1> QED BY <1>5, <1>6, <1>7, <1>8 DEF ExtractStep

LEMMA MInvIsInductive == IInv /\ CInv /\ Drawn /\ MInv /\ [Next]_vars => MInv'
<1> SUFFICES ASSUME IInv, CInv, Drawn, MInv, [Next]_vars PROVE MInv' OBVIOUS
<1>1. CASE EncodeRun
  <2>1. pc' \in {"encode", "skip"} BY <1>1 DEF EncodeRun
  <2> QED BY <2>1 DEF MInv
<1>2. CASE ConnectStep
  <2>1. pc \in Connecting /\ UNCHANGED regions /\ pc' # "separate"
    BY <1>2 DEF Connecting, ConnectStep, SkipFirstLine, PassOn, Adopt, TwoParents, ClimbLeft,
         Scanning, ClimbRight, UniteRoots, EndScan, Compress, EndCompress
  <2>2. DOMAIN regions = {}
    <3>1. PICK S : regions \in Seq(S) BY DEF IInv, Counting
    <3>2. Len(regions) = 0 BY <2>1 DEF IInv, Counting, Connecting, Stages
    <3> QED BY <3>1, <3>2
  <2> QED BY <2>1, <2>2 DEF MInv
<1>3. CASE ExtractStep BY <1>3, ExtractingMeasures
<1>4. CASE separateRegions \/ sortRegions
  BY <1>4 DEF separateRegions, sortRegions, MInv
<1>5. CASE UNCHANGED vars
  <2>1. UNCHANGED <<pc, image, runs, num, parent, i, regions, full>>
    BY <1>5 DEF vars, readVars
  <2>2. \A b : Mine(b)' = Mine(b) BY <2>1 DEF Mine, ColoredRuns
  <2> QED BY <2>1, <2>2, PixelsStay DEF MInv
<1> QED BY <1>1, <1>2, <1>3, <1>4, <1>5 DEF Next

LEMMA GroupsAreKept ==
    IInv /\ CInv /\ Grouped /\ [Next]_vars => Grouped' \/ (pc = "extract" /\ i = 0)'
<1> SUFFICES ASSUME IInv, CInv, Grouped, [Next]_vars, ~(pc = "extract" /\ i = 0)'
             PROVE  Grouped'
  OBVIOUS
<1>1. CASE EncodeRun
  <2>1. pc' \in {"encode", "skip"} BY <1>1 DEF EncodeRun
  <2> QED BY <2>1 DEF Grouped
<1>2. CASE ConnectStep
  <2>1. pc' \in Connecting
    BY <1>2 DEF Connecting, ConnectStep, SkipFirstLine, PassOn, Adopt, TwoParents, ClimbLeft,
         Scanning, ClimbRight, UniteRoots, EndScan, Compress, EndCompress
  <2> QED BY <2>1 DEF Grouped, Connecting
<1>3. CASE ExtractStep BY <1>3, ExtractingKeepsGroups
<1>4. CASE separateRegions \/ sortRegions
  BY <1>4 DEF separateRegions, sortRegions, Grouped
<1>5. CASE UNCHANGED vars
  <2>1. UNCHANGED <<pc, image, y, runs, num, parent, i, regions, full>>
    BY <1>5 DEF vars, readVars
  <2>2. ColoredRuns' = ColoredRuns /\ WholeImage' = WholeImage BY <2>1 DEF ColoredRuns, WholeImage
  <2>3. \A a, b : Linked(a, b)' <=> Linked(a, b) BY <2>1, LinksStay
  <2> QED BY <2>1, <2>2, <2>3 DEF Grouped, Together, Numbered
<1> QED BY <1>1, <1>2, <1>3, <1>4, <1>5 DEF Next

-----------------------------------------------------------------------------
(* The end of extraction: each region is a component, and no pixel is       *)
(* counted twice or left out.                                               *)

LEMMA RegionsAreComponents ==
    ASSUME IInv, CInv, Drawn, WholeImage, Together, i = num, pc = "separate",
           NEW b \in DOMAIN regions
    PROVE  PixelsOf(Mine(b)) = Component(FirstPixel(b))
<1>1. PICK start \in Mine(b) : start = regions[b].run_start
  BY DEF CInv, Chained, WellChained
<1>0. \A k \in ColoredRuns : k < i BY DEF ColoredRuns, IInv, Runs
<1>2. \A k : k \in Mine(b) <=> k \in ColoredRuns /\ parent[k] = b - 1
  BY <1>0 DEF Mine
<1>3. \A k, m \in ColoredRuns : parent[k] = parent[m] <=> Linked(k, m)
  BY <1>0 DEF Together
<1>4. ASSUME NEW k \in Mine(b), NEW m \in ColoredRuns, Meets(k, m) \/ Meets(m, k)
      PROVE  m \in Mine(b)
  <2>1. k \in 0..num-1 /\ m \in 0..num-1 BY <1>2, ColoredRunsAreRuns
  <2>2. Linked(k, m) BY <2>1, <1>4, MeetingAreLinked, LinkedIsEquivalence
  <2> QED BY <2>2, <1>2, <1>3
<1>5. Complete(Mine(b)) BY <1>2, <1>4 DEF Complete
<1>6. \A k \in Mine(b) : Linked(k, start) BY <1>2, <1>3
<1>7. FirstPixel(b) = FirstOf(start) BY <1>1 DEF FirstPixel, FirstOf
<1>8. FirstPixel(b) \in PixelsOf(Mine(b)) BY <1>2, <1>5, <1>7, GroupIsClosed
<1> QED BY <1>5, <1>6, <1>8, GroupIsComponent

(* The runs of the first n regions. *)
RunsUpTo(n) == {k \in ColoredRuns : parent[k] < n}

LEMMA PixelsAreShared ==
    ASSUME IInv, Drawn, NEW G \in SUBSET ColoredRuns, NEW H \in SUBSET ColoredRuns,
           G \cap H = {}
    PROVE  /\ PixelsOf(G) \cap PixelsOf(H) = {}
           /\ PixelsOf(G \cup H) = PixelsOf(G) \cup PixelsOf(H)
           /\ IsFiniteSet(PixelsOf(G)) /\ Cardinality(PixelsOf(G)) \in Nat
<1>1. ASSUME NEW q \in PixelsOf(G), q \in PixelsOf(H) PROVE FALSE
  <2>1. PICK k \in G, a, b \in Nat : q = <<a, b>> /\ Holds(k, a, b) BY PixelsOfGroup
  <2>2. PICK m \in H, c, d \in Nat : q = <<c, d>> /\ Holds(m, c, d) BY <1>1, PixelsOfGroup
  <2>3. Holds(m, a, b) BY <2>1, <2>2
  <2>4. k = m BY <2>1, <2>3, ColoredRunsAreRuns, OneHolds
  <2> QED BY <2>4
<1>2. PixelsOf(G \cup H) = PixelsOf(G) \cup PixelsOf(H) BY DEF PixelsOf
<1>3. IsFiniteSet(PixelsOf(G)) /\ Cardinality(PixelsOf(G)) \in Nat
  <2>1. PixelsOf(G) \in SUBSET Pixels BY PixelsOfGroupArePixels
  <2>2. IsFiniteSet(Pixels) BY PixelsAreFinite DEF IInv
  <2>3. IsFiniteSet(PixelsOf(G)) BY <2>1, <2>2, FS_Subset
  <2> QED BY <2>3, FS_CardinalityType
<1> QED BY <1>1, <1>2, <1>3

LEMMA AreasAddUp ==
    ASSUME IInv, Drawn, i = num, Numbered, NEW n \in Nat, DOMAIN regions = 1..n,
           n = Len(regions),
           \A b \in DOMAIN regions : regions[b].area = Cardinality(PixelsOf(Mine(b)))
    PROVE  MapThenSumSet(LAMBDA b : regions[b].area, DOMAIN regions)
             = Cardinality(PixelsOf(ColoredRuns))
<1>f. PICK F : F = [b \in 1..n |-> regions[b].area] OBVIOUS
<1>0. \A k \in ColoredRuns : k < i BY DEF ColoredRuns, IInv, Runs
<1>1. \A k \in ColoredRuns : parent[k] \in Nat /\ parent[k] < n
  BY <1>0, ColoredRunsAreRuns DEF IInv, Forest, Numbered
<1>2. \A b, k : k \in Mine(b) <=> k \in ColoredRuns /\ parent[k] = b - 1
  BY <1>0 DEF Mine
<1>3. F \in [1..n -> Nat]
  <2>1. ASSUME NEW b \in 1..n PROVE regions[b].area \in Nat
    <3>1. Mine(b) \in SUBSET ColoredRuns BY <1>2
    <3>2. {} \in SUBSET ColoredRuns OBVIOUS
    <3> QED BY <3>1, <3>2, PixelsAreShared
  <2> QED BY <2>1, <1>f
<1>4. IsFiniteSet(1..n)
  <2>1. PICK one \in Int : one = 1 OBVIOUS
  <2> QED BY <2>1, FS_Interval
<1>5. PICK sum : sum = SumOf(F, 1..n) /\ Sums(F, 1..n, sum) /\ sum[{}] = 0
  BY <1>3, <1>4, SumOfSums
<1>6. MapThenSumSet(LAMBDA b : regions[b].area, DOMAIN regions) = sum[1..n]
  <2>1. PICK U : U = 1..n OBVIOUS
  <2>2. F \in [U -> Nat] /\ IsFiniteSet(U) /\ \A b \in U : F[b] = regions[b].area
    BY <2>1, <1>f, <1>3, <1>4
  <2>3. MapThenSumSet(LAMBDA b : regions[b].area, U) = SumOf(F, U)[U]
    BY <2>2, SumOfAreas
  <2> QED BY <2>1, <2>3, <1>5
<1>7. \A b \in 1..n : F[b] = Cardinality(PixelsOf(Mine(b))) BY <1>f
<1> DEFINE N == {m \in Nat : m <= n => sum[1..m] = Cardinality(PixelsOf(RunsUpTo(m)))}
<1>8. 0 \in N
  <2>1. 1..0 = {} OBVIOUS
  <2>2. RunsUpTo(0) = {} BY <1>1 DEF RunsUpTo
  <2>3. PixelsOf({}) = {} BY DEF PixelsOf
  <2> QED BY <2>1, <2>2, <2>3, <1>5, FS_EmptySet
<1>9. ASSUME NEW m \in N PROVE m + 1 \in N
  <2> SUFFICES ASSUME m + 1 <= n
               PROVE  sum[1..(m + 1)] = Cardinality(PixelsOf(RunsUpTo(m + 1)))
    OBVIOUS
  <2>1. PICK e, A, B : e = m + 1 /\ A = 1..m /\ B = 1..(m + 1) OBVIOUS
  <2>2. e \in 1..n /\ A \in SUBSET (1..n) /\ e \notin A /\ B = A \cup {e}
    BY <2>1
  <2>3. sum[A] = Cardinality(PixelsOf(RunsUpTo(m))) BY <2>1
  <2>4. sum[B] = sum[A] + F[e]
    <3>1. PICK U : U = 1..n OBVIOUS
    <3>2. F \in [U -> Nat] /\ IsFiniteSet(U) /\ A \in SUBSET U /\ e \in U /\ e \notin A
      BY <3>1, <2>2, <1>3, <1>4
    <3> HIDE DEF N
    <3>3. SumOf(F, U)[A \cup {e}] = SumOf(F, U)[A] + F[e] BY <3>2, SumOfOneMore
    <3> QED BY <3>1, <3>3, <2>2, <1>5
  <2>5. PICK G, H : G = RunsUpTo(m) /\ H = Mine(e) OBVIOUS
  <2>6. G \in SUBSET ColoredRuns /\ H \in SUBSET ColoredRuns BY <2>5, <1>2 DEF RunsUpTo
  <2>7. G \cap H = {} /\ RunsUpTo(m + 1) = G \cup H
    <3>1. ASSUME NEW k \in ColoredRuns
          PROVE  (parent[k] < m + 1 <=> parent[k] < m \/ parent[k] = e - 1)
                 /\ ~(parent[k] < m /\ parent[k] = e - 1)
      BY <1>1, <2>1
    <3> QED BY <3>1, <2>5, <1>2 DEF RunsUpTo
  <2>8. /\ PixelsOf(G) \cap PixelsOf(H) = {}
        /\ PixelsOf(G \cup H) = PixelsOf(G) \cup PixelsOf(H)
        /\ IsFiniteSet(PixelsOf(G)) /\ IsFiniteSet(PixelsOf(H))
        /\ Cardinality(PixelsOf(G)) \in Nat /\ Cardinality(PixelsOf(H)) \in Nat
    <3>1. H \cap G = {} BY <2>7
    <3> QED BY <3>1, <2>6, <2>7, PixelsAreShared
  <2>9. Cardinality(PixelsOf(G \cup H)) = Cardinality(PixelsOf(G)) + Cardinality(PixelsOf(H))
    <3>1. PICK P, Q : P = PixelsOf(G) /\ Q = PixelsOf(H) OBVIOUS
    <3>2. IsFiniteSet(P) /\ IsFiniteSet(Q) /\ P \cap Q = {} BY <2>8, <3>1
    <3>3. Cardinality(P \cup Q) = Cardinality(P) + Cardinality(Q) - Cardinality(P \cap Q)
      BY <3>2, FS_Union
    <3>4. Cardinality(P \cap Q) = 0 BY <3>2, FS_EmptySet
    <3>5. Cardinality(P) \in Nat /\ Cardinality(Q) \in Nat BY <2>8, <3>1
    <3>6. Cardinality(P \cup Q) = Cardinality(P) + Cardinality(Q) BY <3>3, <3>4, <3>5
    <3> QED BY <3>1, <3>6, <2>8
  <2>10. F[e] = Cardinality(PixelsOf(H)) BY <2>2, <2>5, <1>7
  <2> QED BY <2>1, <2>3, <2>4, <2>5, <2>7, <2>9, <2>10
<1> HIDE DEF N
<1>10. n \in N
  <2>1. N \in SUBSET Nat BY DEF N
  <2> QED BY <1>8, <1>9, <2>1, EveryNumber
<1>11. RunsUpTo(n) = ColoredRuns BY <1>1 DEF RunsUpTo
<1> QED BY <1>6, <1>10, <1>11 DEF N

LEMMA RegionsAreRight ==
    ASSUME IInv, CInv, Drawn, Grouped, MInv
    PROVE  RegionsMeasureComponents
<1> SUFFICES ASSUME pc = "separate", WholeImage, ~full
             PROVE  /\ \A b \in DOMAIN regions :
                         Measured(b) = Measure(Component(FirstPixel(b)))
                    /\ MapThenSumSet(LAMBDA b : regions[b].area, DOMAIN regions)
                         = Cardinality(ColoredPixels)
  BY DEF RegionsMeasureComponents
<1>1. Together /\ i = num /\ Numbered BY DEF Grouped
<1>2. \A b \in DOMAIN regions : Measures(regions[b], PixelsOf(Mine(b)), 0, regions[b].area)
  BY DEF MInv
<1>3. ASSUME NEW b \in DOMAIN regions PROVE Measured(b) = Measure(Component(FirstPixel(b)))
  <2>1. PixelsOf(Mine(b)) = Component(FirstPixel(b)) BY <1>1, RegionsAreComponents
  <2>2. PixelsOf(Mine(b)) \in SUBSET Pixels BY MineAreColored, PixelsOfGroupArePixels
  <2>3. Measure(PixelsOf(Mine(b))) = Measured(b)
    BY <2>2, <1>2, MeasuresIsMeasure DEF IInv, Measured
  <2> QED BY <2>1, <2>3
<1>4. PICK n \in Nat : DOMAIN regions = 1..n /\ n = Len(regions)
  <2>1. PICK S : regions \in Seq(S) BY DEF IInv, Counting
  <2> QED BY <2>1
<1>5. \A b \in DOMAIN regions : regions[b].area = Cardinality(PixelsOf(Mine(b)))
  BY <1>2 DEF Measures
<1>6. MapThenSumSet(LAMBDA b : regions[b].area, DOMAIN regions)
        = Cardinality(PixelsOf(ColoredRuns))
  BY <1>1, <1>4, <1>5, AreasAddUp
<1> QED BY <1>3, <1>6, RunsAreColoredPixels

(* For images of every size: unless the run list or the region table was    *)
(* too small, the regions are exactly the components of the image that are  *)
(* not clear, each with its true area, inclusive bounding box and sums of   *)
(* coordinates, and no pixel is counted twice or left out.                  *)
THEOREM RegionsAreMeasured == Spec => []RegionsMeasureComponents
<1>1. Init => Grouped /\ MInv BY DEF Init, Grouped, MInv
<1>2. IInv /\ CInv /\ PInv /\ pc = "extract" /\ i = 0 => Grouped
  BY TreesAreGroups DEF CInv
<1>3. PInv => Drawn BY DEF PInv
<1> DEFINE AllInv == IInv /\ CInv /\ PInv /\ Grouped /\ MInv
<1>4. Init => AllInv BY <1>1, Initially, CInitially, PInitially
<1>5. Spec => []AllInv
  BY <1>2, <1>3, <1>4, InvIsInductive, CInvIsInductive, PInvIsInductive, GroupsAreKept,
     MInvIsInductive, PTL DEF Spec
<1>6. AllInv => RegionsMeasureComponents BY <1>3, RegionsAreRight
<1> QED BY <1>5, <1>6, PTL

=============================================================================
