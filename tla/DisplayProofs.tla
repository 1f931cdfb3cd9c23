---------------------------- MODULE DisplayProofs ----------------------------
(***************************************************************************)
(* What the GUI shows.  First the items of the field scene, for any number *)
(* of cameras and any lists: whatever came in between, each camera's       *)
(* newest frame is what is shown, and items are recycled.  The loop over   *)
(* the detections of a frame is a recursion, so what it does is proved by  *)
(* induction on its turns: the loop invariant is Placed.  Then the frame   *)
(* shared with the receiver, and the zoom.                                 *)
(***************************************************************************)
EXTENDS FieldScene, SharedFrame, FiniteSetTheorems, WellFoundedInduction, TLAPS

-----------------------------------------------------------------------------
(* Induction, said of sets: a set of numbers with 0 and all successors is   *)
(* all of Nat.                                                              *)

LEMMA LeastNumber ==
    ASSUME NEW S \in SUBSET Nat, S # {}
    PROVE  \E n \in S : \A m \in S : n <= m
<1>1. PICK n \in S : \A m \in S : <<m, n>> \notin OpToRel(<, Nat)
  BY NatLessThanWellFounded, WFMin
<1>2. ASSUME NEW m \in S PROVE n <= m
  <2>1. <<m, n>> \notin OpToRel(<, Nat) /\ m \in Nat /\ n \in Nat BY <1>1
  <2>2. ~(m < n) BY <2>1 DEF OpToRel
  <2>3. m \in Nat /\ n \in Nat OBVIOUS
  <2>. QED BY <2>2, <2>3
<1>. QED BY <1>2

LEMMA EveryNumber ==
    ASSUME NEW S \in SUBSET Nat, 0 \in S, \A n \in S : n + 1 \in S
    PROVE  \A n \in Nat : n \in S
<1>. SUFFICES ASSUME Nat \ S # {} PROVE FALSE
  OBVIOUS
<1>1. PICK n \in Nat \ S : \A m \in Nat \ S : n <= m
  BY LeastNumber
<1>2. n - 1 \in Nat /\ n - 1 \in S BY <1>1
<1>. QED BY <1>1, <1>2

-----------------------------------------------------------------------------
(* The loop over a frame's detections of one team. *)

Teams == {"blue", "yellow"}
Items == [key : CameraIds, teamID : Teams, shows : Payloads, conf : BOOLEAN]

(* What the recursion of PlaceAll promises, if anything keeps it. *)
IsScan(f, items, list, camera, team) ==
    f = [n \in 0..Len(list) |->
           IF n = 0 THEN [items |-> items, j |-> 1]
           ELSE Place(f[n - 1], list[n], camera, team)]

LEMMA ScanExists ==
    ASSUME NEW items, NEW list, Len(list) \in Nat, NEW camera, NEW team
    PROVE  \E f : IsScan(f, items, list, camera, team)
<1> DEFINE Upto(f, m) ==
             f = [n \in 0..m |-> IF n = 0 THEN [items |-> items, j |-> 1]
                                 ELSE Place(f[n - 1], list[n], camera, team)]
           S == {m \in Nat : \E f : Upto(f, m)}
<1>1. 0 \in S
  <2>1. Upto([n \in 0..0 |-> [items |-> items, j |-> 1]], 0)
    OBVIOUS
  <2>. QED BY <2>1
<1>2. ASSUME NEW m \in S PROVE m + 1 \in S
  <2>1. PICK f : Upto(f, m) OBVIOUS
  <2> DEFINE last == Place(f[m], list[m + 1], camera, team)
             g == [n \in 0..(m + 1) |-> IF n = m + 1 THEN last ELSE f[n]]
  <2>2. ASSUME NEW n \in 0..(m + 1)
        PROVE  g[n] = IF n = 0 THEN [items |-> items, j |-> 1]
                      ELSE Place(g[n - 1], list[n], camera, team)
    <3>1. CASE n = m + 1
      <4>1. g[n] = last /\ n # 0 BY <3>1
      <4>2. g[n - 1] = f[m] /\ list[n] = list[m + 1]
        <5>1. n - 1 = m /\ m \in 0..(m + 1) /\ m # m + 1 BY <3>1
        <5>. QED BY <5>1, <3>1
      <4>. HIDE DEF g
      <4>. QED BY <4>1, <4>2
    <3>2. CASE n # m + 1
      <4>1. n \in 0..m /\ g[n] = f[n] BY <3>2
      <4>2. n # 0 => g[n - 1] = f[n - 1] BY <3>2
      <4>3. f[n] = IF n = 0 THEN [items |-> items, j |-> 1]
                   ELSE Place(f[n - 1], list[n], camera, team)
        BY <2>1, <4>1
      <4>. HIDE DEF g
      <4>. QED BY <4>1, <4>2, <4>3
    <3>. QED BY <3>1, <3>2
  <2>3. g = [n \in 0..(m + 1) |-> g[n]] OBVIOUS
  <2>4. Upto(g, m + 1)
    <3>. HIDE DEF g
    <3>. QED BY <2>2, <2>3
  <2>. HIDE DEF g
  <2>. QED BY <2>4
<1>3. \A m \in Nat : m \in S
  <2>. HIDE DEF S
  <2>1. S \in SUBSET Nat BY DEF S
  <2>. QED BY <1>1, <1>2, <2>1, EveryNumber
<1>4. PICK f : Upto(f, Len(list)) BY <1>3
<1>. QED BY <1>4 DEF IsScan

LEMMA PlaceAllScans ==
    ASSUME NEW items, NEW list, Len(list) \in Nat, NEW camera, NEW team
    PROVE  \E f : /\ IsScan(f, items, list, camera, team)
                  /\ PlaceAll(items, list, camera, team) = f[Len(list)]
<1> DEFINE f == CHOOSE g : IsScan(g, items, list, camera, team)
<1>1. IsScan(f, items, list, camera, team)
  BY ScanExists
<1>2. PlaceAll(items, list, camera, team) = f[Len(list)]
  BY DEF PlaceAll, IsScan
<1>. QED BY <1>1, <1>2

(* at says which of the items before j show the first n of the list. *)
Filled(at, items, j, list, n, camera, team) ==
    /\ at \in [1..n -> 1..(j - 1)]
    /\ \A l, m \in 1..n : l < m => at[l] < at[m]
    /\ \A m \in 1..n : /\ Belongs(items[at[m]], camera, team)
                        /\ items[at[m]].conf /\ items[at[m]].shows = list[m]
    /\ \A k \in 1..(j - 1) :
          Belongs(items[k], camera, team) => \E m \in 1..n : at[m] = k

(* Nobody else's items are touched, and nobody's owner changes; what is new *)
(* belongs to the camera and team.                                          *)
Respects(old, items, camera, team) ==
    /\ items \in Seq(Items) /\ Len(old) <= Len(items)
    /\ \A k \in 1..Len(old) :
          /\ items[k].key = old[k].key /\ items[k].teamID = old[k].teamID
          /\ Belongs(old[k], camera, team) \/ items[k] = old[k]
    /\ \A k \in 1..Len(items) : k > Len(old) => Belongs(items[k], camera, team)

(* The loop invariant: after n turns.  Items are added only when there are  *)
(* none left to reuse.                                                      *)
Placed(scan, old, list, n, camera, team) ==
    /\ Respects(old, scan.items, camera, team)
    /\ scan.j \in 1..(Len(scan.items) + 1)
    /\ Len(scan.items) > Len(old) => scan.j = Len(scan.items) + 1
    /\ \E at : Filled(at, scan.items, scan.j, list, n, camera, team)

LEMMA SeekFindsNext ==
    ASSUME NEW items \in Seq(Items), NEW j \in 1..(Len(items) + 1), NEW camera, NEW team
    PROVE  /\ Seek(items, j, camera, team) \in j..(Len(items) + 1)
           /\ \A l \in j..(Seek(items, j, camera, team) - 1) :
                 ~Belongs(items[l], camera, team)
           /\ Seek(items, j, camera, team) <= Len(items) =>
                 Belongs(items[Seek(items, j, camera, team)], camera, team)
<1> DEFINE hits == {k \in j..Len(items) : Belongs(items[k], camera, team)}
           found == Seek(items, j, camera, team)
<1>1. hits \in SUBSET Nat OBVIOUS
<1>2. CASE hits = {}
  <2>1. found = Len(items) + 1 BY <1>2 DEF Seek
  <2>. QED BY <1>2, <2>1
<1>3. CASE hits # {}
  <2>1. found = CHOOSE k \in hits : \A l \in hits : k <= l BY <1>3 DEF Seek
  <2>2. \E k \in hits : \A l \in hits : k <= l
    <3>. HIDE DEF hits
    <3>. QED BY <1>1, <1>3, LeastNumber
  <2>3. found \in hits /\ \A l \in hits : found <= l
    <3>. HIDE DEF hits, found
    <3>. QED BY <2>1, <2>2
  <2>. QED BY <2>3
<1>. QED BY <1>2, <1>3

(* A turn writes one item, at or behind j, and there is none of the same    *)
(* owner in between.                                                        *)
Writes(items, k, old, j, payload, camera, team) ==
    /\ items \in Seq(Items) /\ k \in j..(Len(old) + 1)
    /\ Len(items) = IF k > Len(old) THEN k ELSE Len(old)
    /\ \A l \in 1..Len(old) : l # k => items[l] = old[l]
    /\ \A l \in j..(k - 1) : ~Belongs(old[l], camera, team)
    /\ k <= Len(old) => /\ Belongs(old[k], camera, team)
                        /\ items[k].key = old[k].key /\ items[k].teamID = old[k].teamID
    /\ Belongs(items[k], camera, team) /\ items[k].conf /\ items[k].shows = payload

LEMMA PlaceWrites ==
    ASSUME NEW scan, scan.items \in Seq(Items), scan.j \in 1..(Len(scan.items) + 1),
           NEW payload \in Payloads, NEW camera \in CameraIds, NEW team \in Teams
    PROVE  \E k, items :
              /\ Place(scan, payload, camera, team) = [items |-> items, j |-> k + 1]
              /\ Writes(items, k, scan.items, scan.j, payload, camera, team)
<1> DEFINE k == Seek(scan.items, scan.j, camera, team)
           old == scan.items
           new == NewItem(camera, team, payload)
           items == IF k > Len(old) THEN Append(old, new)
                    ELSE [old EXCEPT ![k].shows = payload, ![k].conf = TRUE]
<1>1. /\ k \in scan.j..(Len(old) + 1)
      /\ \A l \in scan.j..(k - 1) : ~Belongs(old[l], camera, team)
      /\ k <= Len(old) => Belongs(old[k], camera, team)
  BY SeekFindsNext
<1>2. Place(scan, payload, camera, team) = [items |-> items, j |-> k + 1]
  BY DEF Place
<1>3. k \in Nat /\ Len(old) \in Nat /\ 1 <= k BY <1>1
<1>4. new \in Items /\ Belongs(new, camera, team) /\ new.conf /\ new.shows = payload
  BY DEF NewItem, Items, Belongs
<1>5. CASE k > Len(old)
  <2>1. k = Len(old) + 1 /\ items = Append(old, new) BY <1>1, <1>5
  <2>2. items \in Seq(Items) /\ Len(items) = k /\ items[k] = new
    <3>. HIDE DEF new
    <3>. QED BY <1>4, <2>1
  <2>3. \A l \in 1..Len(old) : items[l] = old[l]
    <3>. HIDE DEF new
    <3>. QED BY <2>1
  <2>. HIDE DEF items, new, k
  <2>4. Writes(items, k, old, scan.j, payload, camera, team)
    BY <1>1, <1>3, <1>4, <1>5, <2>2, <2>3 DEF Writes
  <2>. QED BY <1>2, <2>4
<1>6. CASE k <= Len(old)
  <2> DEFINE was == old[k]
             is == [was EXCEPT !.shows = payload, !.conf = TRUE]
  <2>1. k \in 1..Len(old) BY <1>3, <1>6
  <2>2. was \in Items /\ Belongs(was, camera, team) BY <1>1, <1>6, <2>1
  <2>3. /\ is \in Items /\ is.key = was.key /\ is.teamID = was.teamID
        /\ is.conf /\ is.shows = payload
    <3>. HIDE DEF was
    <3>. QED BY <2>2 DEF Items
  <2>4. items = [old EXCEPT ![k] = is]
    <3>1. ~(k > Len(old)) BY <1>3, <1>6
    <3>. QED BY <3>1
  <2>5. /\ items \in Seq(Items) /\ Len(items) = Len(old) /\ items[k] = is
        /\ \A l \in 1..Len(old) : l # k => items[l] = old[l]
    <3>. HIDE DEF is, items, k
    <3>. QED BY <2>1, <2>3, <2>4
  <2>6. Belongs(items[k], camera, team)
    <3>. HIDE DEF is, items, k, was
    <3>. QED BY <2>2, <2>3, <2>5 DEF Belongs
  <2>7. items[k].key = old[k].key /\ items[k].teamID = old[k].teamID
        /\ items[k].conf /\ items[k].shows = payload
    <3>. HIDE DEF items, k, is
    <3>. QED BY <2>3, <2>5
  <2>. HIDE DEF items, is, was, k
  <2>8. Writes(items, k, old, scan.j, payload, camera, team)
    BY <1>1, <1>3, <1>6, <2>5, <2>6, <2>7 DEF Writes
  <2>. QED BY <1>2, <2>8
<1>. QED BY <1>3, <1>5, <1>6

LEMMA WritingRespects ==
    ASSUME NEW old \in Seq(Items), NEW mid, NEW items, NEW j, NEW k, NEW payload,
           NEW camera, NEW team,
           Respects(old, mid, camera, team), j \in 1..(Len(mid) + 1),
           Len(mid) > Len(old) => j = Len(mid) + 1,
           Writes(items, k, mid, j, payload, camera, team)
    PROVE  /\ Respects(old, items, camera, team)
           /\ k + 1 \in 1..(Len(items) + 1)
           /\ Len(items) > Len(old) => k + 1 = Len(items) + 1
<1>1. /\ Len(old) \in Nat /\ mid \in Seq(Items) /\ Len(mid) \in Nat /\ j \in Nat
      /\ items \in Seq(Items) /\ Len(items) \in Nat /\ Len(old) <= Len(mid) /\ k \in Nat
      /\ j <= k /\ k <= Len(mid) + 1 /\ 1 <= j
  BY DEF Respects, Writes
<1>2. Len(items) = IF k > Len(mid) THEN k ELSE Len(mid) BY DEF Writes
<1>3. k + 1 \in 1..(Len(items) + 1) BY <1>1, <1>2
<1>4. Len(items) > Len(old) => k + 1 = Len(items) + 1 BY <1>1, <1>2
<1>5. ASSUME NEW l \in 1..Len(old)
      PROVE  /\ items[l].key = old[l].key /\ items[l].teamID = old[l].teamID
             /\ Belongs(old[l], camera, team) \/ items[l] = old[l]
  <2>1. /\ mid[l].key = old[l].key /\ mid[l].teamID = old[l].teamID
        /\ Belongs(old[l], camera, team) \/ mid[l] = old[l]
    BY DEF Respects
  <2>2. l \in 1..Len(mid) BY <1>1
  <2>3. CASE l # k
    <3>1. items[l] = mid[l] BY <2>2, <2>3 DEF Writes
    <3>. QED BY <2>1, <3>1
  <2>4. CASE l = k
    <3>1. /\ Belongs(mid[l], camera, team)
          /\ items[l].key = mid[l].key /\ items[l].teamID = mid[l].teamID
      BY <1>1, <2>2, <2>4 DEF Writes
    <3>. QED BY <2>1, <3>1 DEF Belongs
  <2>. QED BY <2>3, <2>4
<1>6. ASSUME NEW l \in 1..Len(items), l > Len(old)
      PROVE  Belongs(items[l], camera, team)
  <2>1. CASE l = k BY <2>1 DEF Writes
  <2>2. CASE l # k
    <3>1. l \in 1..Len(mid) BY <1>1, <1>2, <2>2
    <3>2. items[l] = mid[l] BY <2>2, <3>1 DEF Writes
    <3>3. Belongs(mid[l], camera, team) BY <1>6, <3>1 DEF Respects
    <3>. QED BY <3>2, <3>3
  <2>. QED BY <2>1, <2>2
<1>7. Len(old) <= Len(items) BY <1>1, <1>2
<1>. QED BY <1>1, <1>3, <1>4, <1>5, <1>6, <1>7 DEF Respects

LEMMA WritingFills ==
    ASSUME NEW mid, NEW items, NEW j, NEW k, NEW list, NEW n \in Nat,
           NEW camera, NEW team, NEW at,
           mid \in Seq(Items), j \in 1..(Len(mid) + 1),
           Writes(items, k, mid, j, list[n + 1], camera, team),
           Filled(at, mid, j, list, n, camera, team)
    PROVE  \E to : Filled(to, items, k + 1, list, n + 1, camera, team)
<1> DEFINE to == [m \in 1..(n + 1) |-> IF m = n + 1 THEN k ELSE at[m]]
<1>1. /\ Len(mid) \in Nat /\ j \in Nat /\ k \in Nat /\ 1 <= j /\ j <= k
      /\ j - 1 <= Len(mid) /\ k <= Len(mid) + 1
  BY DEF Writes
<1>2. \A m \in 1..n : /\ to[m] = at[m] /\ at[m] \in 1..(j - 1) /\ at[m] \in 1..Len(mid)
                      /\ at[m] # k /\ at[m] < k
  <2>1. \A m \in 1..n : at[m] \in 1..(j - 1) BY DEF Filled
  <2>. QED BY <1>1, <2>1
<1>3. n + 1 \in 1..(n + 1) /\ to[n + 1] = k OBVIOUS
<1>4. \A m \in 1..(n + 1) : m = n + 1 \/ m \in 1..n OBVIOUS
<1>. HIDE DEF to
<1>5. to \in [1..(n + 1) -> 1..((k + 1) - 1)]
  <2>1. \A m \in 1..(n + 1) : to[m] \in 1..((k + 1) - 1) BY <1>1, <1>2, <1>3, <1>4
  <2>. QED BY <2>1 DEF to
<1>6. \A l, m \in 1..(n + 1) : l < m => to[l] < to[m]
  <2>. SUFFICES ASSUME NEW l \in 1..(n + 1), NEW m \in 1..(n + 1), l < m
                PROVE  to[l] < to[m]
    OBVIOUS
  <2>1. l \in 1..n BY <1>4
  <2>2. CASE m = n + 1 BY <1>2, <1>3, <2>1, <2>2
  <2>3. CASE m \in 1..n
    <3>1. at[l] < at[m] BY <2>1, <2>3 DEF Filled
    <3>. QED BY <1>2, <2>1, <2>3, <3>1
  <2>. QED BY <1>4, <2>2, <2>3
<1>7. \A m \in 1..(n + 1) : /\ Belongs(items[to[m]], camera, team)
                            /\ items[to[m]].conf /\ items[to[m]].shows = list[m]
  <2>. SUFFICES ASSUME NEW m \in 1..(n + 1)
                PROVE  /\ Belongs(items[to[m]], camera, team)
                       /\ items[to[m]].conf /\ items[to[m]].shows = list[m]
    OBVIOUS
  <2>1. CASE m = n + 1 BY <1>3, <2>1 DEF Writes
  <2>2. CASE m \in 1..n
    <3>1. items[to[m]] = mid[at[m]] BY <1>2, <2>2 DEF Writes
    <3>. QED BY <2>2, <3>1 DEF Filled
  <2>. QED BY <1>4, <2>1, <2>2
<1>8. ASSUME NEW l \in 1..((k + 1) - 1), Belongs(items[l], camera, team)
      PROVE  \E m \in 1..(n + 1) : to[m] = l
  <2>1. CASE l = k BY <1>3, <2>1
  <2>2. CASE l # k
    <3>1. l \in 1..Len(mid) /\ l < k /\ l \in Nat /\ 1 <= l BY <1>1, <2>2
    <3>2. items[l] = mid[l] BY <2>2, <3>1 DEF Writes
    <3>3. l \notin j..(k - 1) BY <1>8, <3>2 DEF Writes
    <3>4. l \in 1..(j - 1) BY <1>1, <3>1, <3>3
    <3>5. PICK m \in 1..n : at[m] = l BY <1>8, <3>2, <3>4 DEF Filled
    <3>6. m \in 1..(n + 1) /\ to[m] = l BY <1>2, <3>5
    <3>. QED BY <3>6
  <2>. QED BY <2>1, <2>2
<1>9. Filled(to, items, k + 1, list, n + 1, camera, team)
  BY <1>5, <1>6, <1>7, <1>8 DEF Filled
<1>. QED BY <1>9

LEMMA PlaceKeeps ==
    ASSUME NEW old \in Seq(Items), NEW list \in Seq(Payloads), NEW n \in 0..(Len(list) - 1),
           NEW camera \in CameraIds, NEW team \in Teams, NEW scan,
           Placed(scan, old, list, n, camera, team)
    PROVE  Placed(Place(scan, list[n + 1], camera, team), old, list, n + 1, camera, team)
<1>1. /\ Respects(old, scan.items, camera, team) /\ scan.items \in Seq(Items)
      /\ scan.j \in 1..(Len(scan.items) + 1)
      /\ Len(scan.items) > Len(old) => scan.j = Len(scan.items) + 1
  BY DEF Placed, Respects
<1>2. list[n + 1] \in Payloads /\ n \in Nat OBVIOUS
<1>3. PICK k, items : /\ Place(scan, list[n + 1], camera, team) = [items |-> items, j |-> k + 1]
                      /\ Writes(items, k, scan.items, scan.j, list[n + 1], camera, team)
  BY <1>1, <1>2, PlaceWrites
<1>4. /\ Respects(old, items, camera, team)
      /\ k + 1 \in 1..(Len(items) + 1)
      /\ Len(items) > Len(old) => k + 1 = Len(items) + 1
  <2>1. PICK mid, j, payload : mid = scan.items /\ j = scan.j /\ payload = list[n + 1]
    OBVIOUS
  <2>2. /\ Respects(old, mid, camera, team) /\ j \in 1..(Len(mid) + 1)
        /\ Len(mid) > Len(old) => j = Len(mid) + 1
        /\ Writes(items, k, mid, j, payload, camera, team)
    BY <1>1, <1>3, <2>1
  <2>. QED BY <2>2, WritingRespects
<1>5. PICK at : Filled(at, scan.items, scan.j, list, n, camera, team) BY DEF Placed
<1>6. \E to : Filled(to, items, k + 1, list, n + 1, camera, team)
  BY <1>1, <1>2, <1>3, <1>5, WritingFills
<1>. QED BY <1>3, <1>4, <1>6 DEF Placed

LEMMA PlaceAllPlaces ==
    ASSUME NEW old \in Seq(Items), NEW list \in Seq(Payloads),
           NEW camera \in CameraIds, NEW team \in Teams
    PROVE  Placed(PlaceAll(old, list, camera, team), old, list, Len(list), camera, team)
<1>1. Len(list) \in Nat OBVIOUS
<1>2. PICK f : /\ IsScan(f, old, list, camera, team)
               /\ PlaceAll(old, list, camera, team) = f[Len(list)]
  BY <1>1, PlaceAllScans
<1>3. /\ f[0] = [items |-> old, j |-> 1]
      /\ \A n \in 0..(Len(list) - 1) : f[n + 1] = Place(f[n], list[n + 1], camera, team)
  <2>1. 0 \in 0..Len(list) BY <1>1
  <2>2. ASSUME NEW n \in 0..(Len(list) - 1)
        PROVE  n + 1 \in 0..Len(list) /\ n + 1 # 0 /\ (n + 1) - 1 = n
    BY <1>1
  <2>. QED BY <1>2, <2>1, <2>2 DEF IsScan
<1> DEFINE Good(n) == n <= Len(list) => Placed(f[n], old, list, n, camera, team)
           S == {n \in Nat : Good(n)}
<1>4. Good(0)
  <2> DEFINE at == [m \in 1..0 |-> m]
  <2>1. Filled(at, old, 1, list, 0, camera, team) BY DEF Filled
  <2>2. Respects(old, old, camera, team) BY DEF Respects
  <2>3. Len(old) \in Nat OBVIOUS
  <2>. HIDE DEF at
  <2>. QED BY <1>3, <2>1, <2>2, <2>3 DEF Placed
<1>5. ASSUME NEW n \in Nat, Good(n) PROVE Good(n + 1)
  <2>. SUFFICES ASSUME n + 1 <= Len(list)
                PROVE  Placed(f[n + 1], old, list, n + 1, camera, team)
    OBVIOUS
  <2>1. n \in 0..(Len(list) - 1) /\ n <= Len(list) BY <1>1
  <2>2. Placed(f[n], old, list, n, camera, team) BY <1>5, <2>1
  <2>3. f[n + 1] = Place(f[n], list[n + 1], camera, team) BY <1>3, <2>1
  <2>. QED BY <2>1, <2>2, <2>3, PlaceKeeps
<1>6. \A n \in Nat : n \in S
  <2>. HIDE DEF Good
  <2>1. S \in SUBSET Nat /\ 0 \in S /\ \A n \in S : n + 1 \in S BY <1>4, <1>5
  <2>. HIDE DEF S
  <2>. QED BY <2>1, EveryNumber
<1>. QED BY <1>1, <1>2, <1>6

-----------------------------------------------------------------------------
(* What a list of items shows of one camera and team depends on the items   *)
(* they own.                                                                *)

OwnedIn(items, camera, team) == {k \in DOMAIN items : Belongs(items[k], camera, team)}

ShowsIn(items, camera, team, list) ==
    \E item \in [DOMAIN list -> {k \in OwnedIn(items, camera, team) : items[k].conf}] :
        /\ \A m, n \in DOMAIN list : m < n => item[m] < item[n]
        /\ \A k \in {l \in OwnedIn(items, camera, team) : items[l].conf} :
              \E n \in DOMAIN list : item[n] = k
        /\ \A n \in DOMAIN list : items[item[n]].shows = list[n]

SameFor(old, items, camera, team) ==
    /\ OwnedIn(items, camera, team) = OwnedIn(old, camera, team)
    /\ \A k \in OwnedIn(old, camera, team) : items[k] = old[k]

HiddenFrom(from, old, items, camera, team) ==
    /\ OwnedIn(items, camera, team) = OwnedIn(old, camera, team)
    /\ \A k \in OwnedIn(old, camera, team) :
          items[k] = IF k >= from THEN [old[k] EXCEPT !.conf = FALSE] ELSE old[k]

LEMMA SameShows ==
    ASSUME NEW old, NEW items, NEW camera, NEW team, NEW list,
           SameFor(old, items, camera, team), ShowsIn(old, camera, team, list)
    PROVE  ShowsIn(items, camera, team, list)
<1>1. {k \in OwnedIn(items, camera, team) : items[k].conf}
        = {k \in OwnedIn(old, camera, team) : old[k].conf}
  BY DEF SameFor
<1> DEFINE lit == {k \in OwnedIn(old, camera, team) : old[k].conf}
<1>2. PICK item \in [DOMAIN list -> lit] :
        /\ \A m, n \in DOMAIN list : m < n => item[m] < item[n]
        /\ \A k \in lit : \E n \in DOMAIN list : item[n] = k
        /\ \A n \in DOMAIN list : old[item[n]].shows = list[n]
  BY DEF ShowsIn
<1>3. \A n \in DOMAIN list : items[item[n]].shows = list[n]
  BY <1>2 DEF SameFor
<1>. HIDE DEF lit
<1>4. {k \in OwnedIn(items, camera, team) : items[k].conf} = lit BY <1>1 DEF lit
<1>. QED BY <1>2, <1>3, <1>4 DEF ShowsIn

LEMMA SameIsTransitive ==
    ASSUME NEW a, NEW b, NEW c, NEW camera, NEW team,
           SameFor(a, b, camera, team), SameFor(b, c, camera, team)
    PROVE  SameFor(a, c, camera, team)
BY DEF SameFor

LEMMA OthersKeepTheirs ==
    ASSUME NEW old \in Seq(Items), NEW items, NEW camera, NEW team,
           Respects(old, items, camera, team),
           NEW c, NEW t, c # camera \/ t # team
    PROVE  SameFor(old, items, c, t)
<1>1. /\ Len(old) \in Nat /\ Len(items) \in Nat /\ Len(old) <= Len(items)
      /\ DOMAIN old = 1..Len(old) /\ DOMAIN items = 1..Len(items)
  BY DEF Respects
<1>2. ASSUME NEW k \in 1..Len(items), Belongs(items[k], c, t)
      PROVE  k \in 1..Len(old) /\ items[k] = old[k]
  <2>1. ~Belongs(items[k], camera, team) BY <1>2 DEF Belongs
  <2>2. k \in 1..Len(old) BY <1>1, <2>1 DEF Respects
  <2>3. ~Belongs(old[k], camera, team) BY <2>1, <2>2 DEF Respects, Belongs
  <2>. QED BY <2>2, <2>3 DEF Respects
<1>3. ASSUME NEW k \in 1..Len(old), Belongs(old[k], c, t)
      PROVE  k \in 1..Len(items) /\ items[k] = old[k]
  <2>1. ~Belongs(old[k], camera, team) BY <1>3 DEF Belongs
  <2>. QED BY <1>1, <2>1 DEF Respects
<1>. QED BY <1>1, <1>2, <1>3 DEF SameFor, OwnedIn

LEMMA HideHides ==
    ASSUME NEW items \in Seq(Items), NEW from \in Nat, NEW camera, NEW team
    PROVE  /\ Hide(items, from, camera, team) \in Seq(Items)
           /\ HiddenFrom(from, items, Hide(items, from, camera, team), camera, team)
           /\ \A c, t : c # camera \/ t # team =>
                 SameFor(items, Hide(items, from, camera, team), c, t)
<1> DEFINE hidden == Hide(items, from, camera, team)
<1>1. /\ DOMAIN items = 1..Len(items) /\ Len(items) \in Nat
      /\ \A k \in 1..Len(items) : items[k] \in Items
  OBVIOUS
<1>2. ASSUME NEW k \in 1..Len(items)
      PROVE  /\ hidden[k] = IF k >= from /\ Belongs(items[k], camera, team)
                            THEN [items[k] EXCEPT !.conf = FALSE] ELSE items[k]
             /\ hidden[k] \in Items
             /\ hidden[k].key = items[k].key /\ hidden[k].teamID = items[k].teamID
  <2>1. hidden[k] = IF k >= from /\ Belongs(items[k], camera, team)
                    THEN [items[k] EXCEPT !.conf = FALSE] ELSE items[k]
    BY <1>1 DEF Hide
  <2>2. PICK was \in Items : was = items[k] BY <1>1
  <2>3. /\ [was EXCEPT !.conf = FALSE] \in Items
        /\ [was EXCEPT !.conf = FALSE].key = was.key
        /\ [was EXCEPT !.conf = FALSE].teamID = was.teamID
    BY DEF Items
  <2>. HIDE DEF hidden
  <2>. QED BY <2>1, <2>2, <2>3
<1>3. hidden = [k \in 1..Len(items) |-> hidden[k]] BY <1>1 DEF Hide
<1>. HIDE DEF hidden
<1>4. hidden \in [1..Len(items) -> Items] BY <1>2, <1>3
<1>5. hidden \in Seq(Items) /\ DOMAIN hidden = 1..Len(items) BY <1>1, <1>4
<1>6. \A c, t : OwnedIn(hidden, c, t) = OwnedIn(items, c, t)
  BY <1>1, <1>2, <1>5 DEF OwnedIn, Belongs
<1>7. HiddenFrom(from, items, hidden, camera, team)
  <2>1. ASSUME NEW k \in OwnedIn(items, camera, team)
        PROVE  hidden[k] = IF k >= from THEN [items[k] EXCEPT !.conf = FALSE] ELSE items[k]
    <3>1. k \in 1..Len(items) /\ Belongs(items[k], camera, team)
      BY <1>1, <2>1 DEF OwnedIn
    <3>. QED BY <1>2, <3>1
  <2>. QED BY <1>6, <2>1 DEF HiddenFrom
<1>8. ASSUME NEW c, NEW t, c # camera \/ t # team
      PROVE  SameFor(items, hidden, c, t)
  <2>1. \A k \in OwnedIn(items, c, t) : ~Belongs(items[k], camera, team)
    BY <1>8 DEF OwnedIn, Belongs
  <2>. QED BY <1>1, <1>2, <1>6, <2>1 DEF SameFor, OwnedIn
<1>. QED BY <1>5, <1>7, <1>8 DEF hidden

(* Hiding what is behind j leaves the list that was filled in before it. *)
LEMMA FilledIsShown ==
    ASSUME NEW items \in Seq(Items), NEW hidden, NEW j \in 1..(Len(items) + 1),
           NEW camera, NEW team, NEW list \in Seq(Payloads), NEW at,
           Filled(at, items, j, list, Len(list), camera, team),
           HiddenFrom(j, items, hidden, camera, team)
    PROVE  ShowsIn(hidden, camera, team, list)
<1> DEFINE lit == {k \in OwnedIn(hidden, camera, team) : hidden[k].conf}
<1>1. /\ Len(list) \in Nat /\ DOMAIN list = 1..Len(list) /\ Len(items) \in Nat
      /\ DOMAIN items = 1..Len(items) /\ \A k \in 1..Len(items) : items[k] \in Items
  OBVIOUS
<1>2. ASSUME NEW m \in 1..Len(list)
      PROVE  at[m] \in lit /\ hidden[at[m]].shows = list[m]
  <2>1. /\ at[m] \in 1..(j - 1) /\ Belongs(items[at[m]], camera, team)
        /\ items[at[m]].conf /\ items[at[m]].shows = list[m]
    BY DEF Filled
  <2>2. at[m] \in OwnedIn(items, camera, team) /\ ~(at[m] >= j)
    BY <1>1, <2>1 DEF OwnedIn
  <2>3. hidden[at[m]] = items[at[m]] /\ at[m] \in OwnedIn(hidden, camera, team)
    BY <2>2 DEF HiddenFrom
  <2>. QED BY <2>1, <2>3
<1>3. ASSUME NEW k \in lit PROVE \E n \in 1..Len(list) : at[n] = k
  <2>1. k \in OwnedIn(items, camera, team) /\ k \in 1..Len(items)
    BY <1>1 DEF HiddenFrom, OwnedIn
  <2>2. k < j
    <3>. SUFFICES ASSUME k >= j PROVE FALSE
      BY <2>1
    <3>1. hidden[k] = [items[k] EXCEPT !.conf = FALSE] BY <2>1 DEF HiddenFrom
    <3>2. items[k] \in Items BY <1>1, <2>1
    <3>3. ~hidden[k].conf BY <3>1, <3>2 DEF Items
    <3>. QED BY <3>3
  <2>3. k \in 1..(j - 1) /\ Belongs(items[k], camera, team)
    BY <1>1, <2>1, <2>2 DEF OwnedIn
  <2>. QED BY <2>3 DEF Filled
<1>4. \A m, n \in 1..Len(list) : m < n => at[m] < at[n] BY DEF Filled
<1>5. DOMAIN at = 1..Len(list) /\ at = [m \in 1..Len(list) |-> at[m]] BY DEF Filled
<1>6. at \in [1..Len(list) -> lit]
  <2>. HIDE DEF lit
  <2>. QED BY <1>2, <1>5
<1>7. \E item \in [DOMAIN list -> lit] :
        /\ \A m, n \in DOMAIN list : m < n => item[m] < item[n]
        /\ \A k \in lit : \E n \in DOMAIN list : item[n] = k
        /\ \A n \in DOMAIN list : hidden[item[n]].shows = list[n]
  <2>. HIDE DEF lit
  <2>1. at \in [DOMAIN list -> lit] BY <1>1, <1>6
  <2>2. \A m, n \in DOMAIN list : m < n => at[m] < at[n] BY <1>1, <1>4
  <2>3. \A k \in lit : \E n \in DOMAIN list : at[n] = k BY <1>1, <1>3
  <2>4. \A n \in DOMAIN list : hidden[at[n]].shows = list[n] BY <1>1, <1>2
  <2>. QED BY <2>1, <2>2, <2>3, <2>4
<1>. QED BY <1>7 DEF ShowsIn

-----------------------------------------------------------------------------
(* Counting the items of a camera and team. *)

Recycled(before, after, list) ==
    /\ before \in Nat /\ after \in Nat
    /\ after = Larger(before, Len(list))

LEMMA PlacedAreRecycled ==
    ASSUME NEW old \in Seq(Items), NEW scan, NEW list \in Seq(Payloads),
           NEW camera, NEW team,
           Placed(scan, old, list, Len(list), camera, team)
    PROVE  Recycled(Cardinality(OwnedIn(old, camera, team)),
                    Cardinality(OwnedIn(scan.items, camera, team)), list)
<1> DEFINE items == scan.items
           mine == OwnedIn(items, camera, team)
           theirs == OwnedIn(old, camera, team)
<1>1. /\ Respects(old, items, camera, team) /\ items \in Seq(Items)
      /\ Len(old) \in Nat /\ Len(items) \in Nat /\ Len(old) <= Len(items)
      /\ DOMAIN items = 1..Len(items) /\ DOMAIN old = 1..Len(old)
      /\ Len(items) > Len(old) => scan.j = Len(items) + 1
      /\ scan.j \in 1..(Len(items) + 1) /\ Len(list) \in Nat
  BY DEF Placed, Respects
<1>2. PICK at : Filled(at, items, scan.j, list, Len(list), camera, team)
  BY DEF Placed
<1>3. \A m \in 1..Len(list) : at[m] \in mine
  <2>. SUFFICES ASSUME NEW m \in 1..Len(list) PROVE at[m] \in mine
    OBVIOUS
  <2>1. at[m] \in 1..(scan.j - 1) BY <1>2 DEF Filled
  <2>2. at[m] \in 1..Len(items) BY <1>1, <2>1
  <2>3. Belongs(items[at[m]], camera, team) BY <1>2 DEF Filled
  <2>. QED BY <1>1, <2>2, <2>3 DEF OwnedIn
<1>4. at \in [1..Len(list) -> mine]
  <2>1. at = [m \in 1..Len(list) |-> at[m]] BY <1>2 DEF Filled
  <2>. QED BY <1>3, <2>1
<1>5. at \in Injection(1..Len(list), mine)
  <2>1. \A l, m \in 1..Len(list) : l < m => at[l] < at[m] BY <1>2 DEF Filled
  <2>2. \A m \in 1..Len(list) : at[m] \in Int BY <1>1, <1>2 DEF Filled
  <2>3. \A l, m \in 1..Len(list) : at[l] = at[m] => l = m
    <3>. SUFFICES ASSUME NEW l \in 1..Len(list), NEW m \in 1..Len(list), at[l] = at[m]
                  PROVE  l = m
      OBVIOUS
    <3>1. ~(l < m) /\ ~(m < l) BY <2>1, <2>2
    <3>. QED BY <1>1, <3>1
  <2>. HIDE DEF mine
  <2>. QED BY <1>4, <2>3 DEF Injection, IsInjective
<1>6. IsFiniteSet(mine)
  <2>1. mine \in SUBSET (1..Len(items))
    <3>1. \A k \in mine : k \in 1..Len(items) BY <1>1 DEF OwnedIn
    <3>. HIDE DEF mine
    <3>. QED BY <3>1
  <2>2. IsFiniteSet(1..Len(items))
    <3>1. PICK n \in Int : n = Len(items) BY <1>1
    <3>2. IsFiniteSet(1..n) BY FS_Interval
    <3>. QED BY <3>1, <3>2
  <2>. HIDE DEF mine
  <2>. QED BY <2>1, <2>2, FS_Subset
<1>7. theirs \in SUBSET mine
  <2>1. ASSUME NEW k \in theirs PROVE k \in mine
    <3>1. k \in 1..Len(old) /\ Belongs(old[k], camera, team) BY <1>1 DEF OwnedIn
    <3>2. items[k].key = old[k].key /\ items[k].teamID = old[k].teamID
      BY <1>1, <3>1 DEF Respects
    <3>3. k \in 1..Len(items) /\ Belongs(items[k], camera, team)
      BY <1>1, <3>1, <3>2 DEF Belongs
    <3>. QED BY <1>1, <3>3 DEF OwnedIn
  <2>. QED BY <2>1
<1>8. Cardinality(1..Len(list)) = Len(list)
  <2>1. PICK n \in Nat : n = Len(list) BY <1>1
  <2>2. Cardinality(1..n) = n BY FS_Interval
  <2>. QED BY <2>1, <2>2
<1>9. Len(items) = Len(old) => mine = theirs
  BY <1>1 DEF OwnedIn, Respects, Belongs
<1>10. ASSUME Len(items) > Len(old)
       PROVE  Cardinality(mine) <= Len(list)
  <2>1. \A k \in mine : \E m \in 1..Len(list) : at[m] = k
    <3>. SUFFICES ASSUME NEW k \in mine PROVE \E m \in 1..Len(list) : at[m] = k
      OBVIOUS
    <3>1. k \in 1..(scan.j - 1) /\ Belongs(items[k], camera, team)
      BY <1>1, <1>10 DEF OwnedIn
    <3>. QED BY <1>2, <3>1 DEF Filled
  <2>2. at \in Surjection(1..Len(list), mine) BY <1>4, <2>1 DEF Surjection
  <2>. QED BY <1>1, <2>2, FS_SurjCardinalityBound DEF ExistsSurjection
<1>. HIDE DEF mine, theirs
<1>11. /\ Cardinality(mine) \in Nat /\ Cardinality(theirs) \in Nat
       /\ Cardinality(theirs) <= Cardinality(mine)
  BY <1>6, <1>7, FS_Subset, FS_CardinalityType
<1>12. Len(list) <= Cardinality(mine)
  BY <1>5, <1>6, <1>8, FS_Injection
<1>13. Cardinality(mine) = Larger(Cardinality(theirs), Len(list))
  BY <1>1, <1>9, <1>10, <1>11, <1>12 DEF Larger
<1>. QED BY <1>11, <1>13 DEF Recycled, mine, theirs

-----------------------------------------------------------------------------
(* The specification. *)

TypeOK ==
    /\ robots \in Seq(Items)
    /\ ballItems \in [CameraIds -> Seq(Payloads)]
    /\ newest \in [CameraIds -> Frames]

(* A camera and team own at least the items their newest frame needs. *)
Enough(items, camera, team, list) ==
    /\ Cardinality(OwnedIn(items, camera, team)) \in Nat
    /\ Len(list) <= Cardinality(OwnedIn(items, camera, team))

EnoughItems ==
    \A c \in CameraIds : /\ Enough(robots, c, "blue", newest[c].blue)
                         /\ Enough(robots, c, "yellow", newest[c].yellow)

IInv == TypeOK /\ SceneShowsNewestFrames /\ BallsShowNewestFrames /\ EnoughItems

LEMMA FramesHaveLists ==
    ASSUME NEW frame \in Frames
    PROVE  /\ frame.camera_id \in CameraIds
           /\ frame.blue \in Seq(Payloads) /\ frame.yellow \in Seq(Payloads)
           /\ frame.balls \in Seq(Payloads)
<1>1. frame.camera_id \in CameraIds BY DEF Frames
<1>2. \A kind \in {"blue", "yellow", "balls"} :
        Lists[kind] \subseteq Seq(Payloads)
  BY SceneAssumption DEF Kinds
<1>3. /\ frame.blue \in Lists["blue"] /\ frame.yellow \in Lists["yellow"]
      /\ frame.balls \in Lists["balls"]
  BY DEF Frames
<1>. QED BY <1>1, <1>2, <1>3

LEMMA PlaceBallsMoves ==
    ASSUME NEW items \in Seq(Payloads), NEW balls \in Seq(Payloads)
    PROVE  PlaceBalls(items, balls) = balls
<1>1. Len(items) \in Nat /\ Len(balls) \in Nat OBVIOUS
<1>2. ~(Len(DropBalls(items, Len(balls))) > Len(balls))
  <2>1. CASE Len(items) > Len(balls)
    <3> DEFINE from == Len(items) - Len(balls) + 1
    <3>1. from \in 1..(Len(items) + 1) /\ Len(items) - from + 1 = Len(balls) BY <1>1, <2>1
    <3>2. Len(SubSeq(items, from, Len(items))) = Len(balls) BY <1>1, <2>1
    <3>. QED BY <1>1, <2>1, <3>2 DEF DropBalls
  <2>2. CASE ~(Len(items) > Len(balls)) BY <1>1, <2>2 DEF DropBalls
  <2>. QED BY <2>1, <2>2
<1>3. PlaceBalls(items, balls) = [i \in 1..Len(balls) |-> balls[i]]
  BY <1>1, <1>2 DEF PlaceBalls
<1>4. balls = [i \in 1..Len(balls) |-> balls[i]] OBVIOUS
<1>. QED BY <1>3, <1>4

(* A frame, as the lemmas above see it: the blue robots, then the yellow    *)
(* ones, then the blue ones hidden, then the yellow ones.                   *)
LEMMA UpdateRedraws ==
    ASSUME TypeOK, NEW frame \in Frames, UpdateRobots(frame)
    PROVE  LET c == frame.camera_id IN
           /\ robots' \in Seq(Items)
           /\ \A d \in CameraIds, t \in Teams : d # c => SameFor(robots, robots', d, t)
           /\ ShowsIn(robots', c, "blue", frame.blue)
           /\ ShowsIn(robots', c, "yellow", frame.yellow)
           /\ Recycled(Cardinality(OwnedIn(robots, c, "blue")),
                       Cardinality(OwnedIn(robots', c, "blue")), frame.blue)
           /\ Recycled(Cardinality(OwnedIn(robots, c, "yellow")),
                       Cardinality(OwnedIn(robots', c, "yellow")), frame.yellow)
<1> DEFINE c == frame.camera_id
           blue == PlaceAll(robots, frame.blue, c, "blue")
           yellow == PlaceAll(blue.items, frame.yellow, c, "yellow")
           rest == Hide(yellow.items, blue.j, c, "blue")
<1>1. /\ c \in CameraIds /\ "blue" \in Teams /\ "yellow" \in Teams
      /\ robots \in Seq(Items)
      /\ frame.blue \in Seq(Payloads) /\ frame.yellow \in Seq(Payloads)
  BY FramesHaveLists DEF TypeOK, Teams
<1>2. Placed(blue, robots, frame.blue, Len(frame.blue), c, "blue")
  BY <1>1, PlaceAllPlaces
<1>3. /\ blue.items \in Seq(Items) /\ blue.j \in 1..(Len(blue.items) + 1)
      /\ Respects(robots, blue.items, c, "blue")
      /\ \E at : Filled(at, blue.items, blue.j, frame.blue, Len(frame.blue), c, "blue")
  BY <1>2 DEF Placed, Respects
<1>4. Placed(yellow, blue.items, frame.yellow, Len(frame.yellow), c, "yellow")
  BY <1>1, <1>3, PlaceAllPlaces
<1>5. /\ yellow.items \in Seq(Items) /\ yellow.j \in 1..(Len(yellow.items) + 1)
      /\ Respects(blue.items, yellow.items, c, "yellow")
      /\ \E at : Filled(at, yellow.items, yellow.j, frame.yellow, Len(frame.yellow),
                        c, "yellow")
  BY <1>4 DEF Placed, Respects
<1>6. robots' = Hide(rest, yellow.j, c, "yellow") BY DEF UpdateRobots
<1>. HIDE DEF blue, yellow, c
<1>7. blue.j \in Nat /\ yellow.j \in Nat BY <1>3, <1>5
<1>8. /\ rest \in Seq(Items) /\ HiddenFrom(blue.j, yellow.items, rest, c, "blue")
      /\ \A d, t : d # c \/ t # "blue" => SameFor(yellow.items, rest, d, t)
  BY <1>5, <1>7, HideHides
<1>. HIDE DEF rest
<1>9. /\ robots' \in Seq(Items) /\ HiddenFrom(yellow.j, rest, robots', c, "yellow")
      /\ \A d, t : d # c \/ t # "yellow" => SameFor(rest, robots', d, t)
  BY <1>6, <1>7, <1>8, HideHides
<1>10. /\ \A d, t : d # c \/ t # "blue" => SameFor(robots, blue.items, d, t)
       /\ \A d, t : d # c \/ t # "yellow" => SameFor(blue.items, yellow.items, d, t)
  BY <1>1, <1>3, <1>5, OthersKeepTheirs
<1>11. \A d, t : d # c => SameFor(robots, robots', d, t)
  <2>. SUFFICES ASSUME NEW d, NEW t, d # c PROVE SameFor(robots, robots', d, t)
    OBVIOUS
  <2>1. SameFor(robots, blue.items, d, t) /\ SameFor(blue.items, yellow.items, d, t) BY <1>10
  <2>2. SameFor(yellow.items, rest, d, t) /\ SameFor(rest, robots', d, t) BY <1>8, <1>9
  <2>. QED BY <2>1, <2>2, SameIsTransitive
<1>12. HiddenFrom(blue.j, blue.items, rest, c, "blue")
  <2>1. SameFor(blue.items, yellow.items, c, "blue") BY <1>10
  <2>. QED BY <1>8, <2>1 DEF SameFor, HiddenFrom
<1>13. ShowsIn(robots', c, "blue", frame.blue)
  <2>1. ShowsIn(rest, c, "blue", frame.blue) BY <1>1, <1>3, <1>12, FilledIsShown
  <2>2. SameFor(rest, robots', c, "blue") BY <1>9
  <2>. QED BY <2>1, <2>2, SameShows
<1>14. HiddenFrom(yellow.j, yellow.items, robots', c, "yellow")
  <2>1. SameFor(yellow.items, rest, c, "yellow") BY <1>8
  <2>. QED BY <1>9, <2>1 DEF SameFor, HiddenFrom
<1>15. ShowsIn(robots', c, "yellow", frame.yellow)
  BY <1>1, <1>5, <1>14, FilledIsShown
<1>16. Recycled(Cardinality(OwnedIn(robots, c, "blue")),
                Cardinality(OwnedIn(robots', c, "blue")), frame.blue)
  <2>1. Recycled(Cardinality(OwnedIn(robots, c, "blue")),
                 Cardinality(OwnedIn(blue.items, c, "blue")), frame.blue)
    BY <1>1, <1>2, PlacedAreRecycled
  <2>2. OwnedIn(rest, c, "blue") = OwnedIn(blue.items, c, "blue") BY <1>12 DEF HiddenFrom
  <2>3. OwnedIn(robots', c, "blue") = OwnedIn(rest, c, "blue") BY <1>9 DEF SameFor
  <2>. QED BY <2>1, <2>2, <2>3
<1>17. Recycled(Cardinality(OwnedIn(robots, c, "yellow")),
                Cardinality(OwnedIn(robots', c, "yellow")), frame.yellow)
  <2>1. OwnedIn(blue.items, c, "yellow") = OwnedIn(robots, c, "yellow")
    BY <1>10 DEF SameFor
  <2>2. Recycled(Cardinality(OwnedIn(blue.items, c, "yellow")),
                 Cardinality(OwnedIn(yellow.items, c, "yellow")), frame.yellow)
    BY <1>1, <1>3, <1>4, PlacedAreRecycled
  <2>3. OwnedIn(robots', c, "yellow") = OwnedIn(yellow.items, c, "yellow")
    BY <1>14 DEF HiddenFrom
  <2>. QED BY <2>1, <2>2, <2>3
<1>. QED BY <1>9, <1>11, <1>13, <1>15, <1>16, <1>17 DEF c, Teams

LEMMA InitEstablishes == SceneInit => IInv
<1>. SUFFICES ASSUME SceneInit PROVE IInv
  OBVIOUS
<1>1. TypeOK
  <2>1. robots \in Seq(Items) /\ ballItems \in [CameraIds -> Seq(Payloads)] BY DEF SceneInit
  <2>2. \A kind \in {"blue", "yellow", "balls"} : <<>> \in Lists[kind]
    BY SceneAssumption DEF Kinds
  <2>3. newest \in [CameraIds -> Frames] BY <2>2 DEF SceneInit, Frames
  <2>. QED BY <2>1, <2>3 DEF TypeOK
<1>2. ASSUME NEW c \in CameraIds, NEW t \in Teams
      PROVE  Owned(c, t) = {} /\ Visible(c, t) = {}
  BY DEF SceneInit, Owned, Visible
<1>3. ASSUME NEW c \in CameraIds, NEW t \in Teams
      PROVE  Shows(c, t, <<>>)
  <2>1. Visible(c, t) = {} BY <1>2
  <2>2. DOMAIN <<>> = {} OBVIOUS
  <2>3. <<>> \in [DOMAIN <<>> -> {}] OBVIOUS
  <2>. QED BY <2>1, <2>2, <2>3 DEF Shows
<1>4. SceneShowsNewestFrames BY <1>3 DEF SceneInit, SceneShowsNewestFrames, Teams
<1>5. BallsShowNewestFrames BY DEF SceneInit, BallsShowNewestFrames
<1>6. EnoughItems
  <2>1. \A d \in CameraIds, u \in Teams : OwnedIn(robots, d, u) = {}
    BY DEF SceneInit, OwnedIn
  <2>2. Len(<<>>) = 0 OBVIOUS
  <2>3. \A d \in CameraIds, u \in Teams : Enough(robots, d, u, <<>>)
    BY <2>1, <2>2, FS_EmptySet DEF Enough
  <2>. QED BY <2>3 DEF SceneInit, EnoughItems, Teams
<1>. QED BY <1>1, <1>4, <1>5, <1>6 DEF IInv

LEMMA ShowsHere ==
    ASSUME NEW c, NEW t, NEW list
    PROVE  Owned(c, t) = OwnedIn(robots, c, t) /\ (Shows(c, t, list) <=> ShowsIn(robots, c, t, list))
BY DEF Owned, OwnedIn, Visible, Shows, ShowsIn

LEMMA ShowsThere ==
    ASSUME NEW c, NEW t, NEW list
    PROVE  /\ Owned(c, t)' = OwnedIn(robots', c, t)
           /\ Shows(c, t, list)' <=> ShowsIn(robots', c, t, list)
BY DEF Owned, OwnedIn, Visible, Shows, ShowsIn

(* What a step makes of the number of items of a camera and team. *)
RecyclesFor(c, team, list) ==
    Recycled(Cardinality(OwnedIn(robots, c, team)),
             Cardinality(OwnedIn(robots', c, team)), list)

Recycling ==
    \A c \in CameraIds : /\ RecyclesFor(c, "blue", newest'[c].blue)
                         /\ RecyclesFor(c, "yellow", newest'[c].yellow)

LEMMA NothingNew ==
    ASSUME NEW c \in CameraIds, NEW t, NEW list \in Seq(Payloads),
           OwnedIn(robots', c, t) = OwnedIn(robots, c, t),
           Enough(robots, c, t, list)
    PROVE  RecyclesFor(c, t, list)
<1>1. Len(list) \in Nat OBVIOUS
<1>. QED BY <1>1 DEF Enough, RecyclesFor, Recycled, Larger

LEMMA RecyclingIsEnough ==
    ASSUME Recycling, TypeOK'
    PROVE  EnoughItems'
<1>1. ASSUME NEW c \in CameraIds, NEW t, NEW list \in Seq(Payloads),
             RecyclesFor(c, t, list)
      PROVE  Enough(robots', c, t, list)
  <2>1. Len(list) \in Nat OBVIOUS
  <2>. QED BY <1>1, <2>1 DEF RecyclesFor, Recycled, Larger, Enough
<1>2. \A c \in CameraIds :
        newest'[c].blue \in Seq(Payloads) /\ newest'[c].yellow \in Seq(Payloads)
  BY FramesHaveLists DEF TypeOK
<1>3. \A c \in CameraIds : /\ Enough(robots', c, "blue", newest'[c].blue)
                           /\ Enough(robots', c, "yellow", newest'[c].yellow)
  BY <1>1, <1>2 DEF Recycling
<1>. QED BY <1>3 DEF EnoughItems, Enough, OwnedIn

LEMMA UpdateKeeps ==
    ASSUME IInv, NEW frame \in Frames, UpdateRobots(frame)
    PROVE  IInv' /\ Recycling
<1> DEFINE c == frame.camera_id
<1>1. TypeOK /\ c \in CameraIds /\ frame.balls \in Seq(Payloads)
  BY FramesHaveLists DEF IInv
<1>2. /\ robots' \in Seq(Items)
      /\ \A d \in CameraIds, t \in Teams : d # c => SameFor(robots, robots', d, t)
      /\ ShowsIn(robots', c, "blue", frame.blue)
      /\ ShowsIn(robots', c, "yellow", frame.yellow)
      /\ Recycled(Cardinality(OwnedIn(robots, c, "blue")),
                  Cardinality(OwnedIn(robots', c, "blue")), frame.blue)
      /\ Recycled(Cardinality(OwnedIn(robots, c, "yellow")),
                  Cardinality(OwnedIn(robots', c, "yellow")), frame.yellow)
  BY <1>1, UpdateRedraws
<1>3. /\ newest' \in [CameraIds -> Frames] /\ newest'[c] = frame
      /\ \A d \in CameraIds : d # c => newest'[d] = newest[d]
  BY <1>1 DEF UpdateRobots, TypeOK
<1>4. /\ ballItems' \in [CameraIds -> Seq(Payloads)] /\ ballItems'[c] = frame.balls
      /\ \A d \in CameraIds : d # c => ballItems'[d] = ballItems[d]
  <2>1. PlaceBalls(ballItems[c], frame.balls) = frame.balls
    BY <1>1, PlaceBallsMoves DEF TypeOK
  <2>2. ballItems' = [ballItems EXCEPT ![c] = frame.balls] BY <2>1 DEF UpdateRobots
  <2>. QED BY <1>1, <2>2 DEF TypeOK
<1>5. TypeOK' BY <1>2, <1>3, <1>4 DEF TypeOK
<1>6. SceneShowsNewestFrames'
  <2>. SUFFICES ASSUME NEW d \in CameraIds
                PROVE  /\ Shows(d, "blue", newest[d].blue)'
                       /\ Shows(d, "yellow", newest[d].yellow)'
    BY DEF SceneShowsNewestFrames
  <2>1. "blue" \in Teams /\ "yellow" \in Teams BY DEF Teams
  <2>2. /\ ShowsIn(robots', d, "blue", newest'[d].blue)
        /\ ShowsIn(robots', d, "yellow", newest'[d].yellow)
    <3>1. CASE d = c BY <1>2, <1>3, <3>1
    <3>2. CASE d # c
      <4>1. /\ SameFor(robots, robots', d, "blue") /\ SameFor(robots, robots', d, "yellow")
            /\ newest'[d] = newest[d]
        BY <1>2, <1>3, <2>1, <3>2
      <4>2. /\ ShowsIn(robots, d, "blue", newest[d].blue)
            /\ ShowsIn(robots, d, "yellow", newest[d].yellow)
        BY ShowsHere DEF IInv, SceneShowsNewestFrames
      <4>. QED BY <4>1, <4>2, SameShows
    <3>. QED BY <3>1, <3>2
  <2>. QED BY <2>2 DEF ShowsIn, OwnedIn, Shows, Visible, Owned
<1>7. BallsShowNewestFrames'
  BY <1>1, <1>3, <1>4 DEF IInv, BallsShowNewestFrames
<1>8. Recycling
  <2>. SUFFICES ASSUME NEW d \in CameraIds
                PROVE  /\ RecyclesFor(d, "blue", newest'[d].blue)
                       /\ RecyclesFor(d, "yellow", newest'[d].yellow)
    BY DEF Recycling
  <2>1. CASE d = c BY <1>2, <1>3, <2>1 DEF RecyclesFor
  <2>2. CASE d # c
    <3>1. /\ OwnedIn(robots', d, "blue") = OwnedIn(robots, d, "blue")
          /\ OwnedIn(robots', d, "yellow") = OwnedIn(robots, d, "yellow")
      BY <1>2, <2>2 DEF SameFor, Teams
    <3>2. newest'[d] = newest[d] BY <1>3, <2>2
    <3>3. newest[d].blue \in Seq(Payloads) /\ newest[d].yellow \in Seq(Payloads)
      BY <1>1, FramesHaveLists DEF TypeOK
    <3>4. /\ Enough(robots, d, "blue", newest[d].blue)
          /\ Enough(robots, d, "yellow", newest[d].yellow)
      BY DEF IInv, EnoughItems
    <3>. QED BY <3>1, <3>2, <3>3, <3>4, NothingNew
  <2>. QED BY <2>1, <2>2
<1>9. EnoughItems' BY <1>5, <1>8, RecyclingIsEnough
<1>. QED BY <1>5, <1>6, <1>7, <1>8, <1>9 DEF IInv

LEMMA Inductive == SceneSpec => []IInv
<1>1. IInv /\ [SceneNext]_sceneVars => IInv'
  <2>. SUFFICES ASSUME IInv, [SceneNext]_sceneVars PROVE IInv'
    OBVIOUS
  <2>1. CASE UNCHANGED sceneVars
    <3>1. robots' = robots /\ ballItems' = ballItems /\ newest' = newest BY <2>1 DEF sceneVars
    <3>2. \A c, t : Owned(c, t)' = Owned(c, t) BY <3>1 DEF Owned
    <3>3. \A c, t : Visible(c, t)' = Visible(c, t) BY <3>1, <3>2 DEF Visible
    <3>4. \A c, t, list : Shows(c, t, list)' <=> Shows(c, t, list) BY <3>1, <3>3 DEF Shows
    <3>5. SceneShowsNewestFrames' BY <3>1, <3>4 DEF IInv, SceneShowsNewestFrames
    <3>6. EnoughItems' BY <3>1 DEF IInv, EnoughItems, Enough, OwnedIn
    <3>7. TypeOK' /\ BallsShowNewestFrames' BY <3>1 DEF IInv, TypeOK, BallsShowNewestFrames
    <3>. QED BY <3>5, <3>6, <3>7 DEF IInv
  <2>2. CASE SceneNext BY <2>2, UpdateKeeps DEF SceneNext
  <2>. QED BY <2>1, <2>2
<1>. QED BY <1>1, InitEstablishes, PTL DEF SceneSpec

(* Whatever frames of other cameras came in between, the robots that are    *)
(* visible for a camera and team are those of its newest frame, in order.   *)
THEOREM NewestRobotsAreShown == SceneSpec => []SceneShowsNewestFrames
<1>1. IInv => SceneShowsNewestFrames BY DEF IInv
<1>. QED BY <1>1, Inductive, PTL

(* And so are the balls. *)
THEOREM NewestBallsAreShown == SceneSpec => []BallsShowNewestFrames
<1>1. IInv => BallsShowNewestFrames BY DEF IInv
<1>. QED BY <1>1, Inductive, PTL

(* The scene does not grow with time: a frame makes items only where those  *)
(* of its camera and team are too few for it, as many as are missing, and   *)
(* none is ever lost.                                                       *)
THEOREM ItemsDoNotPileUp == SceneSpec => ItemsAreRecycled
<1>1. ASSUME Recycling, NEW c \in CameraIds
      PROVE  /\ Cardinality(Owned(c, "blue"))' =
                  Larger(Cardinality(Owned(c, "blue")), Len(newest'[c].blue))
             /\ Cardinality(Owned(c, "yellow"))' =
                  Larger(Cardinality(Owned(c, "yellow")), Len(newest'[c].yellow))
  BY <1>1 DEF Recycling, RecyclesFor, Recycled, Owned, OwnedIn
<1>2. IInv /\ [SceneNext]_sceneVars =>
        [\A c \in CameraIds :
          /\ Cardinality(Owned(c, "blue"))' =
               Larger(Cardinality(Owned(c, "blue")), Len(newest'[c].blue))
          /\ Cardinality(Owned(c, "yellow"))' =
               Larger(Cardinality(Owned(c, "yellow")), Len(newest'[c].yellow))]_sceneVars
  BY <1>1, UpdateKeeps DEF SceneNext
<1>. QED BY <1>2, Inductive, PTL DEF SceneSpec, ItemsAreRecycled

-----------------------------------------------------------------------------
(***************************************************************************)
(* The frame the receiver and the GUI share, and the zoom of the view, for *)
(* any number of frames and moves: the zoom is off the slider by just the  *)
(* scalings that went missing; and the screen shows the newest frame once  *)
(* the GUI has caught up.                                                  *)
(***************************************************************************)

(* A request not yet done is the difference between slider and view. *)
Pending == IF scalingRequested THEN drawscale ELSE 0

ZoomInv ==
    /\ zoom \in Int /\ lost \in Int /\ drawscale \in Int
    /\ sizescene \in 1..20
    /\ scalingRequested \in BOOLEAN
    /\ zoom + Pending + lost = sizescene - 10

LEMMA InitialZoom == Init => ZoomInv
<1> SUFFICES ASSUME Init PROVE ZoomInv OBVIOUS
<1>1. /\ zoom = 0 /\ sizescene = 8 /\ drawscale = 8 - 10
      /\ scalingRequested = TRUE /\ lost = 0
  BY DEF Init
<1>2. Pending = 8 - 10 BY <1>1 DEF Pending
<1>3. zoom + Pending + lost = sizescene - 10 BY <1>1, <1>2
<1>4. /\ zoom \in Int /\ lost \in Int /\ drawscale \in Int
      /\ sizescene \in 1..20
  BY <1>1
<1>5. scalingRequested \in BOOLEAN BY <1>1
<1> QED BY <1>3, <1>4, <1>5 DEF ZoomInv

(* A move asks for the way from the last position; what it replaces is lost. *)
LEMMA MoveKeepsZoomInv == ZoomInv /\ MoveSlider => ZoomInv'
<1> SUFFICES ASSUME ZoomInv, MoveSlider PROVE ZoomInv' OBVIOUS
<1>1. PICK position \in Positions \ {sizescene} : scaleView(position)
  BY DEF MoveSlider
<1>2. position \in 1..20 BY <1>1, PositionAssumption
<1>3. /\ drawscale' = position - sizescene /\ sizescene' = position
      /\ scalingRequested' = TRUE
  BY <1>1 DEF scaleView
<1>4. zoom' = zoom /\ lost' = lost + Pending
  BY DEF MoveSlider, Pending, ZoomInv
<1>5. Pending \in Int BY DEF ZoomInv, Pending
<1>6. Pending' = position - sizescene BY <1>3 DEF Pending
<1>7. /\ zoom' \in Int /\ lost' \in Int /\ drawscale' \in Int
      /\ sizescene' \in 1..20
  BY <1>2, <1>3, <1>4, <1>5 DEF ZoomInv
<1>8. zoom + Pending + lost = sizescene - 10 BY DEF ZoomInv
<1>9. zoom' + Pending' + lost' = sizescene' - 10
  BY <1>2, <1>3, <1>4, <1>5, <1>6, <1>8 DEF ZoomInv
<1> QED BY <1>3, <1>7, <1>9 DEF ZoomInv

(* updateView does what is pending, or it is lost. *)
LEMMA UpdateKeepsZoomInv == ZoomInv /\ updateView => ZoomInv'
<1> SUFFICES ASSUME ZoomInv, updateView PROVE ZoomInv' OBVIOUS
<1>1. sizescene' = sizescene /\ drawscale' = drawscale BY DEF updateView
<1>2. CASE scalingRequested
  <2>1. /\ zoom' = IF Allowed(zoom + drawscale) THEN zoom + drawscale ELSE zoom
        /\ lost' = IF Allowed(zoom + drawscale) THEN lost ELSE lost + drawscale
        /\ scalingRequested' = FALSE
    BY <1>2 DEF updateView, RequestDone
  <2>2. zoom' \in Int /\ lost' \in Int BY <2>1 DEF ZoomInv
  <2>3. zoom + drawscale + lost = sizescene - 10 BY <1>2 DEF ZoomInv, Pending
  <2>4. Pending' = 0 BY <2>1 DEF Pending
  <2>5. zoom' + lost' = zoom + drawscale + lost BY <2>1 DEF ZoomInv
  <2>6. zoom' + 0 + lost' = sizescene' - 10 BY <1>1, <2>2, <2>3, <2>5
  <2>7. (zoom + Pending + lost = sizescene - 10)' BY <2>4, <2>6
  <2> QED BY <1>1, <2>1, <2>2, <2>7 DEF ZoomInv
<1>3. CASE ~scalingRequested
  BY <1>1, <1>3 DEF updateView, ZoomInv, Pending
<1> QED BY <1>2, <1>3

LEMMA StepKeepsZoomInv == ZoomInv /\ [Next]_vars => ZoomInv'
<1> SUFFICES ASSUME ZoomInv, [Next]_vars PROVE ZoomInv' OBVIOUS
<1>1. CASE MoveSlider BY <1>1, MoveKeepsZoomInv
<1>2. CASE updateView BY <1>2, UpdateKeepsZoomInv
<1>3. CASE UNCHANGED zoomVars BY <1>3 DEF zoomVars, ZoomInv, Pending
<1>4. CASE ReceiverStep
  BY <1>3, <1>4 DEF ReceiverStep, CopyStep, ReceiveFrame, CopyRobot, CopyFinished,
     Dispatch, guiVars
<1>5. CASE EmitView BY <1>3, <1>5 DEF EmitView, guiVars
<1>6. CASE BeginRedraw \/ ShowRobot \/ EndRedraw
  BY <1>3, <1>6 DEF BeginRedraw, ShowRobot, EndRedraw, zoomVars
<1>7. CASE UNCHANGED vars BY <1>3, <1>7 DEF vars, guiVars
<1> QED BY <1>1, <1>2, <1>4, <1>5, <1>6, <1>7 DEF Next, GuiStep

LEMMA ZoomInvHolds == Spec => []ZoomInv
BY InitialZoom, StepKeepsZoomInv, PTL DEF Spec

(* With no request left, the view has the scale the slider shows, less just *)
(* the moves replaced before they took effect or refused                    *)
(* (larcmacs.cpp:226-258).                                                  *)
THEOREM ZoomIsTheSliders == Spec => []ZoomFollowsSlider
<1>1. ZoomInv => ZoomFollowsSlider BY DEF ZoomInv, ZoomFollowsSlider, Pending
<1> QED BY <1>1, ZoomInvHolds, PTL
-----------------------------------------------------------------------------
(* What is on the screen once the queue has been served. *)

Events == {"robots", "view"}

FrameTypes ==
    /\ rpc \in {"receive", "copy", "dispatch"}
    /\ frames \in Nat /\ announced \in Nat /\ toCopy \in Int
    /\ detection \in Seq(Nat) /\ screen \in Seq(Nat)
    /\ events \in Seq(Events)
    /\ robots_n \in Nat /\ drawing \in BOOLEAN

(* A frame still being received is newer than any that was announced. *)
NotYetAnnounced ==
    /\ announced <= frames
    /\ rpc # "receive" => announced < frames

(* The newest frame was announced and is no longer in the queue. *)
Served == rpc = "receive" /\ announced = frames /\ ~Contains(events, "robots")

(* What has been shown so far is the beginning of it. *)
BeginningShown ==
    /\ Len(screen) <= Len(detection)
    /\ \A i \in 1..Len(screen) : screen[i] = detection[i]

NewestOnScreen ==
    Served => IF drawing THEN robots_n = Len(detection) /\ BeginningShown
              ELSE screen = detection

SInv == FrameTypes /\ NotYetAnnounced /\ NewestOnScreen

LEMMA EventAppended ==
    ASSUME NEW q \in Seq(Events), NEW e \in Events
    PROVE  /\ Append(q, e) \in Seq(Events)
           /\ Contains(Append(q, e), "robots") <=> Contains(q, "robots") \/ e = "robots"
BY DEF Contains

LEMMA EventServed ==
    ASSUME NEW q \in Seq(Events), q # <<>>
    PROVE  /\ Tail(q) \in Seq(Events)
           /\ Head(q) = "view" => (Contains(Tail(q), "robots") <=> Contains(q, "robots"))
<1>1. Tail(q) \in Seq(Events) OBVIOUS
<1>2. ASSUME Contains(Tail(q), "robots") PROVE Contains(q, "robots")
  <2>1. PICK i \in 1..Len(Tail(q)) : Tail(q)[i] = "robots" BY <1>2 DEF Contains
  <2>2. i + 1 \in 1..Len(q) /\ q[i + 1] = "robots" BY <2>1
  <2>. QED BY <2>2 DEF Contains
<1>3. ASSUME Contains(q, "robots"), Head(q) = "view" PROVE Contains(Tail(q), "robots")
  <2>1. PICK i \in 1..Len(q) : q[i] = "robots" BY <1>3 DEF Contains
  <2>2. i # 1 BY <1>3, <2>1
  <2>3. i - 1 \in 1..Len(Tail(q)) /\ Tail(q)[i - 1] = "robots" BY <2>1, <2>2
  <2>. QED BY <2>3 DEF Contains
<1>. QED BY <1>1, <1>2, <1>3

LEMMA ReceiverKeepsScreen ==
    SInv /\ ReceiverStep => SInv'
<1>. SUFFICES ASSUME SInv, ReceiverStep PROVE SInv'
  OBVIOUS
<1>. USE DEF guiVars, redrawVars
<1>1. CASE ReceiveFrame
  <2>1. frames' = frames + 1 /\ announced' = announced /\ rpc' = "copy"
    BY <1>1 DEF ReceiveFrame
  <2>2. FrameTypes' BY <1>1, BoundsAssumption DEF ReceiveFrame, SInv, FrameTypes
  <2>3. NotYetAnnounced' BY <2>1 DEF SInv, FrameTypes, NotYetAnnounced
  <2>. QED BY <2>1, <2>2, <2>3 DEF SInv, NewestOnScreen, Served
<1>2. CASE CopyRobot
  <2>1. frames' = frames /\ announced' = announced /\ rpc' = "copy" /\ rpc = "copy"
    BY <1>2 DEF CopyRobot
  <2>2. FrameTypes' BY <1>2 DEF CopyRobot, SInv, FrameTypes
  <2>. QED BY <2>1, <2>2 DEF SInv, NotYetAnnounced, NewestOnScreen, Served
<1>3. CASE CopyFinished
  <2>1. frames' = frames /\ announced' = announced /\ rpc' = "dispatch" /\ rpc = "copy"
    BY <1>3 DEF CopyFinished
  <2>2. FrameTypes' BY <1>3 DEF CopyFinished, SInv, FrameTypes
  <2>. QED BY <2>1, <2>2 DEF SInv, NotYetAnnounced, NewestOnScreen, Served
<1>4. CASE Dispatch /\ activateGUI
  <2>1. /\ announced' = frames /\ frames' = frames
        /\ events' = Append(events, "robots")
        /\ UNCHANGED <<toCopy, detection, drawing, robots_n, screen>>
        /\ rpc' = "receive"
    BY <1>4 DEF Dispatch, activateGUI
  <2>2. events' \in Seq(Events) /\ Contains(events', "robots")
    BY <2>1, EventAppended DEF SInv, FrameTypes, Events
  <2>3. FrameTypes' BY <2>1, <2>2 DEF SInv, FrameTypes
  <2>4. NotYetAnnounced' BY <2>1 DEF SInv, FrameTypes, NotYetAnnounced
  <2>. QED BY <2>2, <2>3, <2>4 DEF SInv, NewestOnScreen, Served
<1>5. CASE Dispatch /\ UNCHANGED <<announced, events>>
  <2>1. /\ announced' = announced /\ frames' = frames /\ announced < frames
        /\ UNCHANGED <<toCopy, detection, drawing, robots_n, screen, events>>
        /\ rpc' = "receive"
    BY <1>5 DEF Dispatch, SInv, NotYetAnnounced
  <2>2. FrameTypes' BY <2>1 DEF SInv, FrameTypes
  <2>3. NotYetAnnounced' BY <2>1 DEF SInv, FrameTypes, NotYetAnnounced
  <2>4. ~Served' BY <2>1 DEF SInv, FrameTypes, Served
  <2>. QED BY <2>2, <2>3, <2>4 DEF SInv, NewestOnScreen
<1>. QED BY <1>1, <1>2, <1>3, <1>4, <1>5 DEF ReceiverStep, CopyStep, Dispatch

LEMMA GuiKeepsScreen ==
    SInv /\ (EmitView \/ GuiStep \/ MoveSlider \/ UNCHANGED vars) => SInv'
<1>. SUFFICES ASSUME SInv, EmitView \/ GuiStep \/ MoveSlider \/ UNCHANGED vars PROVE SInv'
  OBVIOUS
<1>. USE DEF receiverVars, redrawVars
<1>1. UNCHANGED receiverVars
  BY DEF EmitView, GuiStep, BeginRedraw, ShowRobot, EndRedraw, updateView, MoveSlider, vars
<1>2. NotYetAnnounced' BY <1>1 DEF SInv, NotYetAnnounced
<1>3. CASE MoveSlider \/ UNCHANGED vars
  <2>1. UNCHANGED <<events, drawing, robots_n, screen>>
    BY <1>3 DEF MoveSlider, vars, guiVars
  <2>. QED
    BY <1>1, <1>2, <2>1 DEF SInv, FrameTypes, NewestOnScreen, Served, BeginningShown
<1>4. CASE EmitView \/ updateView
  <2>1. UNCHANGED <<drawing, robots_n, screen>>
    BY <1>4 DEF EmitView, updateView, guiVars
  <2>2. events' \in Seq(Events) /\ (Contains(events', "robots") <=> Contains(events, "robots"))
    <3>1. CASE EmitView
      BY <3>1, EventAppended DEF EmitView, SInv, FrameTypes, Events
    <3>2. CASE updateView
      BY <3>2, EventServed DEF updateView, Serve, SInv, FrameTypes
    <3>. QED BY <1>4, <3>1, <3>2
  <2>3. FrameTypes' BY <1>1, <2>1, <2>2 DEF SInv, FrameTypes
  <2>4. Served' <=> Served BY <1>1, <2>2 DEF Served
  <2>. QED BY <1>1, <1>2, <2>1, <2>3, <2>4 DEF SInv, NewestOnScreen, BeginningShown
<1>5. CASE BeginRedraw
  <2>1. /\ drawing' = TRUE /\ robots_n' = Len(detection) /\ screen' = <<>>
        /\ events' \in Seq(Events)
    BY <1>5, EventServed DEF BeginRedraw, Serve, SInv, FrameTypes
  <2>2. FrameTypes' BY <1>1, <2>1 DEF SInv, FrameTypes
  <2>3. BeginningShown' BY <1>1, <2>1 DEF SInv, FrameTypes, BeginningShown
  <2>. QED BY <1>1, <1>2, <2>1, <2>2, <2>3 DEF SInv, NewestOnScreen
<1>6. CASE ShowRobot
  <2>1. PICK robot \in RobotsRead : screen' = Append(screen, robot)
    BY <1>6 DEF ShowRobot
  <2>2. UNCHANGED <<events, drawing, robots_n>> /\ drawing /\ NextIndex <= robots_n
    BY <1>6 DEF ShowRobot
  <2>3. robot \in Nat BY <2>1 DEF RobotsRead, NextIndex, SInv, FrameTypes
  <2>4. FrameTypes' BY <1>1, <2>1, <2>2, <2>3 DEF SInv, FrameTypes
  <2>5. ASSUME Served PROVE robots_n = Len(detection) /\ BeginningShown'
    <3>1. robots_n = Len(detection) /\ BeginningShown
      BY <2>2, <2>5 DEF SInv, NewestOnScreen
    <3>2. robot = detection[Len(screen) + 1]
      BY <2>1, <2>2, <2>5, <3>1 DEF RobotsRead, NextIndex, Served, SInv, FrameTypes
    <3>3. Len(screen) + 1 <= Len(detection) BY <2>2, <3>1 DEF NextIndex
    <3>. QED BY <1>1, <2>1, <2>3, <3>1, <3>2, <3>3 DEF BeginningShown, SInv, FrameTypes
  <2>6. Served' <=> Served BY <1>1, <2>2 DEF Served
  <2>. QED BY <1>1, <1>2, <2>2, <2>4, <2>5, <2>6 DEF SInv, NewestOnScreen
<1>7. CASE EndRedraw
  <2>1. /\ drawing /\ ~drawing' /\ drawing' = FALSE /\ NextIndex > robots_n
        /\ UNCHANGED <<events, robots_n, screen>>
    BY <1>7 DEF EndRedraw
  <2>2. FrameTypes' BY <1>1, <2>1 DEF SInv, FrameTypes
  <2>3. ASSUME Served PROVE screen = detection
    <3>1. robots_n = Len(detection) /\ BeginningShown
      BY <2>1, <2>3 DEF SInv, NewestOnScreen
    <3>2. Len(screen) = Len(detection)
      BY <2>1, <3>1 DEF NextIndex, BeginningShown, SInv, FrameTypes
    <3>. QED BY <3>1, <3>2 DEF BeginningShown, SInv, FrameTypes
  <2>4. Served' <=> Served BY <1>1, <2>1 DEF Served
  <2>. QED BY <1>1, <1>2, <2>1, <2>2, <2>3, <2>4 DEF SInv, NewestOnScreen
<1>. QED BY <1>3, <1>4, <1>5, <1>6, <1>7 DEF GuiStep

(* Frames may overtake a redraw, be torn by it or go by unannounced: once    *)
(* the GUI has served its queue and the newest frame was announced, the      *)
(* screen shows that frame and nothing of an older one.                      *)
THEOREM TornPictureDoesNotLast == Spec => []SettledScreenIsNewest
<1>1. Init => SInv
  <2>. SUFFICES ASSUME Init PROVE SInv
    OBVIOUS
  <2>0. /\ rpc = "receive" /\ frames = 0 /\ announced = 0 /\ toCopy = 0
        /\ detection = <<>> /\ screen = <<>> /\ events = <<>>
        /\ robots_n = 0 /\ drawing = FALSE
    BY DEF Init
  <2>e. <<>> \in Seq(Nat) /\ <<>> \in Seq(Events)
    OBVIOUS
  <2>s. detection \in Seq(Nat) /\ screen \in Seq(Nat) /\ events \in Seq(Events)
    BY <2>0, <2>e, Zenon
  <2>n. /\ rpc \in {"receive", "copy", "dispatch"}
        /\ frames \in Nat /\ announced \in Nat /\ toCopy \in Int /\ robots_n \in Nat
    BY <2>0
  <2>b. drawing \in BOOLEAN BY <2>0
  <2>1. FrameTypes BY <2>s, <2>n, <2>b DEF FrameTypes
  <2>2. NotYetAnnounced BY DEF Init, NotYetAnnounced
  <2>3. ~drawing /\ screen = detection BY DEF Init
  <2>. QED BY <2>1, <2>2, <2>3 DEF SInv, NewestOnScreen
<1>2. SInv /\ [Next]_vars => SInv'
  BY ReceiverKeepsScreen, GuiKeepsScreen DEF Next
<1>3. SInv => SettledScreenIsNewest
  BY DEF SInv, NewestOnScreen, Served, SettledScreenIsNewest
<1>. QED BY <1>1, <1>2, <1>3, PTL DEF Spec

=============================================================================
