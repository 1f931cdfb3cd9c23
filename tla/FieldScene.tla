----------------------------- MODULE FieldScene -----------------------------
(***************************************************************************)
(* FieldScene::UpdateRobots: how the GUI keeps one list of robot items for *)
(* all cameras and both teams in step with frames that each show a single  *)
(* camera.  Items are never removed, only reused by the same camera and    *)
(* team or hidden (confidence 0); balls are kept per camera.               *)
(*                                                                         *)
(* What is drawn (label, pose, position) is abstracted to a payload; a     *)
(* robot that is listed is taken to have a confidence above 0, since an    *)
(* item shown with none could not be told from a hidden one.  A frame is   *)
(* taken as a whole: SharedFrame is about frames that change under the     *)
(* reader.                                                                 *)
(***************************************************************************)
EXTENDS Integers, FiniteSets, Sequences

CONSTANTS
    Cameras,     \* camera_id values.
    Payloads,    \* What a detection makes an item show.
    Lists        \* Per kind of detection, the lists a frame may hold.

Kinds == {"blue", "yellow", "balls"}

ASSUME SceneAssumption ==
    /\ Cameras \in Nat
    /\ \A kind \in Kinds : Lists[kind] \subseteq Seq(Payloads) /\ <<>> \in Lists[kind]

CameraIds == 0..(Cameras - 1)

VARIABLES
    robots,      \* The scene's robot items, in order of creation.
    ballItems,   \* Per camera, the ball items.
    newest       \* History: the last frame shown of each camera.

sceneVars == <<robots, ballItems, newest>>

Frames == [camera_id : CameraIds, blue : Lists["blue"],
           yellow : Lists["yellow"], balls : Lists["balls"]]

SceneInit ==
    /\ robots = <<>>
    /\ ballItems = [c \in CameraIds |-> <<>>]
    /\ newest = [c \in CameraIds |->
                   [camera_id |-> c, blue |-> <<>>, yellow |-> <<>>, balls |-> <<>>]]

Belongs(item, camera, team) == item.key = camera /\ item.teamID = team

SeekNoMatch(items, j, camera, team) == Len(items) + 1

(* Lines 197-198: the next item of this camera and team from j on, or the *)
(* place after the last one.                                              *)
Seek(items, j, camera, team) ==
    LET hits == {k \in j..Len(items) : Belongs(items[k], camera, team)}
    IN IF hits = {} THEN Len(items) + 1
       ELSE CHOOSE k \in hits : \A l \in hits : k <= l

NewItem(camera, team, payload) ==
    [key |-> camera, teamID |-> team, shows |-> payload, conf |-> TRUE]

(* Lines 200-217 for one detection; scan.j is bluej or yellowj. *)
Place(scan, payload, camera, team) ==
    LET k == Seek(scan.items, scan.j, camera, team) IN
    [items |-> IF k > Len(scan.items)
               THEN Append(scan.items, NewItem(camera, team, payload))
               ELSE [scan.items EXCEPT ![k].shows = payload, ![k].conf = TRUE],
     j     |-> k + 1]

PlaceAll(items, list, camera, team) ==
    LET scan[n \in 0..Len(list)] ==
          IF n = 0 THEN [items |-> items, j |-> 1]
          ELSE Place(scan[n - 1], list[n], camera, team)
    IN scan[Len(list)]

HideAnyCamera(items, from, camera, team) ==
    [k \in DOMAIN items |->
        IF k >= from /\ items[k].teamID = team
        THEN [items[k] EXCEPT !.conf = FALSE] ELSE items[k]]

(* Lines 224-233: what the frame no longer lists disappears. *)
Hide(items, from, camera, team) ==
    [k \in DOMAIN items |->
        IF k >= from /\ Belongs(items[k], camera, team)
        THEN [items[k] EXCEPT !.conf = FALSE] ELSE items[k]]

DropNoBalls(items, n) == items
(* Lines 249-255: superfluous items are removed from the front. *)
DropBalls(items, n) ==
    IF Len(items) > n THEN SubSeq(items, Len(items) - n + 1, Len(items)) ELSE items

(* Lines 239-259: as many items as balls, each moved to its ball. *)
PlaceBalls(items, balls) ==
    LET kept == DropBalls(items, Len(balls))
    IN [i \in 1..(IF Len(kept) > Len(balls) THEN Len(kept) ELSE Len(balls)) |->
          IF i <= Len(balls) THEN balls[i] ELSE kept[i]]

UpdateRobots(frame) ==
    LET c      == frame.camera_id
        blue   == PlaceAll(robots, frame.blue, c, "blue")
        yellow == PlaceAll(blue.items, frame.yellow, c, "yellow")
    IN
    /\ robots' = Hide(Hide(yellow.items, blue.j, c, "blue"), yellow.j, c, "yellow")
    /\ ballItems' = [ballItems EXCEPT ![c] = PlaceBalls(@, frame.balls)]
    /\ newest' = [newest EXCEPT ![c] = frame]

SceneNext == \E frame \in Frames : UpdateRobots(frame)

SceneSpec == SceneInit /\ [][SceneNext]_sceneVars

-----------------------------------------------------------------------------
(* Properties. *)

Owned(camera, team) == {k \in DOMAIN robots : Belongs(robots[k], camera, team)}
Visible(camera, team) == {k \in Owned(camera, team) : robots[k].conf}

(* The visible items of a camera and team are those of the list, in order. *)
Shows(camera, team, list) ==
    \E item \in [DOMAIN list -> Visible(camera, team)] :
        /\ \A m, n \in DOMAIN list : m < n => item[m] < item[n]
        /\ \A k \in Visible(camera, team) : \E n \in DOMAIN list : item[n] = k
        /\ \A n \in DOMAIN list : robots[item[n]].shows = list[n]

(* Whatever frames of other cameras came in between, the visible robots of  *)
(* a camera and team are those of its newest frame, in its order: nothing   *)
(* stays on the field, disappears with another camera's frame or is shown   *)
(* twice because items are shared.                                          *)
SceneShowsNewestFrames ==
    \A c \in CameraIds :
        /\ Shows(c, "blue", newest[c].blue)
        /\ Shows(c, "yellow", newest[c].yellow)

(* The same for the balls. *)
BallsShowNewestFrames == \A c \in CameraIds : ballItems[c] = newest[c].balls

Larger(a, b) == IF a < b THEN b ELSE a

(* Robot items are recycled: whichever camera a frame is of, it makes of    *)
(* each camera's items of a team exactly as many as there were or, if that  *)
(* is too few, as that camera's newest frame lists.  So none is made while  *)
(* one can be reused, none is lost or changes hands, and the scene never    *)
(* grows beyond the largest frames.                                         *)
ItemsAreRecycled ==
    [][\A c \in CameraIds :
         /\ Cardinality(Owned(c, "blue"))' =
              Larger(Cardinality(Owned(c, "blue")), Len(newest'[c].blue))
         /\ Cardinality(Owned(c, "yellow"))' =
              Larger(Cardinality(Owned(c, "yellow")), Len(newest'[c].yellow))]_sceneVars

=============================================================================
