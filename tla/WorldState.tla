----------------------------- MODULE WorldState -----------------------------
(***************************************************************************)
(* How ReceiverWorker::run merges the frames of several cameras into the   *)
(* one packetssl the algorithm sees.  Each camera reports every frame on   *)
(* its own; packetssl keeps, per robot, the camera that claims it (0: not  *)
(* on the field) and the last pose, and a single ball.                     *)
(*                                                                         *)
(* A position is abstracted to where it was read: the number of the frame  *)
(* and the place in its list.  The two teams are merged by the same code.  *)
(* Robot ids are those vision assigns to twelve-robot teams, so the four   *)
(* columns of the array never overlap.                                     *)
(***************************************************************************)
EXTENDS Integers, Sequences

CONSTANTS
    NumCameras,
    Robots,      \* Robot ids that may be detected.
    Teams,
    MaxListed,   \* Bound: detections of one team in a frame.
    MaxFrames    \* Bound: frames received.

ASSUME CameraAssumption == NumCameras \in Nat
ASSUME ListAssumption == MaxListed \in Nat /\ MaxFrames \in Nat

VARIABLES
    packetssl,   \* [balls |-> ..., robots |-> [Teams -> [Robots -> ...]]]
    log          \* History: the detection frames received.

vars == <<packetssl, log>>

Lists == UNION {[1..n -> Robots] : n \in 0..MaxListed}

Frames == [camera_id : 0..(NumCameras - 1),
           ball : BOOLEAN,
           robots : [Teams -> Lists]]

(* The memset of PacketSSL's constructor; camera 0 means: not seen. *)
Init ==
    /\ packetssl = [balls |-> [camera |-> 0, at |-> 0],
                    robots |-> [t \in Teams |->
                                  [r \in Robots |-> [camera |-> 0, pose |-> <<0, 0>>]]]]
    /\ log = <<>>

(* Camera numbers are stored from one, 0 being taken. *)
IdCam(frame) == frame.camera_id + 1

MergeBallKeepingLost(balls, frame, n) ==
    IF frame.ball THEN [camera |-> IdCam(frame), at |-> n] ELSE balls

(* Lines 45-53: the first ball of the frame, or no ball at all. *)
MergeBall(balls, frame, n) ==
    IF frame.ball THEN [camera |-> IdCam(frame), at |-> n]
    ELSE [balls EXCEPT !.camera = 0]

Listed(list, r) == \E i \in DOMAIN list : list[i] = r

(* A robot listed twice keeps what the last entry says. *)
LastPlace(list, r) ==
    CHOOSE i \in DOMAIN list :
        list[i] = r /\ \A j \in DOMAIN list : list[j] = r => j <= i

DisownNothing(robot, frame) == robot

(* Lines 60-62, 72-74: forget what this camera claimed before. *)
Disown(robot, frame) ==
    IF robot.camera = IdCam(frame) THEN [robot EXCEPT !.camera = 0] ELSE robot

(* Lines 64-70, 76-82. *)
MergeRobots(robots, list, frame, n) ==
    [r \in Robots |->
        IF Listed(list, r)
        THEN [camera |-> IdCam(frame), pose |-> <<n, LastPlace(list, r)>>]
        ELSE Disown(robots[r], frame)]

ReceiveDetection(frame) ==
    LET n == Len(log) + 1 IN
    /\ n <= MaxFrames
    /\ packetssl' =
         [balls  |-> MergeBall(packetssl.balls, frame, n),
          robots |-> [t \in Teams |->
                        MergeRobots(packetssl.robots[t], frame.robots[t], frame, n)]]
    /\ log' = Append(log, frame)

Next == \E frame \in Frames : ReceiveDetection(frame)

Spec == Init /\ [][Next]_vars

-----------------------------------------------------------------------------
(* Properties. *)

Sightings(t, r) == {n \in DOMAIN log : Listed(log[n].robots[t], r)}

Newest(frames) == CHOOSE n \in frames : \A m \in frames : m <= n

FramesFrom(camera) == {n \in DOMAIN log : log[n].camera_id = camera}

Superseded(n) == n # Newest(FramesFrom(log[n].camera_id))

(* The merge, frame by frame, computes this of the whole history: a robot is *)
(* where it was sighted last, by whichever camera, and claimed by that       *)
(* camera until the camera's next frame misses it.                           *)
RobotsMatchHistory ==
    \A t \in Teams, r \in Robots :
        LET seen == Sightings(t, r)
            n    == Newest(seen)
        IN packetssl.robots[t][r] =
             IF seen = {} THEN [camera |-> 0, pose |-> <<0, 0>>]
             ELSE [camera |-> IF Superseded(n) THEN 0 ELSE log[n].camera_id + 1,
                   pose   |-> <<n, LastPlace(log[n].robots[t], r)>>]

(* The ball is claimed exactly when the newest frame of all shows one, and *)
(* its position is that of the last frame that showed one.                 *)
BallMatchesHistory ==
    LET shown == {n \in DOMAIN log : log[n].ball} IN
    /\ packetssl.balls.at = IF shown = {} THEN 0 ELSE Newest(shown)
    /\ packetssl.balls.camera =
         IF Len(log) \in shown THEN log[Len(log)].camera_id + 1 ELSE 0

=============================================================================
