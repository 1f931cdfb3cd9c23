-------------------------- MODULE WorldStateProofs --------------------------
(***************************************************************************)
(* Proofs about WorldState, for every number of cameras, any teams and     *)
(* robots and any history of frames: merging frame by frame computes what  *)
(* the whole history says.                                                 *)
(***************************************************************************)
EXTENDS WorldState, TLAPS

IsNewest(n, frames) == n \in frames /\ \A m \in frames : m <= n

(* There is a newest sighting once there is a sighting. *)
SightingsHaveNewest ==
    \A t \in Teams, r \in Robots :
        Sightings(t, r) # {} => \E n \in Sightings(t, r) : IsNewest(n, Sightings(t, r))

ShownBall == {n \in DOMAIN log : log[n].ball}

BallShape ==
    /\ packetssl.balls = [camera |-> packetssl.balls.camera, at |-> packetssl.balls.at]
    /\ ShownBall # {} => \E n \in ShownBall : IsNewest(n, ShownBall)

MInv ==
    /\ log \in Seq(Frames)
    /\ SightingsHaveNewest
    /\ BallShape
    /\ RobotsMatchHistory
    /\ BallMatchesHistory

LEMMA NewestIs ==
    ASSUME NEW frames \in SUBSET Nat, NEW n, IsNewest(n, frames)
    PROVE  Newest(frames) = n
<1>1. Newest(frames) \in frames /\ \A m \in frames : m <= Newest(frames)
  BY DEF Newest, IsNewest
<1>2. n \in Nat /\ Newest(frames) \in Nat /\ n <= Newest(frames) /\ Newest(frames) <= n
  BY <1>1 DEF IsNewest
<1>. QED BY <1>2

-----------------------------------------------------------------------------
(* One more frame in the log. *)

LEMMA LogGrows ==
    ASSUME MInv, NEW frame \in Frames, ReceiveDetection(frame)
    PROVE  /\ Len(log) \in Nat
           /\ DOMAIN log = 1..Len(log)
           /\ log' \in Seq(Frames)
           /\ Len(log') = Len(log) + 1
           /\ DOMAIN log' = 1..(Len(log) + 1)
           /\ \A k \in 1..Len(log) : log'[k] = log[k]
           /\ log'[Len(log) + 1] = frame
<1>1. log \in Seq(Frames) /\ log' = Append(log, frame)
  BY DEF MInv, ReceiveDetection
<1>. QED BY <1>1

LEMMA SightingsGrow ==
    ASSUME MInv, NEW frame \in Frames, ReceiveDetection(frame),
           NEW n, n = Len(log) + 1, NEW t, NEW r
    PROVE  /\ Sightings(t, r) \in SUBSET (1..Len(log))
           /\ Listed(frame.robots[t], r) => Sightings(t, r)' = Sightings(t, r) \cup {n}
           /\ ~Listed(frame.robots[t], r) => Sightings(t, r)' = Sightings(t, r)
BY LogGrows DEF Sightings

LEMMA CameraFramesGrow ==
    ASSUME MInv, NEW frame \in Frames, ReceiveDetection(frame),
           NEW n, n = Len(log) + 1, NEW c
    PROVE  /\ FramesFrom(c) \in SUBSET (1..Len(log))
           /\ frame.camera_id = c => FramesFrom(c)' = FramesFrom(c) \cup {n}
           /\ frame.camera_id # c => FramesFrom(c)' = FramesFrom(c)
BY LogGrows DEF FramesFrom

(* The newest frame of a camera is superseded by nothing, and supersedes *)
(* every earlier frame of that camera and of no other.                   *)
LEMMA SupersededGrows ==
    ASSUME MInv, NEW frame \in Frames, ReceiveDetection(frame), NEW n, n = Len(log) + 1
    PROVE  /\ ~Superseded(n)'
           /\ \A k \in 1..Len(log) :
                 Superseded(k)' <=> \/ Superseded(k)
                                    \/ log[k].camera_id = frame.camera_id
<1>1. \A c : FramesFrom(c)' \in SUBSET Nat
  BY LogGrows, CameraFramesGrow
<1>2. n \in FramesFrom(frame.camera_id)' /\ \A m \in FramesFrom(frame.camera_id)' : m <= n
  <2>1. FramesFrom(frame.camera_id) \in SUBSET (1..Len(log))
    BY CameraFramesGrow
  <2>2. FramesFrom(frame.camera_id)' = FramesFrom(frame.camera_id) \cup {n}
    BY CameraFramesGrow
  <2>. QED BY <2>1, <2>2, LogGrows
<1>3. (CHOOSE k \in FramesFrom(frame.camera_id)' :
         \A m \in FramesFrom(frame.camera_id)' : m <= k) = n
  BY <1>1, <1>2
<1>4. \A c : c # frame.camera_id => FramesFrom(c)' = FramesFrom(c)
  BY CameraFramesGrow
<1>5. log'[n] = frame /\ n \notin 1..Len(log)
  BY LogGrows
<1>6. ~Superseded(n)'
  BY <1>3, <1>5 DEF Superseded, Newest
<1>7. ASSUME NEW k \in 1..Len(log)
      PROVE  Superseded(k)' <=> Superseded(k) \/ log[k].camera_id = frame.camera_id
  <2>1. log'[k] = log[k] /\ k # n BY LogGrows
  <2>2. CASE log[k].camera_id = frame.camera_id
    BY <1>3, <2>1, <2>2 DEF Superseded, Newest
  <2>3. CASE log[k].camera_id # frame.camera_id
    BY <1>4, <2>1, <2>3 DEF Superseded, Newest
  <2>. QED BY <2>2, <2>3
<1>. QED BY <1>6, <1>7

-----------------------------------------------------------------------------
(* The merge, one robot and the ball at a time. *)

Unseen == [camera |-> 0, pose |-> <<0, 0>>]

(* What the history says of a robot sighted last in frame n. *)
AsSighted(t, r, n) ==
    [camera |-> IF Superseded(n) THEN 0 ELSE log[n].camera_id + 1,
     pose   |-> <<n, LastPlace(log[n].robots[t], r)>>]

LEMMA RobotsStep ==
    ASSUME MInv, NEW frame \in Frames, ReceiveDetection(frame),
           NEW n, n = Len(log) + 1, NEW t \in Teams, NEW r \in Robots
    PROVE  packetssl'.robots[t][r] =
             IF Sightings(t, r)' = {} THEN Unseen
             ELSE AsSighted(t, r, Newest(Sightings(t, r)))'
<1> DEFINE new == packetssl'.robots[t][r]
           old == packetssl.robots[t][r]
<1>1. new = IF Listed(frame.robots[t], r)
            THEN [camera |-> IdCam(frame), pose |-> <<n, LastPlace(frame.robots[t], r)>>]
            ELSE Disown(old, frame)
  BY DEF ReceiveDetection, MergeRobots
<1>2. /\ Sightings(t, r) = {} => old = Unseen
      /\ Sightings(t, r) # {} => old = AsSighted(t, r, Newest(Sightings(t, r)))
  BY DEF MInv, RobotsMatchHistory, Unseen, AsSighted
<1>3. frame.camera_id \in Nat /\ \A k \in 1..Len(log) : log[k].camera_id \in Nat
  <2>1. \A f \in Frames : f.camera_id \in Nat BY DEF Frames
  <2>2. \A k \in 1..Len(log) : log[k] \in Frames BY LogGrows DEF MInv
  <2>. QED BY <2>1, <2>2
<1> HIDE DEF new, old
<1>4. CASE Listed(frame.robots[t], r)
  <2>1. Sightings(t, r)' = Sightings(t, r) \cup {n} BY <1>4, SightingsGrow
  <2>2. Newest(Sightings(t, r))' = n
    <3>1. n \in Sightings(t, r)' /\ Sightings(t, r)' \in SUBSET Nat
      BY <2>1, LogGrows, SightingsGrow
    <3>2. \A m \in Sightings(t, r)' : m <= n BY <2>1, LogGrows, SightingsGrow
    <3>. QED BY <3>1, <3>2 DEF Newest
  <2>3. log'[n] = frame /\ ~Superseded(n)' BY LogGrows, SupersededGrows
  <2>4. AsSighted(t, r, Newest(Sightings(t, r)))'
          = [camera |-> IdCam(frame), pose |-> <<n, LastPlace(frame.robots[t], r)>>]
    BY <2>2, <2>3 DEF AsSighted, IdCam, LastPlace
  <2>. QED BY <1>1, <1>4, <2>1, <2>4 DEF new
<1>5. CASE ~Listed(frame.robots[t], r)
  <2>1. Sightings(t, r)' = Sightings(t, r) BY <1>5, SightingsGrow
  <2>2. new = Disown(old, frame) BY <1>1, <1>5
  <2>3. CASE Sightings(t, r) = {}
    BY <1>2, <1>3, <2>1, <2>2, <2>3 DEF Disown, IdCam, Unseen, new
  <2>4. CASE Sightings(t, r) # {}
    <3>1. PICK k : IsNewest(k, Sightings(t, r))
      BY <2>4 DEF MInv, SightingsHaveNewest
    <3>2. k \in 1..Len(log) BY <3>1, SightingsGrow DEF IsNewest
    <3>3. Newest(Sightings(t, r)) = k
      BY <3>1, SightingsGrow, LogGrows, NewestIs
    <3>4. Newest(Sightings(t, r))' = k BY <2>1, <3>3 DEF Newest
    <3>5. old = AsSighted(t, r, k) BY <1>2, <2>4, <3>3
    <3>6. log'[k] = log[k] BY <3>2, LogGrows
    <3>7. Superseded(k)' <=> Superseded(k) \/ log[k].camera_id = frame.camera_id
      BY <3>2, SupersededGrows
    <3>8. new = [camera |-> IF Superseded(k)' THEN 0 ELSE log[k].camera_id + 1,
                 pose   |-> <<k, LastPlace(log[k].robots[t], r)>>]
      <4>1. CASE Superseded(k)
        BY <4>1, <1>3, <2>2, <3>2, <3>5, <3>7 DEF Disown, IdCam, AsSighted
      <4>2. CASE ~Superseded(k)
        BY <4>2, <1>3, <2>2, <3>2, <3>5, <3>7 DEF Disown, IdCam, AsSighted
      <4>. QED BY <4>1, <4>2
    <3>9. AsSighted(t, r, Newest(Sightings(t, r)))' = new
      BY <3>4, <3>6, <3>8 DEF AsSighted, LastPlace
    <3>. QED BY <2>1, <2>4, <3>9 DEF new
  <2>. QED BY <2>3, <2>4
<1>. QED BY <1>4, <1>5

LEMMA BallStep ==
    ASSUME MInv, NEW frame \in Frames, ReceiveDetection(frame)
    PROVE  BallShape' /\ BallMatchesHistory'
<1>1. PICK n : n = Len(log) + 1 OBVIOUS
<1>l. n \in Nat /\ Len(log) \in Nat /\ n > Len(log) /\ Len(log') = n
  BY <1>1, LogGrows
<1>2. ShownBall \in SUBSET (1..Len(log))
  BY LogGrows DEF ShownBall
<1>3. /\ frame.ball => ShownBall' = ShownBall \cup {n}
      /\ ~frame.ball => ShownBall' = ShownBall
  BY <1>1, LogGrows DEF ShownBall
<1>4. packetssl'.balls = IF frame.ball THEN [camera |-> IdCam(frame), at |-> n]
                         ELSE [packetssl.balls EXCEPT !.camera = 0]
  BY <1>1 DEF ReceiveDetection, MergeBall
<1>5. /\ packetssl.balls = [camera |-> packetssl.balls.camera, at |-> packetssl.balls.at]
      /\ packetssl.balls.at = IF ShownBall = {} THEN 0 ELSE Newest(ShownBall)
      /\ ShownBall # {} => \E k \in ShownBall : IsNewest(k, ShownBall)
  BY DEF MInv, BallShape, BallMatchesHistory, ShownBall
<1>6. CASE frame.ball
  <2>1. packetssl'.balls = [camera |-> IdCam(frame), at |-> n] BY <1>4, <1>6
  <2>2. ShownBall' = ShownBall \cup {n} BY <1>3, <1>6
  <2>3. IsNewest(n, ShownBall') /\ ShownBall' \in SUBSET Nat
    BY <1>2, <1>l, <2>2 DEF IsNewest
  <2>4. Newest(ShownBall') = n BY <2>3, NewestIs
  <2>5. log'[n] = frame BY <1>1, LogGrows
  <2>6. BallShape' BY <2>1, <2>3 DEF BallShape, IsNewest
  <2>7. n \in ShownBall' /\ ShownBall' # {} BY <2>2
  <2>8. packetssl'.balls.at = n /\ packetssl'.balls.camera = log'[n].camera_id + 1
    BY <2>1, <2>5 DEF IdCam
  <2>9. (Newest(ShownBall))' = n BY <2>4 DEF Newest
  <2>10. BallMatchesHistory'
    BY <1>l, <2>7, <2>8, <2>9 DEF BallMatchesHistory, ShownBall
  <2>. QED BY <2>6, <2>10
<1>7. CASE ~frame.ball
  <2>1. packetssl'.balls = [camera |-> 0, at |-> packetssl.balls.at]
    BY <1>4, <1>5, <1>7
  <2>2. ShownBall' = ShownBall BY <1>3, <1>7
  <2>3. n \notin ShownBall' BY <1>2, <1>l, <2>2
  <2>4. BallShape' BY <1>5, <2>1, <2>2 DEF BallShape
  <2>5. packetssl'.balls.at = IF ShownBall' = {} THEN 0 ELSE Newest(ShownBall')
    BY <1>5, <2>1, <2>2
  <2>6. packetssl'.balls.camera = 0 BY <2>1
  <2>7. BallMatchesHistory'
    BY <1>l, <2>3, <2>5, <2>6 DEF BallMatchesHistory, ShownBall, Newest
  <2>. QED BY <2>4, <2>7
<1>. QED BY <1>6, <1>7

LEMMA MergeStep == MInv /\ [Next]_vars => MInv'
<1>. SUFFICES ASSUME MInv, [Next]_vars PROVE MInv'
  OBVIOUS
<1>1. CASE UNCHANGED vars
  <2>1. log' = log /\ packetssl' = packetssl BY <1>1 DEF vars
  <2>2. SightingsHaveNewest' BY <2>1 DEF MInv, SightingsHaveNewest, Sightings
  <2>3. BallShape' BY <2>1 DEF MInv, BallShape, ShownBall
  <2>4. RobotsMatchHistory'
    <3>1. RobotsMatchHistory BY DEF MInv
    <3>2. packetssl.robots' = packetssl.robots BY <2>1
    <3>3. \A t, r : Sightings(t, r)' = Sightings(t, r) BY <2>1 DEF Sightings
    <3>4. \A k : Superseded(k)' = Superseded(k) BY <2>1 DEF Superseded, FramesFrom
    <3>. QED BY <2>1, <3>1, <3>2, <3>3, <3>4 DEF RobotsMatchHistory
  <2>5. BallMatchesHistory' BY <2>1 DEF MInv, BallMatchesHistory
  <2>. QED BY <2>1, <2>2, <2>3, <2>4, <2>5 DEF MInv
<1>2. CASE Next
  <2>1. PICK frame \in Frames : ReceiveDetection(frame) BY <1>2 DEF Next
  <2>2. PICK n : n = Len(log) + 1 OBVIOUS
  <2>3. log' \in Seq(Frames) BY <2>1, LogGrows
  <2>4. SightingsHaveNewest'
    <3>. SUFFICES ASSUME NEW t \in Teams, NEW r \in Robots, Sightings(t, r)' # {}
                  PROVE  \E m \in Sightings(t, r)' : IsNewest(m, Sightings(t, r)')
      BY DEF SightingsHaveNewest
    <3>1. Sightings(t, r) \in SUBSET (1..Len(log)) /\ Len(log) \in Nat
      BY <2>1, <2>2, SightingsGrow, LogGrows
    <3>2. CASE Listed(frame.robots[t], r)
      <4>1. Sightings(t, r)' = Sightings(t, r) \cup {n}
        BY <2>1, <2>2, <3>2, SightingsGrow
      <4>2. IsNewest(n, Sightings(t, r)') BY <2>2, <3>1, <4>1 DEF IsNewest
      <4>. QED BY <4>1, <4>2
    <3>3. CASE ~Listed(frame.robots[t], r)
      <4>1. Sightings(t, r)' = Sightings(t, r)
        BY <2>1, <2>2, <3>3, SightingsGrow
      <4>. QED BY <4>1 DEF MInv, SightingsHaveNewest
    <3>. QED BY <3>2, <3>3
  <2>5. BallShape' /\ BallMatchesHistory' BY <2>1, BallStep
  <2>6. RobotsMatchHistory'
    BY <2>1, <2>2, RobotsStep DEF RobotsMatchHistory, Unseen, AsSighted
  <2>. QED BY <2>3, <2>4, <2>5, <2>6 DEF MInv
<1>. QED BY <1>1, <1>2

LEMMA MergeInit == Init => MInv
<1>. SUFFICES ASSUME Init PROVE MInv
  OBVIOUS
<1>1. log = <<>> /\ log \in Seq(Frames) /\ DOMAIN log = {} /\ Len(log) = 0
  BY DEF Init
<1>2. ShownBall = {} /\ \A t \in Teams, r \in Robots : Sightings(t, r) = {}
  BY <1>1 DEF ShownBall, Sightings
<1>3. packetssl.balls = [camera |-> 0, at |-> 0]
  BY DEF Init
<1>4. \A t \in Teams, r \in Robots : packetssl.robots[t][r] = Unseen
  BY DEF Init, Unseen
<1>5. BallShape BY <1>2, <1>3 DEF BallShape
<1>6. BallMatchesHistory BY <1>2, <1>3 DEF BallMatchesHistory, ShownBall
<1>7. RobotsMatchHistory BY <1>2, <1>4 DEF RobotsMatchHistory, Unseen
<1>. QED BY <1>1, <1>2, <1>5, <1>6, <1>7 DEF MInv, SightingsHaveNewest

LEMMA Merging == Spec => []MInv
BY MergeInit, MergeStep, PTL DEF Spec

(* Whatever cameras report, in whatever order and however often they miss a  *)
(* robot, the merge keeps of every robot what the whole history says: its    *)
(* last sighting, claimed until the camera that made it misses the robot.    *)
THEOREM RobotsAreMergedAsSeen == Spec => []RobotsMatchHistory
<1>1. MInv => RobotsMatchHistory BY DEF MInv
<1>. QED BY <1>1, Merging, PTL

(* The ball of packetssl is the one the newest frame that shows a ball shows, *)
(* and is claimed only while that is the newest frame of all.                 *)
THEOREM BallIsMergedAsSeen == Spec => []BallMatchesHistory
<1>1. MInv => BallMatchesHistory BY DEF MInv
<1>. QED BY <1>1, Merging, PTL

=============================================================================
