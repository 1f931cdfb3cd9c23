---------------------------- MODULE SharedFrame ----------------------------
(***************************************************************************)
(* What the GUI thread is asked to do by other threads.  The receiver      *)
(* emits activateGUI and writes receiver.worker.detection, which the GUI   *)
(* reads when it redraws the field, with no lock between them; the scene   *)
(* view thread emits updateView once a millisecond, which is when a move   *)
(* of the zoom slider takes effect.  All wait in one queue of events.      *)
(*                                                                         *)
(* The frame is one list of robots (FieldScene has the rest); a robot is   *)
(* abstracted to the number of the frame it comes from, 0 for a blank one. *)
(* Copying a message clears the list and adds the robots one by one; a     *)
(* robot read meanwhile may be anything that was ever there.  A scale is   *)
(* a power of 0.9, given by its exponent.                                  *)
(***************************************************************************)
EXTENDS Integers, Sequences, SequencesExt

CONSTANTS
    MaxRobots,   \* Bound: robots in a frame.
    MaxFrames,   \* Bound: frames received.
    Positions,   \* Of the slider.
    MaxMoves,    \* Bound: moves of the slider.
    MaxViews     \* Bound: updateView events waiting at a time.

ASSUME BoundsAssumption ==
    /\ MaxRobots \in Nat /\ MaxFrames \in Nat /\ MaxMoves \in Nat
    /\ MaxViews \in Nat \ {0}
ASSUME PositionAssumption == Positions \subseteq 1..20

VARIABLES
    rpc,              \* Where the receiver thread is.
    frames,           \* Detection frames received.
    toCopy,           \* Robots of the newest one not yet copied.
    detection,        \* The shared frame.
    announced,        \* History: the newest frame whose activateGUI was emitted.
    events,           \* The events the GUI has yet to serve.
    drawing,          \* The GUI is inside UpdateRobots.
    robots_n,         \* The number of robots it found on entry.
    screen,           \* The robots it has shown.
    sizescene,        \* The slider's position when last heard of.
    drawscale,        \* The scaling asked for by the last move
    scalingRequested, \* and not yet done.
    zoom,             \* The scale of the view.
    moves,            \* Moves of the slider.
    lost              \* History: sum of the scalings replaced undone, or refused.

receiverVars == <<rpc, frames, toCopy, detection, announced>>
redrawVars   == <<drawing, robots_n, screen>>
zoomVars     == <<sizescene, drawscale, scalingRequested, zoom, moves, lost>>
guiVars      == <<redrawVars, zoomVars>>
vars == <<receiverVars, events, guiVars>>

(* The constructor has asked for position 8 already. *)
Init ==
    /\ rpc = "receive" /\ frames = 0 /\ toCopy = 0 /\ detection = <<>>
    /\ announced = 0
    /\ events = <<>>
    /\ drawing = FALSE /\ robots_n = 0 /\ screen = <<>>
    /\ sizescene = 8 /\ drawscale = 8 - 10 /\ scalingRequested = TRUE
    /\ zoom = 0 /\ moves = 0 /\ lost = 0

-----------------------------------------------------------------------------
(* Receiver thread: detection = packet.detection(), then the dispatch. *)

ReceiveFrame ==
    /\ rpc = "receive"
    /\ frames < MaxFrames
    /\ frames' = frames + 1
    /\ toCopy' \in 0..MaxRobots
    /\ detection' = <<>>
    /\ rpc' = "copy"
    /\ UNCHANGED <<announced, events, guiVars>>

CopyRobot ==
    /\ rpc = "copy"
    /\ toCopy > 0
    /\ toCopy' = toCopy - 1
    /\ detection' = Append(detection, frames)
    /\ UNCHANGED <<rpc, frames, announced, events, guiVars>>

CopyFinished ==
    /\ rpc = "copy"
    /\ toCopy = 0
    /\ rpc' = "dispatch"
    /\ UNCHANGED <<frames, toCopy, detection, announced, events, guiVars>>

activateGUIUnlessDrawing ==
    /\ announced' = frames
    /\ events' = IF drawing THEN events ELSE Append(events, "robots")

activateGUI ==
    /\ announced' = frames
    /\ events' = Append(events, "robots")

(* A frame is announced when it is handed to the algorithm, and in max *)
(* frequency mode always; otherwise it goes by unseen.                 *)
Dispatch ==
    /\ rpc = "dispatch"
    /\ rpc' = "receive"
    /\ activateGUI \/ UNCHANGED <<announced, events>>
    /\ UNCHANGED <<frames, toCopy, detection, guiVars>>

-----------------------------------------------------------------------------
(* Scene view thread: emit updateView, sleep, and again. *)

EmitView ==
    /\ Len(SelectSeq(events, LAMBDA e : e = "view")) < MaxViews
    /\ events' = Append(events, "view")
    /\ UNCHANGED <<receiverVars, guiVars>>

-----------------------------------------------------------------------------
(* GUI thread: fieldsceneUpdateRobots and UpdateRobots. *)

Serve(event) ==
    /\ ~drawing
    /\ events # <<>> /\ Head(events) = event
    /\ events' = Tail(events)

BeginRedraw ==
    /\ Serve("robots")
    /\ drawing' = TRUE
    /\ robots_n' = Len(detection)
    /\ screen' = <<>>
    /\ UNCHANGED <<receiverVars, zoomVars>>

NextIndex == Len(screen) + 1

(* What detection.robots_blue(i) returns. *)
RobotsRead ==
    IF rpc = "copy" \/ NextIndex > Len(detection) THEN 0..frames
    ELSE {detection[NextIndex]}

ShowRobot ==
    /\ drawing
    /\ NextIndex <= robots_n
    /\ \E robot \in RobotsRead : screen' = Append(screen, robot)
    /\ UNCHANGED <<receiverVars, events, drawing, robots_n, zoomVars>>

EndRedraw ==
    /\ drawing
    /\ NextIndex > robots_n
    /\ drawing' = FALSE
    /\ UNCHANGED <<receiverVars, events, robots_n, screen, zoomVars>>

-----------------------------------------------------------------------------
(* GUI thread: the slider, and updateView. *)

scaleViewFromTen(position) ==
    /\ drawscale' = position - 10
    /\ sizescene' = position
    /\ scalingRequested' = TRUE

scaleView(position) ==
    /\ drawscale' = position - sizescene
    /\ sizescene' = position
    /\ scalingRequested' = TRUE

MoveSlider ==
    /\ ~drawing
    /\ moves < MaxMoves
    /\ \E position \in Positions \ {sizescene} : scaleView(position)
    /\ moves' = moves + 1
    /\ lost' = IF scalingRequested THEN lost + drawscale ELSE lost
    /\ UNCHANGED <<receiverVars, events, redrawVars, zoom>>

(* The exponents whose factor lies between 0.07 and 100. *)
Allowed(exponent) == exponent \in -43..25

RequestDoneIfAllowed(factor) == Allowed(factor)
RequestDone(factor) == TRUE

updateView ==
    /\ Serve("view")
    /\ LET factor == zoom + drawscale IN
         IF scalingRequested
         THEN /\ zoom' = IF Allowed(factor) THEN factor ELSE zoom
              /\ scalingRequested' = ~RequestDone(factor)
              /\ lost' = IF Allowed(factor) \/ scalingRequested' THEN lost
                         ELSE lost + drawscale
         ELSE UNCHANGED <<zoom, lost, scalingRequested>>
    /\ UNCHANGED <<receiverVars, redrawVars, sizescene, drawscale, moves>>

-----------------------------------------------------------------------------

CopyStep == CopyRobot \/ CopyFinished \/ Dispatch
ReceiverStep == ReceiveFrame \/ CopyStep
GuiStep == BeginRedraw \/ ShowRobot \/ EndRedraw \/ updateView

Next == ReceiverStep \/ EmitView \/ GuiStep \/ MoveSlider

Spec == Init /\ [][Next]_vars

(* Every thread is scheduled; frames and moves may end at any time. *)
FairSpec ==
    /\ Spec
    /\ WF_vars(CopyStep) /\ WF_vars(EmitView) /\ WF_vars(GuiStep)

-----------------------------------------------------------------------------
(* Properties. *)

(* A torn picture does not last: once the GUI has served its queue, the     *)
(* screen shows the newest frame if that one was announced.  (A frame that  *)
(* was not, in normal mode with the algorithm busy, may leave the picture   *)
(* it tore standing until the next announcement.)                           *)
SettledScreenIsNewest ==
    rpc = "receive" /\ announced = frames /\ ~drawing /\ ~Contains(events, "robots")
      => screen = detection

(* An announced frame is shown at last, however many requests to update the *)
(* view stand before and behind it in the queue, unless a newer frame comes. *)
AnnouncedFrameIsShown ==
    \A n \in 1..MaxFrames :
        announced = n ~> frames > n \/ (~drawing /\ screen = detection)

(* Once nothing is waiting, the view is scaled as the slider says but for   *)
(* the moves that came before the last one had taken effect (drawscale      *)
(* holds one, so the earlier is lost for good) and those refused: it is off *)
(* by just their sum, however moves and updateView interleave.              *)
ZoomFollowsSlider ==
    ~scalingRequested => zoom = sizescene - 10 - lost

(* A move of the slider is done with at last, be it granted or refused. *)
ScalingIsServed == scalingRequested ~> ~scalingRequested

-----------------------------------------------------------------------------
(* Statements of the repository that the code does not live up to. *)

(* inc/google/protobuf/repeated_field.h asserts index < size() whenever a  *)
(* repeated field, here the robots, is read.                               *)
IndexInBounds ==
    drawing /\ NextIndex <= robots_n => NextIndex <= Len(detection)

=============================================================================
