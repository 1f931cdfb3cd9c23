--------------------------- MODULE RemoteControl ---------------------------
(***************************************************************************)
(* Driving a robot from the keyboard.  Key events set and clear an array;  *)
(* every RC_TIMER_CD ms RC_send turns the array into a command for the     *)
(* robot (through the main window's socket) and for robot 1 of the         *)
(* simulator; closing the window stops the timer and the robot.            *)
(*                                                                         *)
(* Key events reach the window only while it is active, which is the       *)
(* window system's doing and so is external, like the fingers on the keys. *)
(* Everything here runs in the GUI thread, one event at a time.            *)
(***************************************************************************)
EXTENDS Integers

CONSTANTS
    Keys,        \* The keys of the keyboard that are used.
    MaxEffort    \* Bound on effort.

(* Native key codes by their names; Up is 38, Down 40, Left 37, Right 39. *)
Forward  == {"W", "Up"}
Backward == {"S", "Down"}
Left     == {"A", "Left"}
Right    == {"D", "Right"}

ASSUME KeysAssumption ==
    Keys \subseteq Forward \cup Backward \cup Left \cup Right
                     \cup {"R", "F", "Space", "Shift"}
ASSUME EffortAssumption == MaxEffort \in Nat \ {0}

VARIABLES
    shown,       \* The window is on the screen.
    active,      \* It receives the key events.
    timer,       \* The QTimer is active.
    keys,        \* Codes whose entry in keys[] is 1 (key_shift for Shift).
    effort,
    robot,       \* The last command RC_control carried.
    simulated,   \* The last command sent to the simulator.
    held,        \* External: keys that are down.
    astray       \* History: keys last pressed or released out of its sight.

windowVars == <<shown, active, timer>>
vars == <<windowVars, keys, effort, robot, simulated, held, astray>>

Still == [x |-> 0, y |-> 0, r |-> 0, kickUp |-> FALSE]

(* The simulator gets the same speeds, and the kick as one forward. *)
ToSimulator(motion) ==
    [x |-> motion.x, y |-> motion.y, r |-> motion.r,
     kick |-> IF motion.kickUp THEN 10 ELSE 0]

Init ==
    /\ shown = FALSE /\ active = FALSE /\ timer = FALSE
    /\ keys = {} /\ effort = 1
    /\ robot = Still /\ simulated = ToSimulator(Still)
    /\ held = {} /\ astray = {}

Pressed(some) == keys \cap some # {}

(* Of two opposite keys the one tested second wins. *)
Velocity(first, second, step) ==
    IF Pressed(second) THEN step * effort
    ELSE IF Pressed(first) THEN -(step * effort)
    ELSE 0

(* Lines 84-121. *)
Motion ==
    [x |-> Velocity(Left, Right, 20),
     y |-> -Velocity(Forward, Backward, 10),
     r |-> -Velocity({"R"}, {"F"}, 10),
     kickUp |-> Pressed({"Space"})]

-----------------------------------------------------------------------------
(* The window. *)

(* The signal RC_control and its slot: a datagram to the address in the *)
(* main window, which goes out at once and whether or not anyone hears. *)
remcontrolsender(command) == robot' = command

TimerStart == timer' = TRUE

(* Broken: see TimerStop. *)
TimerStopSilently == timer' = FALSE /\ UNCHANGED robot

TimerStop ==
    /\ timer' = FALSE
    /\ IF timer THEN remcontrolsender(Still) ELSE UNCHANGED robot

(* Both buttons of the main window; the keys are as the last visit left them. *)
Open ==
    /\ shown' = TRUE /\ active' = TRUE
    /\ TimerStart
    /\ UNCHANGED <<keys, effort, robot, simulated, held, astray>>

(* Escape closes the window by itself, the window system by its frame. *)
Close ==
    /\ shown
    /\ shown' = FALSE /\ active' = FALSE
    /\ TimerStop
    /\ UNCHANGED <<keys, effort, simulated, held, astray>>

SwitchWindow ==
    /\ shown
    /\ active' = ~active
    /\ UNCHANGED <<shown, timer, keys, effort, robot, simulated, held, astray>>

-----------------------------------------------------------------------------
(* The keyboard. *)

NoteKey(k) == astray' = IF active THEN astray \ {k} ELSE astray \cup {k}

Press(k) ==
    /\ k \notin held
    /\ NoteKey(k)
    /\ held' = held \cup {k}
    /\ keys' = IF active THEN keys \cup {k} ELSE keys
    /\ UNCHANGED <<windowVars, effort, robot, simulated>>

ReleaseButShift(k) ==
    /\ k \in held
    /\ NoteKey(k)
    /\ held' = held \ {k}
    /\ keys' = IF active /\ k # "Shift" THEN keys \ {k} ELSE keys
    /\ UNCHANGED <<windowVars, effort, robot, simulated>>

Release(k) ==
    /\ k \in held
    /\ NoteKey(k)
    /\ held' = held \ {k}
    /\ keys' = IF active THEN keys \ {k} ELSE keys
    /\ UNCHANGED <<windowVars, effort, robot, simulated>>

-----------------------------------------------------------------------------
(* The timer: RC_send. *)

ShiftAnd(k) == {k, "Shift"} \subseteq keys

MoreEffort == effort' = effort + 1
LessEffortUnguarded == effort' = effort - 1
LessEffort == effort' = IF effort > 1 THEN effort - 1 ELSE effort

(* The two early returns send nothing: the robot keeps its last command. *)
ChangeEffort ==
    /\ timer
    /\ \/ ShiftAnd("Up") /\ effort < MaxEffort /\ MoreEffort
       \/ ShiftAnd("Down") /\ ~ShiftAnd("Up") /\ LessEffort
    /\ UNCHANGED <<windowVars, keys, robot, simulated, held, astray>>

SendMotionIfAny ==
    /\ timer
    /\ keys # {} /\ ~ShiftAnd("Up") /\ ~ShiftAnd("Down")
    /\ remcontrolsender(Motion) /\ simulated' = ToSimulator(Motion)
    /\ UNCHANGED <<windowVars, keys, effort, held, astray>>

SendMotion ==
    /\ timer
    /\ ~ShiftAnd("Up") /\ ~ShiftAnd("Down")
    /\ remcontrolsender(Motion) /\ simulated' = ToSimulator(Motion)
    /\ UNCHANGED <<windowVars, keys, effort, held, astray>>

RC_send == ChangeEffort \/ SendMotion

-----------------------------------------------------------------------------

Next ==
    \/ Open
    \/ Close
    \/ SwitchWindow
    \/ \E k \in Keys : Press(k) \/ Release(k)
    \/ RC_send

Spec == Init /\ [][Next]_vars

(* A QTimer keeps firing while it is active. *)
FairSpec == Spec /\ WF_vars(RC_send)

-----------------------------------------------------------------------------
(* Properties. *)

(* The last command is one RC_send can compute. *)
Speeds(step) == {step * e : e \in -MaxEffort..MaxEffort}
Motions == [x : Speeds(20), y : Speeds(10), r : Speeds(10), kickUp : BOOLEAN]
SimulatedMotions == [x : Speeds(20), y : Speeds(10), r : Speeds(10), kick : {0, 10}]

TypeOK ==
    /\ shown \in BOOLEAN /\ active \in BOOLEAN /\ timer \in BOOLEAN
    /\ keys \subseteq Keys /\ held \subseteq Keys /\ astray \subseteq Keys
    /\ effort \in 1..MaxEffort
    /\ robot \in Motions /\ simulated \in SimulatedMotions

(* However the window was opened, hidden, left and closed, once it is gone  *)
(* nothing drives the robot any more and it stands still.                   *)
ClosedMeansStopped == ~shown => ~timer /\ robot = Still

(* While the window stays open and no entry of keys[] is set, the robot     *)
(* stops.                                                                   *)
NoKeysMeansStop ==
    (shown /\ keys = {}) ~> (robot = Still \/ keys # {})

(* However the window is opened, left and closed with keys down, an entry   *)
(* of keys[] can be wrong only for a key last pressed or released while     *)
(* another window had the keyboard, and the next time it is touched in this *)
(* one, pressed or released, it is right again.                             *)
KeysFollowKeyboard == \A k \in Keys \ astray : k \in keys <=> k \in held

=============================================================================
