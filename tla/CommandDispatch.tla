--------------------------- MODULE CommandDispatch ---------------------------
(***************************************************************************)
(* From the rules a script run leaves behind to the commands robots obey.  *)
(* MainAlgWorker::run turns each active rule into commands, re-evaluates   *)
(* the pause once a second, and stops everybody while paused; commands for *)
(* robots travel through the queue of the connector thread and then over   *)
(* UDP, commands for the grSim simulator are sent at once.                 *)
(*                                                                         *)
(* Runs follow each other (FramePipeline).  Of a command the model keeps   *)
(* one speed, for the three that are treated alike, and the kick forward.  *)
(* How numbers become addresses is left to RobotAddressTable.              *)
(***************************************************************************)
EXTENDS Integers, Sequences

CONSTANTS
    MAX_NUM_ROBOTS,  \* Robots that rules can reach through the connector.
    TeamSize,        \* Robots a pause is sent to: the 12 of lines 390-394.
    RULE_AMOUNT,     \* Rows of the Rules matrix.
    Motions,         \* Commands a script may give, standing still apart.
    MaxBacklog       \* Bound: commands still queued when a run begins.

ASSUME TeamAssumption ==
    /\ MAX_NUM_ROBOTS \in Nat /\ TeamSize \in Nat
    /\ 0 < MAX_NUM_ROBOTS /\ MAX_NUM_ROBOTS < TeamSize
ASSUME RuleAssumption == RULE_AMOUNT \in Nat /\ MaxBacklog \in Nat
ASSUME MotionAssumption == Motions \subseteq [speed : Int, kick : Int]

VARIABLES
    pc,           \* Where run() is.
    Rules,        \* The matrix this run fetched.
    row,          \* Index of the loop run() is in.
    isPause,
    label,        \* Last text of UpdatePauseState.
    queue,        \* sendToConnector signals the connector has yet to handle.
    robots,       \* Command each robot obeys.
    simulated,    \* What each simulated robot was last told to do.
    lossy,        \* Whether the network loses datagrams; never changes.
    before,       \* History: the commands standing when this run began.
    pausedBefore  \* History: isPause when this run began.

vars == <<pc, Rules, row, isPause, label, queue, robots, simulated, lossy,
          before, pausedBefore>>

Still == [speed |-> 0, kick |-> 0]
Commands == Motions \cup {Still}

(* The simulator is told speeds, of which the model counts hundredths, and *)
(* a speed of the kick.  The command of one robot reaches it as a hundredth *)
(* of the speeds and without the kick (line 264), a command for everybody   *)
(* undivided and with five times the kick (lines 296-297).                  *)
AsSingle(command) == [hundredths |-> command.speed, kick |-> 0]
AsBroadcast(command) ==
    [hundredths |-> 100 * command.speed, kick |-> 5 * command.kick]

SimulatedStill == [hundredths |-> 0, kick |-> 0]

(* "-err" stands for the four texts that tell where an answer was missing. *)
Labels == {"", "-err", "PAUSE", "main br", "WORK"}

(* A rule may well have all speeds zero. *)
InactiveRow == [active |-> FALSE, robot |-> 0, motion |-> Still]
RuleRows == {InactiveRow} \cup [active : {TRUE}, robot : 0..TeamSize, motion : Commands]

(* The command robot r ends up with once the connector has caught up. *)
Standing(r) ==
    LET mine == {i \in DOMAIN queue : queue[i].robot = r} IN
    IF mine = {} THEN robots[r]
    ELSE queue[CHOOSE i \in mine : \A j \in mine : j <= i].command

(* No constructor sets isPause. *)
Init ==
    /\ pc = "idle" /\ Rules = [i \in 1..RULE_AMOUNT |-> InactiveRow] /\ row = 1
    /\ isPause \in BOOLEAN
    /\ label = ""
    /\ queue = <<>>
    /\ robots = [r \in 1..TeamSize |-> Still]
    /\ simulated = [r \in 0..TeamSize |-> SimulatedStill]
    /\ lossy \in BOOLEAN
    /\ before = robots /\ pausedBefore = isPause

-----------------------------------------------------------------------------
(* The algorithm thread: MainAlgWorker::run. *)

(* The script has run.  If it left no Rules they are read as zeros. *)
BeginRun ==
    /\ pc = "idle"
    /\ Len(queue) <= MaxBacklog
    /\ Rules' \in [1..RULE_AMOUNT -> RuleRows]
    /\ pc' = "rules" /\ row' = 1
    /\ before' = [r \in 1..TeamSize |-> Standing(r)]
    /\ pausedBefore' = isPause
    /\ UNCHANGED <<isPause, label, queue, robots, simulated, lossy>>

ToConnector(r, command) == [robot |-> r, command |-> command]

CommandIgnoringPause(rule) == rule.motion
Command(rule) == IF isPause THEN Still ELSE rule.motion

(* Robot 0 stands for all of them, in this order. *)
Addressees(rule) ==
    IF rule.robot = 0 THEN [i \in 1..MAX_NUM_ROBOTS |-> i]
    ELSE IF rule.robot <= MAX_NUM_ROBOTS THEN <<rule.robot>> ELSE <<>>

SimulatedForgettingBroadcast(rule) ==
    [r \in 0..TeamSize |->
        IF ~isPause /\ rule.robot > 0 /\ r = rule.robot THEN AsSingle(Command(rule))
        ELSE simulated[r]]

(* The simulator gets single commands for any number, though none while *)
(* paused, and broadcasts for robots 1..MAX_NUM_ROBOTS.                 *)
SimulatedAfter(rule) ==
    [r \in 0..TeamSize |->
        IF rule.robot > 0 /\ ~isPause /\ r = rule.robot THEN AsSingle(Command(rule))
        ELSE IF rule.robot = 0 /\ r \in 1..MAX_NUM_ROBOTS THEN AsBroadcast(Command(rule))
        ELSE simulated[r]]

(* Lines 243-309, one row per step. *)
SendRule ==
    /\ pc = "rules"
    /\ row <= RULE_AMOUNT
    /\ row' = row + 1
    /\ LET rule == Rules[row] IN
         IF rule.active
         THEN /\ queue' = queue \o [i \in DOMAIN Addressees(rule) |->
                              ToConnector(Addressees(rule)[i], Command(rule))]
              /\ simulated' = SimulatedAfter(rule)
         ELSE UNCHANGED <<queue, simulated>>
    /\ UNCHANGED <<pc, Rules, isPause, label, robots, lossy, before, pausedBefore>>

AllRulesSent == pc = "rules" /\ row > RULE_AMOUNT

EnterPauseLoopOnce(paused) ==
    /\ pc' = IF paused /\ ~isPause THEN "pause" ELSE "idle"
    /\ row' = 1

(* Lines 376-395 begin, unless there is nothing to do. *)
EnterPauseLoop(paused) ==
    /\ pc' = IF paused THEN "pause" ELSE "idle"
    /\ row' = 1

WithinSameSecond ==
    /\ AllRulesSent
    /\ EnterPauseLoop(isPause)
    /\ UNCHANGED <<Rules, isPause, label, queue, robots, simulated, lossy,
                   before, pausedBefore>>

PausedByScriptOnly(message) == message \in {"PAUSE", "main br"}

(* The run is allowed to move robots only on this one answer. *)
PausedBy(message) == message # "WORK"

(* Lines 317-374: the answers of the engine decide the pause anew. *)
OnceASecond ==
    /\ AllRulesSent
    /\ label' \in Labels \ {""}
    /\ isPause' = PausedBy(label')
    /\ EnterPauseLoop(PausedBy(label'))
    /\ UNCHANGED <<Rules, queue, robots, simulated, lossy, before,
                   pausedBefore>>

StopAll(r) == r <= TeamSize

(* The simulator's robots are numbered one lower here than in a rule. *)
PauseRobot ==
    /\ pc = "pause"
    /\ StopAll(row)
    /\ row' = row + 1
    /\ queue' = Append(queue, ToConnector(row, Still))
    /\ simulated' = [simulated EXCEPT ![row - 1] = SimulatedStill]
    /\ UNCHANGED <<pc, Rules, isPause, label, robots, lossy, before, pausedBefore>>

EndPause ==
    /\ pc = "pause"
    /\ ~StopAll(row)
    /\ pc' = "idle" /\ row' = 1
    /\ UNCHANGED <<Rules, isPause, label, queue, robots, simulated, lossy,
                   before, pausedBefore>>

-----------------------------------------------------------------------------
(* The connector thread: ConnectorWorker::run, one datagram per signal. *)

Deliver ==
    /\ queue # <<>>
    /\ queue' = Tail(queue)
    /\ robots' = [robots EXCEPT ![Head(queue).robot] = Head(queue).command]
    /\ UNCHANGED <<pc, Rules, row, isPause, label, simulated, lossy, before,
                   pausedBefore>>

Lose ==
    /\ lossy
    /\ queue # <<>>
    /\ queue' = Tail(queue)
    /\ UNCHANGED <<pc, Rules, row, isPause, label, robots, simulated, lossy,
                   before, pausedBefore>>

-----------------------------------------------------------------------------

MAStep ==
    \/ BeginRun
    \/ SendRule
    \/ WithinSameSecond
    \/ OnceASecond
    \/ PauseRobot
    \/ EndPause

Next == MAStep \/ Deliver \/ Lose

Spec == Init /\ [][Next]_vars

DeliverTo(r) == Deliver /\ Head(queue).robot = r

(* Frames keep coming, so runs keep starting; both threads are scheduled; *)
(* a datagram sent again and again is eventually received.                *)
FairSpec ==
    /\ Spec
    /\ WF_vars(MAStep)
    /\ WF_vars(Deliver \/ Lose)
    /\ \A r \in 1..TeamSize : SF_vars(DeliverTo(r))

-----------------------------------------------------------------------------
(* Properties. *)

RulesFor(r) ==
    {i \in 1..RULE_AMOUNT :
        Rules[i].active /\ Rules[i].robot \in {0, r} /\ r <= MAX_NUM_ROBOTS}

LastRule(mine) == Rules[CHOOSE i \in mine : \A j \in mine : j <= i]

(* If no datagram is lost, after a run every robot is left with one         *)
(* definite command: Still if the run ended paused, or had begun paused and *)
(* addressed it; otherwise that of the last rule naming it or all robots;   *)
(* otherwise what it had.  (Help: only the last command passed for a robot  *)
(* is executed.)                                                            *)
LastRuleStands ==
    pc = "idle" /\ ~lossy =>
      \A r \in 1..TeamSize :
        LET mine == RulesFor(r) IN
        Standing(r) =
          IF isPause THEN Still
          ELSE IF mine = {} THEN before[r]
          ELSE IF pausedBefore THEN Still
          ELSE LastRule(mine).motion

(* Between runs, whatever the label says except WORK (or nothing yet), every *)
(* robot of the team is or is about to be standing still.                    *)
StandStillUnlessWORK ==
    pc = "idle" /\ ~lossy /\ label \notin {"", "WORK"} =>
      \A r \in 1..TeamSize : Standing(r) = Still

(* Between runs the simulator's robot r has been told what the real one is  *)
(* left with, in one of the two forms, however many rules and pauses it was *)
(* told past the queue of the connector; if rules of this run moved r, it   *)
(* is the form of the last of them: of one robot's command it got the       *)
(* hundredth and no kick, of everybody's the kick as well.  (For the robots *)
(* rules can reach; the others are only ever stopped.)                      *)
SimulatorFollowsRobots ==
    pc = "idle" /\ ~lossy =>
      \A r \in 1..MAX_NUM_ROBOTS :
        LET single    == AsSingle(Standing(r))
            broadcast == AsBroadcast(Standing(r))
            mine      == RulesFor(r)
        IN /\ simulated[r] \in {single, broadcast}
           /\ mine # {} /\ ~isPause /\ ~pausedBefore =>
                simulated[r] = IF LastRule(mine).robot = 0 THEN broadcast ELSE single

(* If the script stays paused every robot stops, however many datagrams are *)
(* lost, because the stop is repeated after every run.                      *)
PausedRobotsStop ==
    \A r \in 1..TeamSize : <>[]isPause => <>[](robots[r] = Still)

=============================================================================
