---------------------------- MODULE FramePipeline ----------------------------
(***************************************************************************)
(* The hot path of LARCmaCS: the receiver thread merges vision frames into *)
(* packetssl and hands copies to the algorithm thread, one at a time, over *)
(* queued Qt signals; the GUI thread starts, reconfigures and destroys     *)
(* both.  Every thread has an event queue.  A thread handles events in its *)
(* exec() loop and, nested inside a handler, in processEvents(), which     *)
(* delivers at least what was queued when it was entered.                  *)
(*                                                                         *)
(* client.receive() returning false changes nothing (the loop spins), so   *)
(* that step is a stutter here.  Signals to the GUI carry no control and   *)
(* are modelled in SharedFrame.                                            *)
(***************************************************************************)
EXTENDS Naturals, Sequences

CONSTANTS
    MaxFrames,   \* Bound: detection frames received.
    MaxToggles   \* Bound: clicks on the "max frequency" check box.

ASSUME BoundsAssumption == MaxFrames \in Nat /\ MaxToggles \in Nat

VARIABLES
    gui,         \* How far the window's constructor / destructor has got.
    checkbox,    \* State of checkBox_MlMaxFreq.
    toggles,     \* Clicks so far.
    rq,          \* Event queue of the receiver thread.
    rpc,         \* Where the receiver thread is.
    rdue,        \* Events its innermost processEvents() must still deliver.
    shutdownread, NewPacket, mainalgisfree, MaxPacketFrequencyMod,
    packetssl,   \* World state, as the number of frames merged into it.
    mq,          \* Event queue of the algorithm thread.
    mpc,         \* Where the algorithm thread is.
    depth,       \* Activations of MainAlgWorker::run on its stack.
    mdue,        \* Events its innermost processEvents() must still deliver.
    shutdowncomp,
    fmldata,     \* Whether init() has filled it in.
    lastSent,    \* History: world state of the last activateMA.
    sends,       \* History: how often that state was sent.
    lastRun,     \* History: world state of the last run that got through.
    refused      \* History: some run returned early, unacknowledged.

guiVars  == <<gui, checkbox, toggles>>
flagVars == <<shutdownread, NewPacket, mainalgisfree, MaxPacketFrequencyMod>>
sentVars == <<lastSent, sends>>
maVars   == <<mpc, depth, mdue, shutdowncomp, fmldata, lastRun, refused>>
vars == <<guiVars, rq, rpc, rdue, flagVars, packetssl, mq, maVars, sentVars>>

(* Broken: a slot the worker does not have, which Qt finds only when it runs. *)
RunEventMisspelt(frame) == [slot |-> "Run", frame |-> frame]

RunEvent(frame)  == [slot |-> "run", frame |-> frame]
PlainEvent(slot) == [slot |-> slot, frame |-> 0]
ModeEvent(on)    == IF on THEN "modeOn" ELSE "modeOff"

RecvSlots == {"start", "stop", "MainAlgFree", "modeOn", "modeOff"}
MAEvents  == [slot : {"start", "stop", "run"}, frame : Nat]

GuiStates == {"constructing", "receiverStarted", "mainAlgThread", "running",
              "stoppingMainAlg", "mainAlgGone", "stoppingReceiver", "closed",
              "crashed"}
GuiGone == {"stoppingMainAlg", "mainAlgGone", "stoppingReceiver", "closed",
            "crashed"}
RecvStates == {"exec", "loop", "poll1", "poll2", "terminated"}
MAStates   == {"notStarted", "exec", "matlab", "drain", "terminated"}

(* The constructor of ReceiverWorker sets only mainalgisfree; the other    *)
(* flags, shutdowncomp and fmldata hold whatever the memory held.          *)
Init ==
    /\ gui = "constructing" /\ checkbox = FALSE /\ toggles = 0
    /\ rq = <<>> /\ rpc = "exec" /\ rdue = 0
    /\ shutdownread \in BOOLEAN
    /\ NewPacket \in BOOLEAN
    /\ MaxPacketFrequencyMod \in BOOLEAN
    /\ mainalgisfree = TRUE
    /\ packetssl = 0
    /\ mq = <<>> /\ mpc = "notStarted" /\ depth = 0 /\ mdue = 0
    /\ shutdowncomp \in BOOLEAN
    /\ fmldata = FALSE
    /\ lastSent = 0 /\ sends = 0 /\ lastRun = 0 /\ refused = FALSE

-----------------------------------------------------------------------------
(* GUI thread: constructor, check box, destructors. *)

GuiMoves(from, to) == gui = from /\ gui' = to

GuiStartReceiver ==
    /\ GuiMoves("constructing", "receiverStarted")
    /\ rq' = Append(rq, "start")
    /\ UNCHANGED <<checkbox, toggles, rpc, rdue, flagVars, packetssl, mq,
                   maVars, sentVars>>

(* thread.start() comes first: the thread may already serve its queue *)
(* when wstart() is emitted.                                          *)
GuiStartMAThread ==
    /\ GuiMoves("receiverStarted", "mainAlgThread")
    /\ mpc' = "exec"
    /\ UNCHANGED <<checkbox, toggles, rq, rpc, rdue, flagVars, packetssl, mq,
                   depth, mdue, shutdowncomp, fmldata, lastRun, refused,
                   sentVars>>

GuiStartMainAlg ==
    /\ GuiMoves("mainAlgThread", "running")
    /\ mq' = Append(mq, PlainEvent("start"))
    /\ UNCHANGED <<checkbox, toggles, rq, rpc, rdue, flagVars, packetssl,
                   maVars, sentVars>>

GuiToggleMaxFrequency ==
    /\ gui = "running"
    /\ toggles < MaxToggles
    /\ toggles' = toggles + 1
    /\ checkbox' = ~checkbox
    /\ rq' = Append(rq, ModeEvent(~checkbox))
    /\ UNCHANGED <<gui, rpc, rdue, flagVars, packetssl, mq, maVars, sentVars>>

(* ~MainAlg: stop(), wait(100), terminate().  The wait may elapse before *)
(* the worker has seen the stop, whatever it is doing.                   *)
GuiStopMainAlg ==
    /\ GuiMoves("running", "stoppingMainAlg")
    /\ mq' = Append(mq, PlainEvent("stop"))
    /\ UNCHANGED <<checkbox, toggles, rq, rpc, rdue, flagVars, packetssl,
                   maVars, sentVars>>

GuiTerminateMainAlg ==
    /\ GuiMoves("stoppingMainAlg", "mainAlgGone")
    /\ mpc' = "terminated"
    /\ mq' = <<>> /\ depth' = 0 /\ mdue' = 0
    /\ UNCHANGED <<checkbox, toggles, rq, rpc, rdue, flagVars, packetssl,
                   shutdowncomp, fmldata, lastRun, refused, sentVars>>

GuiStopReceiver ==
    /\ GuiMoves("mainAlgGone", "stoppingReceiver")
    /\ rq' = Append(rq, "stop")
    /\ UNCHANGED <<checkbox, toggles, rpc, rdue, flagVars, packetssl, mq,
                   maVars, sentVars>>

GuiTerminateReceiver ==
    /\ GuiMoves("stoppingReceiver", "closed")
    /\ rpc' = "terminated"
    /\ rq' = <<>> /\ rdue' = 0
    /\ UNCHANGED <<checkbox, toggles, flagVars, packetssl, mq, maVars,
                   sentVars>>

-----------------------------------------------------------------------------
(* Receiver thread. *)

(* A queued signal copies packetssl; once the receiving worker has been *)
(* destroyed its connection is gone and the signal reaches nobody.      *)
ActivateMA ==
    /\ mq' = IF mpc = "terminated" THEN mq
             ELSE Append(mq, RunEvent(packetssl))
    /\ lastSent' = packetssl
    /\ sends' = IF lastSent = packetssl THEN sends + 1 ELSE 1

(* Broken variants: each is one of the operators below with a plausible *)
(* slip.                                                                 *)
HandOverKeepingFree   == UNCHANGED mainalgisfree /\ NewPacket' = FALSE /\ ActivateMA
HandOverKeepingNew    == mainalgisfree' = FALSE /\ UNCHANGED NewPacket /\ ActivateMA
RememberNothing       == UNCHANGED <<NewPacket, mainalgisfree, mq, sentVars>>
FreshFrameNotRechecked == FALSE

(* The three statements shared by lines 85-90 and by MainAlgFree. *)
HandOver ==
    /\ mainalgisfree' = FALSE
    /\ NewPacket' = FALSE
    /\ ActivateMA

(* The algorithm is busy: the frame just merged has to wait. *)
Remember == NewPacket' = TRUE /\ UNCHANGED <<mainalgisfree, mq, sentVars>>

(* On an acknowledgement, whether to hand over at once. *)
FreshFrameWanted == NewPacket /\ MaxPacketFrequencyMod

OneLess(n) == IF n = 0 THEN 0 ELSE n - 1

RecvTakes(slot) ==
    /\ rpc \in {"exec", "poll1", "poll2"}
    /\ rq # <<>>
    /\ Head(rq) = slot
    /\ rq' = Tail(rq)

ResetButForMode ==
    /\ shutdownread' = FALSE
    /\ mainalgisfree' = TRUE
    /\ NewPacket' = FALSE
    /\ UNCHANGED MaxPacketFrequencyMod

ResetFlags ==
    /\ shutdownread' = FALSE
    /\ mainalgisfree' = TRUE
    /\ NewPacket' = FALSE
    /\ MaxPacketFrequencyMod' = FALSE

(* Enters run(), which is left only when shutdownread is set. *)
RecvStart ==
    /\ RecvTakes("start")
    /\ rpc = "exec"
    /\ rpc' = "loop"
    /\ rdue' = 0
    /\ ResetFlags
    /\ UNCHANGED <<guiVars, packetssl, mq, maVars, sentVars>>

RecvStop ==
    /\ RecvTakes("stop")
    /\ rdue' = OneLess(rdue)
    /\ shutdownread' = TRUE
    /\ UNCHANGED <<guiVars, rpc, NewPacket, mainalgisfree,
                   MaxPacketFrequencyMod, packetssl, mq, maVars, sentVars>>

RecvChangeMode ==
    /\ \E on \in BOOLEAN :
         /\ RecvTakes(ModeEvent(on))
         /\ MaxPacketFrequencyMod' = on
    /\ rdue' = OneLess(rdue)
    /\ UNCHANGED <<guiVars, rpc, shutdownread, NewPacket, mainalgisfree,
                   packetssl, mq, maVars, sentVars>>

RecvMainAlgFree ==
    /\ RecvTakes("MainAlgFree")
    /\ rdue' = OneLess(rdue)
    /\ IF FreshFrameWanted
       THEN HandOver
       ELSE /\ mainalgisfree' = TRUE
            /\ UNCHANGED <<NewPacket, mq, sentVars>>
    /\ UNCHANGED <<guiVars, rpc, shutdownread, MaxPacketFrequencyMod,
                   packetssl, maVars>>

ReceiverInLoop == rpc = "loop" /\ ~shutdownread

(* A detection-only packet is merged, then events are served (line 84). *)
ReceiveDetection ==
    /\ ReceiverInLoop
    /\ packetssl < MaxFrames
    /\ packetssl' = packetssl + 1
    /\ rpc' = "poll1"
    /\ rdue' = Len(rq)
    /\ UNCHANGED <<guiVars, rq, flagVars, mq, maVars, sentVars>>

(* Lines 85-97, on flags the events served at line 84 may have changed. *)
Dispatch ==
    /\ rpc = "poll1"
    /\ rdue = 0
    /\ rpc' = "poll2"
    /\ rdue' = Len(rq)
    /\ IF mainalgisfree THEN HandOver ELSE Remember
    /\ UNCHANGED <<guiVars, rq, shutdownread, MaxPacketFrequencyMod,
                   packetssl, maVars>>

(* Geometry wins over a detection in the same packet; a packet with *)
(* neither sleeps for a millisecond.                                *)
ReceiveOther ==
    /\ ReceiverInLoop
    /\ rpc' = "poll2"
    /\ rdue' = Len(rq)
    /\ UNCHANGED <<guiVars, rq, flagVars, packetssl, mq, maVars, sentVars>>

EndOfIteration ==
    /\ rpc = "poll2"
    /\ rdue = 0
    /\ rpc' = "loop"
    /\ UNCHANGED <<guiVars, rq, rdue, flagVars, packetssl, mq, maVars,
                   sentVars>>

LeaveLoop ==
    /\ rpc = "loop"
    /\ shutdownread
    /\ rpc' = "exec"
    /\ UNCHANGED <<guiVars, rq, rdue, flagVars, packetssl, mq, maVars,
                   sentVars>>

-----------------------------------------------------------------------------
(* Algorithm thread. *)

MATakes(slot) ==
    /\ mpc \in {"exec", "drain"}
    /\ mq # <<>>
    /\ Head(mq).slot = slot

(* Matrices are made and MATLAB is opened, which takes seconds; the worker *)
(* goes on all the same when it cannot be opened.                          *)
MAInit == fmldata' = TRUE

MAStart ==
    /\ MATakes("start")
    /\ mq' = Tail(mq)
    /\ mdue' = OneLess(mdue)
    /\ shutdowncomp' = FALSE
    /\ MAInit
    /\ UNCHANGED <<guiVars, rq, rpc, rdue, flagVars, packetssl, mpc, depth,
                   lastRun, refused, sentVars>>

MAStop ==
    /\ MATakes("stop")
    /\ mq' = Tail(mq)
    /\ mdue' = OneLess(mdue)
    /\ shutdowncomp' = TRUE
    /\ UNCHANGED <<guiVars, rq, rpc, rdue, flagVars, packetssl, mpc, depth,
                   fmldata, lastRun, refused, sentVars>>

(* The early return of run(): no mainAlgFree is emitted. *)
MARefuse ==
    /\ MATakes("run")
    /\ shutdowncomp
    /\ mq' = Tail(mq)
    /\ mdue' = OneLess(mdue)
    /\ refused' = TRUE
    /\ UNCHANGED <<guiVars, rq, rpc, rdue, flagVars, packetssl, mpc, depth,
                   shutdowncomp, fmldata, lastRun, sentVars>>

MARun ==
    /\ MATakes("run")
    /\ ~shutdowncomp
    /\ fmldata
    /\ mq' = Tail(mq)
    /\ mpc' = "matlab"
    /\ depth' = depth + 1
    /\ lastRun' = Head(mq).frame
    /\ UNCHANGED <<guiVars, rq, rpc, rdue, flagVars, packetssl, mdue,
                   shutdowncomp, fmldata, refused, sentVars>>

(* run() before start(): shutdowncomp happened to be false and memcpy goes *)
(* through pointers nobody initialised; the process dies.                  *)
MACrash ==
    /\ MATakes("run")
    /\ ~shutdowncomp
    /\ ~fmldata
    /\ gui' = "crashed"
    /\ rpc' = "terminated" /\ rq' = <<>> /\ rdue' = 0
    /\ mpc' = "terminated" /\ mq' = <<>> /\ depth' = 0 /\ mdue' = 0
    /\ UNCHANGED <<checkbox, toggles, flagVars, packetssl, shutdowncomp,
                   fmldata, lastRun, refused, sentVars>>

(* The script and the fan-out of its rules; then line 399 serves events. *)
MAEvaluate ==
    /\ mpc = "matlab"
    /\ mpc' = "drain"
    /\ mdue' = Len(mq)
    /\ UNCHANGED <<guiVars, rq, rpc, rdue, flagVars, packetssl, mq, depth,
                   shutdowncomp, fmldata, lastRun, refused, sentVars>>

NoAcknowledgement == UNCHANGED rq

Acknowledge ==
    rq' = IF rpc = "terminated" THEN rq ELSE Append(rq, "MainAlgFree")

(* Only after that is the receiver told.  An outer activation is still  *)
(* inside its own processEvents().                                      *)
MADone ==
    /\ mpc = "drain"
    /\ mdue = 0
    /\ Acknowledge
    /\ depth' = depth - 1
    /\ mpc' = IF depth = 1 THEN "exec" ELSE "drain"
    /\ UNCHANGED <<guiVars, rpc, rdue, flagVars, packetssl, mq, mdue,
                   shutdowncomp, fmldata, lastRun, refused, sentVars>>

-----------------------------------------------------------------------------

GuiSetUp == GuiStartReceiver \/ GuiStartMAThread \/ GuiStartMainAlg

GuiClose ==
    \/ GuiStopMainAlg
    \/ GuiTerminateMainAlg
    \/ GuiStopReceiver
    \/ GuiTerminateReceiver

ReceiverStep ==
    \/ RecvStart
    \/ RecvStop
    \/ RecvChangeMode
    \/ RecvMainAlgFree
    \/ Dispatch
    \/ EndOfIteration
    \/ LeaveLoop

NetworkDelivers == ReceiveDetection \/ ReceiveOther

MAStep ==
    \/ MAStart
    \/ MAStop
    \/ MARefuse
    \/ MARun
    \/ MACrash
    \/ MAEvaluate
    \/ MADone

Next ==
    \/ GuiSetUp
    \/ GuiToggleMaxFrequency
    \/ GuiClose
    \/ ReceiverStep
    \/ NetworkDelivers
    \/ MAStep

Spec == Init /\ [][Next]_vars

(* The scheduler runs every thread; nothing is assumed of the user. *)
Scheduling == WF_vars(GuiSetUp) /\ WF_vars(ReceiverStep) /\ WF_vars(MAStep)

FairSpec == Spec /\ Scheduling /\ WF_vars(NetworkDelivers)

-----------------------------------------------------------------------------
(* Properties. *)

(* Every variable keeps its type; both queues hold only events some slot *)
(* of that worker is connected to.                                       *)
TypeOK ==
    /\ gui \in GuiStates /\ checkbox \in BOOLEAN /\ toggles \in Nat
    /\ rq \in Seq(RecvSlots) /\ rpc \in RecvStates /\ rdue \in Nat
    /\ shutdownread \in BOOLEAN /\ NewPacket \in BOOLEAN
    /\ mainalgisfree \in BOOLEAN /\ MaxPacketFrequencyMod \in BOOLEAN
    /\ packetssl \in 0..MaxFrames
    /\ mq \in Seq(MAEvents) /\ mpc \in MAStates
    /\ depth \in Nat /\ mdue \in Nat
    /\ shutdowncomp \in BOOLEAN /\ fmldata \in BOOLEAN
    /\ lastSent \in 0..MaxFrames /\ sends \in Nat
    /\ lastRun \in Nat /\ refused \in BOOLEAN

RunsQueued == {i \in DOMAIN mq : mq[i].slot = "run"}
AcksQueued == {i \in DOMAIN rq : rq[i] = "MainAlgFree"}

(* The permission to hand over a frame is a single token.  It is the flag  *)
(* mainalgisfree, a queued run, a run on the stack or a queued mainAlgFree. *)
Credits ==
    [flag  : {x \in {0} : mainalgisfree}]
      \cup [run   : RunsQueued]
      \cup [stack : 1..depth]
      \cup [ack   : AcksQueued]

(* The token is never duplicated, however acknowledgements, frames, mode   *)
(* changes and shutdown interleave: no second world state is queued behind *)
(* an unfinished run, and processEvents() inside run() never re-enters it. *)
OneOutstanding == \A c, d \in Credits : c = d

(* The token is never lost while the algorithm thread lives, except when a *)
(* run was turned away by shutdowncomp.                                    *)
CreditConserved == refused \/ mpc = "terminated" \/ Credits # {}

(* Back in the receive loop, a merged frame was either sent on or is *)
(* remembered in NewPacket for the next acknowledgement.             *)
NoFrameForgotten ==
    rpc \in {"poll2", "loop"} => NewPacket \/ lastSent = packetssl

(* One world state is handed over at most twice, and only once if the user *)
(* never touched the check box: the second time comes from an              *)
(* acknowledgement served at line 84 between the merge and the dispatch.   *)
BoundedRepeats == sends <= IF toggles = 0 THEN 1 ELSE 2

(* With no mode change in transit the receiver works in the mode the check *)
(* box shows: start() cannot undo a click.                                 *)
ModeFollowsCheckbox ==
    rpc \in {"poll1", "poll2", "loop"}
      /\ (\A i \in DOMAIN rq : rq[i] \notin {"modeOn", "modeOff"})
    => MaxPacketFrequencyMod = checkbox

(* What receiver and algorithm promise each other: the one-credit mailbox. *)
MailboxStatus ==
    IF refused \/ mpc = "terminated" THEN "dead"
    ELSE IF RunsQueued # {} \/ depth > 0 THEN "busy" ELSE "idle"

Mailbox == INSTANCE FrameMailbox WITH
    latest  <- packetssl,
    status  <- MailboxStatus,
    carried <- IF MailboxStatus = "busy" THEN lastSent ELSE 0

(* The pipeline implements the mailbox. *)
ImplementsMailbox == Mailbox!Spec

(* In max-frequency mode a frame waiting for a busy algorithm is handed     *)
(* over even if no further frame ever comes, unless the mode is left, a run *)
(* was turned away or the window closes.  (A frame already waiting beside   *)
(* an idle algorithm when the mode is switched on is not: only the next     *)
(* frame moves it.)  Needs packets of some kind to keep arriving.           *)
MaxModeDeliversNewest ==
    (NewPacket /\ MaxPacketFrequencyMod /\ ~mainalgisfree /\ rpc = "loop")
      ~> (~NewPacket \/ ~MaxPacketFrequencyMod \/ refused \/ gui # "running")

-----------------------------------------------------------------------------
(* A statement of the repository that the code does not live up to. *)

(* bin/help.html: the main script runs every time robot information      *)
(* arrives.  Weakly: once frames arrive, the script runs at all.         *)
AlgorithmEventuallyRuns ==
    packetssl > 0 ~> (lastRun > 0 \/ gui \in GuiGone)

=============================================================================
