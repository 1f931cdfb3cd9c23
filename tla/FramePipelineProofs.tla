------------------------ MODULE FramePipelineProofs ------------------------
(***************************************************************************)
(* Proofs about FramePipeline, for every number of frames and clicks: its  *)
(* types, the uniqueness of the hand-over credit, that it implements the   *)
(* mailbox, that the credit is never lost, and what becomes of a frame and *)
(* of a click.                                                             *)
(***************************************************************************)
EXTENDS FramePipeline, TLAPS

(* The algorithm thread is inside run() exactly while the stack says so. *)
StackMatches ==
    /\ depth > 0 <=> mpc \in {"matlab", "drain"}
    /\ gui \in {"constructing", "receiverStarted"} => mpc = "notStarted"

(* Before ReceiverWorker::start() has run nothing has been handed over. *)
Pristine ==
    /\ mainalgisfree
    /\ RunsQueued = {}
    /\ depth = 0
    /\ AcksQueued = {}

StartPending == gui = "constructing" \/ (\E i \in DOMAIN rq : rq[i] = "start")

(* start() is the first event the receiver ever sees, so its resetting of *)
(* mainalgisfree cannot mint a second credit.                             *)
StartFirst ==
    /\ gui = "constructing" => rq = <<>>
    /\ \A i \in DOMAIN rq : rq[i] = "start" => i = 1
    /\ StartPending => Pristine /\ rpc \in {"exec", "terminated"}

(* The four places of the credit exclude each other. *)
CreditUnique ==
    /\ depth \in {0, 1}
    /\ mainalgisfree => RunsQueued = {} /\ depth = 0 /\ AcksQueued = {}
    /\ RunsQueued # {} => depth = 0 /\ AcksQueued = {}
    /\ depth = 1 => AcksQueued = {}
    /\ \A i, j \in RunsQueued : i = j
    /\ \A i, j \in AcksQueued : i = j

(* Nothing can be handed over before a frame was merged. *)
FramesExist ==
    /\ rpc = "poll1" => packetssl > 0
    /\ NewPacket => packetssl > 0 \/ StartPending \/ rpc = "terminated"

IInv == TypeOK /\ StackMatches /\ StartFirst /\ CreditUnique /\ FramesExist

-----------------------------------------------------------------------------
(* What Append and Tail do to the elements of a queue. *)

LEMMA AppendElements ==
    ASSUME NEW S, NEW q \in Seq(S), NEW e \in S
    PROVE  /\ Append(q, e) \in Seq(S)
           /\ DOMAIN Append(q, e) = DOMAIN q \cup {Len(q) + 1}
           /\ Len(q) + 1 \notin DOMAIN q
           /\ \A i \in DOMAIN q : Append(q, e)[i] = q[i]
           /\ Append(q, e)[Len(q) + 1] = e
OBVIOUS

LEMMA TailElements ==
    ASSUME NEW S, NEW q \in Seq(S), q # <<>>
    PROVE  /\ Tail(q) \in Seq(S)
           /\ Head(q) \in S
           /\ 1 \in DOMAIN q /\ Head(q) = q[1]
           /\ \A i \in DOMAIN Tail(q) :
                 i \in Nat \ {0} /\ i + 1 \in DOMAIN q /\ Tail(q)[i] = q[i + 1]
           /\ \A i \in DOMAIN q \ {1} :
                 i - 1 \in DOMAIN Tail(q) /\ Tail(q)[i - 1] = q[i]
<1>1. /\ Len(q) \in Nat /\ DOMAIN q = 1..Len(q) /\ Len(q) # 0
      /\ DOMAIN Tail(q) = 1..(Len(q) - 1)
      /\ \A i \in 1..(Len(q) - 1) : Tail(q)[i] = q[i + 1]
  OBVIOUS
<1>2. \A i \in DOMAIN q \ {1} :
        i - 1 \in DOMAIN Tail(q) /\ Tail(q)[i - 1] = q[i]
  <2>. TAKE i \in DOMAIN q \ {1}
  <2>1. i - 1 \in 1..(Len(q) - 1) /\ (i - 1) + 1 = i
    BY <1>1
  <2>. QED
    BY <1>1, <2>1
<1>. QED
  BY <1>1, <1>2

LEMMA EmptyQueue == ASSUME NEW S PROVE <<>> \in Seq(S) /\ DOMAIN <<>> = {}
OBVIOUS

(* A queued run or acknowledgement is the only thing that changes the sets *)
(* the credit is looked for in.                                            *)
LEMMA AppendToRq ==
    ASSUME TypeOK, NEW e \in RecvSlots, rq' = Append(rq, e)
    PROVE  /\ e # "MainAlgFree" => AcksQueued' = AcksQueued
           /\ AcksQueued = {} => \A i, j \in AcksQueued' : i = j
BY AppendElements DEF TypeOK, AcksQueued

LEMMA TailOfRq ==
    ASSUME TypeOK, rq # <<>>, rq' = Tail(rq)
    PROVE  /\ AcksQueued = {} => AcksQueued' = {}
           /\ (\A i, j \in AcksQueued : i = j) =>
                /\ \A i, j \in AcksQueued' : i = j
                /\ Head(rq) = "MainAlgFree" => AcksQueued' = {}
           /\ Head(rq) = "MainAlgFree" => AcksQueued # {}
BY TailElements DEF TypeOK, AcksQueued

LEMMA AppendToMq ==
    ASSUME TypeOK, NEW e \in MAEvents, mq' = Append(mq, e)
    PROVE  /\ e.slot # "run" => RunsQueued' = RunsQueued
           /\ e.slot = "run" => RunsQueued' # {}
           /\ RunsQueued = {} => \A i, j \in RunsQueued' : i = j
BY AppendElements DEF TypeOK, RunsQueued

LEMMA TailOfMq ==
    ASSUME TypeOK, mq # <<>>, mq' = Tail(mq)
    PROVE  /\ RunsQueued = {} => RunsQueued' = {}
           /\ (\A i, j \in RunsQueued : i = j) =>
                /\ \A i, j \in RunsQueued' : i = j
                /\ Head(mq).slot = "run" => RunsQueued' = {}
           /\ Head(mq).slot = "run" => RunsQueued # {}
BY TailElements DEF TypeOK, RunsQueued

-----------------------------------------------------------------------------
(* Types. *)

LEMMA TypeInit == Init => TypeOK
<1>1. <<>> \in Seq(RecvSlots) /\ <<>> \in Seq(MAEvents)
  BY EmptyQueue
<1>2. 0 \in Nat /\ 0 \in 0..MaxFrames
  BY BoundsAssumption
<1>. QED
  BY <1>1, <1>2, Zenon DEF Init, TypeOK, GuiStates, RecvStates, MAStates

LEMMA HandOverType ==
    ASSUME TypeOK, HandOver
    PROVE  /\ mainalgisfree' \in BOOLEAN /\ NewPacket' \in BOOLEAN
           /\ mq' \in Seq(MAEvents)
           /\ lastSent' \in 0..MaxFrames /\ sends' \in Nat
<1>1. RunEvent(packetssl) \in MAEvents
  BY BoundsAssumption DEF TypeOK, RunEvent, MAEvents
<1>2. Append(mq, RunEvent(packetssl)) \in Seq(MAEvents)
  BY <1>1, AppendElements DEF TypeOK
<1>3. mq' \in Seq(MAEvents)
  BY <1>2 DEF HandOver, ActivateMA, TypeOK
<1>4. lastSent' \in 0..MaxFrames /\ sends' \in Nat
  BY DEF HandOver, ActivateMA, TypeOK
<1>. QED
  BY <1>3, <1>4 DEF HandOver

LEMMA TypeStep == TypeOK /\ StackMatches /\ [Next]_vars => TypeOK'
<1>. SUFFICES ASSUME TypeOK, StackMatches, [Next]_vars PROVE TypeOK'
  OBVIOUS
<1>. USE DEF TypeOK, GuiStates, RecvStates, MAStates
<1>. USE DEF guiVars, flagVars, maVars, sentVars
<1>e. /\ {"start", "stop", "MainAlgFree", "modeOn", "modeOff"} = RecvSlots
      /\ \A on \in BOOLEAN : ModeEvent(on) \in RecvSlots
      /\ PlainEvent("start") \in MAEvents /\ PlainEvent("stop") \in MAEvents
  BY DEF RecvSlots, MAEvents, ModeEvent, PlainEvent
<1>r. \A e \in RecvSlots : Append(rq, e) \in Seq(RecvSlots)
  BY AppendElements
<1>m. \A e \in MAEvents : Append(mq, e) \in Seq(MAEvents)
  BY AppendElements
<1>n. <<>> \in Seq(RecvSlots) /\ <<>> \in Seq(MAEvents)
  BY EmptyQueue
<1>d. OneLess(rdue) \in Nat /\ OneLess(mdue) \in Nat /\ Len(rq) \in Nat /\ Len(mq) \in Nat
  BY DEF OneLess
<1>t. ASSUME NEW slot, RecvTakes(slot) PROVE rq' \in Seq(RecvSlots)
  BY <1>t, TailElements DEF RecvTakes
<1>u. ASSUME NEW slot, MATakes(slot)
      PROVE Tail(mq) \in Seq(MAEvents) /\ Head(mq) \in MAEvents
  BY <1>u, TailElements DEF MATakes
<1>1. CASE GuiStartReceiver
  BY <1>1, <1>e, <1>r DEF GuiStartReceiver, GuiMoves
<1>2. CASE GuiStartMAThread
  BY <1>2 DEF GuiStartMAThread, GuiMoves
<1>3. CASE GuiStartMainAlg
  BY <1>3, <1>e, <1>m DEF GuiStartMainAlg, GuiMoves
<1>4. CASE GuiToggleMaxFrequency
  <2>1. rq' \in Seq(RecvSlots)
    BY <1>4, <1>e, <1>r DEF GuiToggleMaxFrequency
  <2>2. toggles' \in Nat /\ checkbox' \in BOOLEAN
    BY <1>4 DEF GuiToggleMaxFrequency
  <2>. QED
    BY <1>4, <2>1, <2>2 DEF GuiToggleMaxFrequency
<1>5. CASE GuiStopMainAlg
  BY <1>5, <1>e, <1>m DEF GuiStopMainAlg, GuiMoves
<1>6. CASE GuiTerminateMainAlg
  BY <1>6, <1>n DEF GuiTerminateMainAlg, GuiMoves
<1>7. CASE GuiStopReceiver
  BY <1>7, <1>e, <1>r DEF GuiStopReceiver, GuiMoves
<1>8. CASE GuiTerminateReceiver
  BY <1>8, <1>n DEF GuiTerminateReceiver, GuiMoves
<1>9. CASE RecvStart
  BY <1>9, <1>t DEF RecvStart, ResetFlags
<1>10. CASE RecvStop
  BY <1>10, <1>t, <1>d DEF RecvStop
<1>11. CASE RecvChangeMode
  BY <1>11, <1>t, <1>d DEF RecvChangeMode
<1>12. CASE RecvMainAlgFree
  <2>1. rq' \in Seq(RecvSlots) /\ rdue' \in Nat
    BY <1>12, <1>t, <1>d DEF RecvMainAlgFree
  <2>2. CASE FreshFrameWanted
    BY <1>12, <2>1, <2>2, HandOverType DEF RecvMainAlgFree
  <2>3. CASE ~FreshFrameWanted
    BY <1>12, <2>1, <2>3 DEF RecvMainAlgFree
  <2>. QED
    BY <2>2, <2>3
<1>13. CASE Dispatch
  <2>1. rpc' \in RecvStates /\ rdue' \in Nat
    BY <1>13, <1>d DEF Dispatch
  <2>2. CASE mainalgisfree
    BY <1>13, <2>1, <2>2, HandOverType DEF Dispatch
  <2>3. CASE ~mainalgisfree
    BY <1>13, <2>1, <2>3 DEF Dispatch, Remember
  <2>. QED
    BY <2>2, <2>3
<1>14. CASE EndOfIteration
  BY <1>14 DEF EndOfIteration
<1>15. CASE LeaveLoop
  BY <1>15 DEF LeaveLoop
<1>16. CASE ReceiveDetection
  BY <1>16, <1>d, BoundsAssumption DEF ReceiveDetection
<1>17. CASE ReceiveOther
  BY <1>17, <1>d DEF ReceiveOther
<1>18. CASE MAStart
  <2>1. mq' \in Seq(MAEvents) /\ mdue' \in Nat
    BY <1>18, <1>u, <1>d DEF MAStart, MAInit
  <2>2. shutdowncomp' \in BOOLEAN /\ fmldata' \in BOOLEAN
    BY <1>18 DEF MAStart, MAInit
  <2>3. UNCHANGED <<guiVars, rq, rpc, rdue, flagVars, packetssl, mpc, depth,
                    lastRun, refused, sentVars>>
    BY <1>18 DEF MAStart, MAInit
  <2>. QED
    BY <2>1, <2>2, <2>3
<1>19. CASE MAStop
  BY <1>19, <1>u, <1>d DEF MAStop
<1>20. CASE MARefuse
  BY <1>20, <1>u, <1>d DEF MARefuse
<1>21. CASE MARun
  BY <1>21, <1>u DEF MARun, MAEvents
<1>22. CASE MACrash
  BY <1>22, <1>n DEF MACrash
<1>23. CASE MAEvaluate
  BY <1>23, <1>d DEF MAEvaluate
<1>24. CASE MADone
  <2>1. rq' \in Seq(RecvSlots)
    BY <1>24, <1>e, <1>r DEF MADone, Acknowledge
  <2>2. depth' \in Nat /\ mpc' \in MAStates
    BY <1>24 DEF MADone, StackMatches
  <2>. QED
    BY <1>24, <2>1, <2>2 DEF MADone
<1>25. CASE UNCHANGED vars
  BY <1>25 DEF vars
<1>. QED
  BY <1>1, <1>2, <1>3, <1>4, <1>5, <1>6, <1>7, <1>8, <1>9, <1>10,
     <1>11, <1>12, <1>13, <1>14, <1>15, <1>16, <1>17, <1>18, <1>19, <1>20,
     <1>21, <1>22, <1>23, <1>24, <1>25
     DEF Next, GuiSetUp, GuiClose, ReceiverStep, NetworkDelivers, MAStep

LEMMA StackInit == Init => StackMatches
BY DEF Init, StackMatches

LEMMA StackStep == TypeOK /\ StackMatches /\ [Next]_vars => StackMatches'
<1>. SUFFICES ASSUME TypeOK, StackMatches, [Next]_vars PROVE StackMatches'
  OBVIOUS
<1>. USE DEF StackMatches, guiVars, maVars, flagVars, sentVars
<1>1. depth \in Nat
  BY DEF TypeOK
<1>2. CASE GuiSetUp
  BY <1>2 DEF GuiSetUp, GuiStartReceiver, GuiStartMAThread, GuiStartMainAlg,
              GuiMoves
<1>3. CASE GuiToggleMaxFrequency
  BY <1>3 DEF GuiToggleMaxFrequency
<1>4. CASE GuiClose
  BY <1>4 DEF GuiClose, GuiStopMainAlg, GuiTerminateMainAlg, GuiStopReceiver,
              GuiTerminateReceiver, GuiMoves
<1>5. CASE ReceiverStep
  BY <1>5 DEF ReceiverStep, RecvStart, RecvStop, RecvChangeMode,
              RecvMainAlgFree, Dispatch, EndOfIteration, LeaveLoop
<1>6. CASE NetworkDelivers
  BY <1>6 DEF NetworkDelivers, ReceiveDetection, ReceiveOther
<1>7. CASE MAStart \/ MAStop \/ MARefuse
  BY <1>7 DEF MAStart, MAInit, MAStop, MARefuse
<1>8. CASE MARun
  BY <1>1, <1>8 DEF MARun, MATakes
<1>9. CASE MACrash
  BY <1>9 DEF MACrash
<1>10. CASE MAEvaluate
  BY <1>10 DEF MAEvaluate
<1>11. CASE MADone
  BY <1>1, <1>11 DEF MADone
<1>12. CASE UNCHANGED vars
  BY <1>12 DEF vars
<1>. QED
  BY <1>2, <1>3, <1>4, <1>5, <1>6, <1>7, <1>8, <1>9, <1>10, <1>11, <1>12
     DEF Next, MAStep

(* Every variable has its type in every reachable state: no event outside   *)
(* the connected slots is ever queued and run() never returns more often    *)
(* than it was entered.                                                     *)
THEOREM TypeCorrect == Spec => []TypeOK
<1>1. Init => TypeOK /\ StackMatches
  BY TypeInit, StackInit
<1>2. TypeOK /\ StackMatches /\ [Next]_vars => (TypeOK /\ StackMatches)'
  BY TypeStep, StackStep
<1>. QED
  BY <1>1, <1>2, PTL DEF Spec

-----------------------------------------------------------------------------
(* The hand-over credit. *)

LEMMA CreditInit == Init => StartFirst /\ CreditUnique /\ FramesExist
BY DEF Init, StartFirst, StartPending, Pristine, CreditUnique, FramesExist,
       RunsQueued, AcksQueued

LEMMA SameQueues ==
    /\ UNCHANGED rq => UNCHANGED AcksQueued
    /\ UNCHANGED mq => UNCHANGED RunsQueued
BY DEF AcksQueued, RunsQueued

LEMMA ModeEventIsNoAck ==
    ASSUME NEW on \in BOOLEAN
    PROVE  ModeEvent(on) \in RecvSlots \ {"MainAlgFree", "start"}
BY DEF ModeEvent, RecvSlots

(* Handing over moves the credit from the receiver into the run queue. *)
LEMMA HandOverCredit ==
    ASSUME TypeOK, HandOver, RunsQueued = {}
    PROVE  /\ ~mainalgisfree'
           /\ \A i, j \in RunsQueued' : i = j
<1>1. RunEvent(packetssl) \in MAEvents
  BY BoundsAssumption DEF TypeOK, RunEvent, MAEvents
<1>2. CASE mq' = mq
  BY <1>2, SameQueues DEF HandOver
<1>3. CASE mq' = Append(mq, RunEvent(packetssl))
  BY <1>1, <1>3, AppendToMq DEF HandOver
<1>. QED
  BY <1>2, <1>3 DEF HandOver, ActivateMA

LEMMA CreditStep == IInv /\ [Next]_vars => CreditUnique'
<1>. SUFFICES ASSUME TypeOK, StackMatches, StartFirst, CreditUnique, [Next]_vars
              PROVE  CreditUnique'
  BY DEF IInv
<1>. USE DEF CreditUnique, guiVars, flagVars, maVars, sentVars
<1>e. /\ PlainEvent("start") \in MAEvents /\ PlainEvent("start").slot # "run"
      /\ PlainEvent("stop") \in MAEvents /\ PlainEvent("stop").slot # "run"
      /\ {"start", "stop", "MainAlgFree"} \subseteq RecvSlots
  BY DEF PlainEvent, MAEvents, RecvSlots
<1>r. ASSUME NEW slot, RecvTakes(slot)
      PROVE  /\ AcksQueued = {} => AcksQueued' = {}
             /\ \A i, j \in AcksQueued' : i = j
             /\ slot = "MainAlgFree" => AcksQueued # {} /\ AcksQueued' = {}
  BY <1>r, TailOfRq DEF RecvTakes
<1>m. ASSUME NEW slot, MATakes(slot), mq' = Tail(mq)
      PROVE  /\ RunsQueued = {} => RunsQueued' = {}
             /\ \A i, j \in RunsQueued' : i = j
             /\ slot = "run" => RunsQueued # {} /\ RunsQueued' = {}
  BY <1>m, TailOfMq DEF MATakes
<1>1. CASE GuiStartReceiver
  BY <1>1, <1>e, AppendToRq, SameQueues DEF GuiStartReceiver
<1>2. CASE GuiStartMAThread
  BY <1>2, SameQueues DEF GuiStartMAThread
<1>3. CASE GuiStartMainAlg
  BY <1>3, <1>e, AppendToMq, SameQueues DEF GuiStartMainAlg
<1>4. CASE GuiToggleMaxFrequency
  <2>1. ModeEvent(~checkbox) \in RecvSlots \ {"MainAlgFree", "start"}
    BY ModeEventIsNoAck
  <2>. QED
    BY <1>4, <2>1, AppendToRq, SameQueues DEF GuiToggleMaxFrequency
<1>5. CASE GuiStopMainAlg
  BY <1>5, <1>e, AppendToMq, SameQueues DEF GuiStopMainAlg
<1>6. CASE GuiTerminateMainAlg
  <2>1. RunsQueued' = {}
    BY <1>6 DEF GuiTerminateMainAlg, RunsQueued
  <2>. QED
    BY <1>6, <2>1, SameQueues DEF GuiTerminateMainAlg
<1>7. CASE GuiStopReceiver
  BY <1>7, <1>e, AppendToRq, SameQueues DEF GuiStopReceiver
<1>8. CASE GuiTerminateReceiver
  <2>1. AcksQueued' = {}
    BY <1>8 DEF GuiTerminateReceiver, AcksQueued
  <2>. QED
    BY <1>8, <2>1, SameQueues DEF GuiTerminateReceiver
<1>9. CASE RecvStart
  <2>1. Pristine
    BY <1>9, TailElements
       DEF RecvStart, RecvTakes, StartFirst, StartPending, TypeOK
  <2>. QED
    BY <1>9, <2>1, <1>r, SameQueues DEF RecvStart, Pristine
<1>10. CASE RecvStop
  BY <1>10, <1>r, SameQueues DEF RecvStop
<1>11. CASE RecvChangeMode
  BY <1>11, <1>r, SameQueues DEF RecvChangeMode
<1>12. CASE RecvMainAlgFree
  <2>1. AcksQueued # {} /\ AcksQueued' = {} /\ depth' = depth
    BY <1>12, <1>r DEF RecvMainAlgFree
  <2>2. CASE FreshFrameWanted
    BY <1>12, <2>1, <2>2, HandOverCredit DEF RecvMainAlgFree
  <2>3. CASE ~FreshFrameWanted
    BY <1>12, <2>1, <2>3, SameQueues DEF RecvMainAlgFree
  <2>. QED
    BY <2>2, <2>3
<1>13. CASE Dispatch
  <2>1. AcksQueued' = AcksQueued /\ depth' = depth
    BY <1>13, SameQueues DEF Dispatch
  <2>2. CASE mainalgisfree
    BY <1>13, <2>1, <2>2, HandOverCredit DEF Dispatch
  <2>3. CASE ~mainalgisfree
    BY <1>13, <2>1, <2>3, SameQueues DEF Dispatch, Remember
  <2>. QED
    BY <2>2, <2>3
<1>14. CASE EndOfIteration
  BY <1>14, SameQueues DEF EndOfIteration
<1>15. CASE LeaveLoop
  BY <1>15, SameQueues DEF LeaveLoop
<1>16. CASE ReceiveDetection
  BY <1>16, SameQueues DEF ReceiveDetection
<1>17. CASE ReceiveOther
  BY <1>17, SameQueues DEF ReceiveOther
<1>18. CASE MAStart
  BY <1>18, <1>m, SameQueues DEF MAStart, MAInit
<1>19. CASE MAStop
  BY <1>19, <1>m, SameQueues DEF MAStop
<1>20. CASE MARefuse
  BY <1>20, <1>m, SameQueues DEF MARefuse
<1>21. CASE MARun
  <2>1. RunsQueued # {} /\ RunsQueued' = {}
    BY <1>21, <1>m DEF MARun
  <2>. QED
    BY <1>21, <2>1, SameQueues DEF MARun
<1>22. CASE MACrash
  <2>1. RunsQueued' = {} /\ AcksQueued' = {}
    BY <1>22 DEF MACrash, RunsQueued, AcksQueued
  <2>. QED
    BY <1>22, <2>1 DEF MACrash
<1>23. CASE MAEvaluate
  BY <1>23, SameQueues DEF MAEvaluate
<1>24. CASE MADone
  <2>1. depth = 1 /\ AcksQueued = {} /\ RunsQueued = {} /\ ~mainalgisfree
    BY <1>24 DEF MADone, StackMatches, TypeOK
  <2>2. \A i, j \in AcksQueued' : i = j
    BY <1>24, <2>1, <1>e, AppendToRq, SameQueues DEF MADone, Acknowledge
  <2>. QED
    BY <1>24, <2>1, <2>2, SameQueues DEF MADone
<1>25. CASE UNCHANGED vars
  BY <1>25, SameQueues DEF vars
<1>. QED
  BY <1>1, <1>2, <1>3, <1>4, <1>5, <1>6, <1>7, <1>8, <1>9, <1>10,
     <1>11, <1>12, <1>13, <1>14, <1>15, <1>16, <1>17, <1>18, <1>19, <1>20,
     <1>21, <1>22, <1>23, <1>24, <1>25
     DEF Next, GuiSetUp, GuiClose, ReceiverStep, NetworkDelivers, MAStep

-----------------------------------------------------------------------------
(* start() is the receiver's first event. *)

LEMMA StartFirstStep == IInv /\ [Next]_vars => StartFirst'
<1>. SUFFICES ASSUME TypeOK, StackMatches, StartFirst, CreditUnique, [Next]_vars
              PROVE  StartFirst'
  BY DEF IInv
<1>. USE DEF StartFirst, StartPending, Pristine, guiVars, flagVars, maVars,
             sentVars
<1>e. /\ PlainEvent("start") \in MAEvents /\ PlainEvent("start").slot # "run"
      /\ PlainEvent("stop") \in MAEvents /\ PlainEvent("stop").slot # "run"
      /\ {"start", "stop", "MainAlgFree"} \subseteq RecvSlots
  BY DEF PlainEvent, MAEvents, RecvSlots
<1>r. ASSUME NEW slot, RecvTakes(slot), gui' = gui
      PROVE  StartFirst'
  <2>1. gui # "constructing"
    BY <1>r DEF RecvTakes
  <2>2. \A i \in DOMAIN rq' : rq'[i] # "start"
    BY <1>r, TailElements DEF RecvTakes, TypeOK
  <2>. QED
    BY <1>r, <2>1, <2>2
<1>p. ASSUME NEW e \in RecvSlots \ {"start", "MainAlgFree"}, rq' = Append(rq, e),
             gui # "constructing", gui' # "constructing",
             UNCHANGED <<rpc, mainalgisfree, mq, depth>>
      PROVE  StartFirst'
  BY <1>p, AppendElements, AppendToRq, SameQueues DEF TypeOK
<1>q. ASSUME UNCHANGED <<rq, rpc, mainalgisfree, depth>>,
             gui' = "constructing" => gui = "constructing",
             RunsQueued = {} => RunsQueued' = {}
      PROVE  StartFirst'
  BY <1>q, SameQueues
<1>1. CASE GuiStartReceiver
  <2>1. Pristine /\ rq = <<>> /\ rpc \in {"exec", "terminated"}
    BY <1>1 DEF GuiStartReceiver, GuiMoves
  <2>2. AcksQueued' = {} /\ RunsQueued' = {}
    BY <1>1, <2>1, <1>e, AppendToRq, SameQueues DEF GuiStartReceiver
  <2>3. \A i \in DOMAIN rq' : i = 1
    BY <1>1, <2>1, <1>e, AppendElements DEF GuiStartReceiver, TypeOK
  <2>. QED
    BY <1>1, <2>1, <2>2, <2>3 DEF GuiStartReceiver, GuiMoves
<1>2. CASE GuiStartMAThread
  BY <1>2, <1>q, SameQueues DEF GuiStartMAThread, GuiMoves
<1>3. CASE GuiStartMainAlg
  BY <1>3, <1>q, <1>e, AppendToMq DEF GuiStartMainAlg, GuiMoves
<1>4. CASE GuiToggleMaxFrequency
  <2>1. ModeEvent(~checkbox) \in RecvSlots \ {"start", "MainAlgFree"}
    BY ModeEventIsNoAck
  <2>. QED
    BY <1>4, <2>1, <1>p DEF GuiToggleMaxFrequency
<1>5. CASE GuiStopMainAlg
  BY <1>5, <1>q, <1>e, AppendToMq DEF GuiStopMainAlg, GuiMoves
<1>6. CASE GuiTerminateMainAlg
  BY <1>6, SameQueues DEF GuiTerminateMainAlg, GuiMoves, RunsQueued
<1>7. CASE GuiStopReceiver
  BY <1>7, <1>p, <1>e DEF GuiStopReceiver, GuiMoves
<1>8. CASE GuiTerminateReceiver
  BY <1>8 DEF GuiTerminateReceiver, GuiMoves
<1>9. CASE RecvStart
  BY <1>9, <1>r DEF RecvStart
<1>10. CASE RecvStop
  BY <1>10, <1>r DEF RecvStop
<1>11. CASE RecvChangeMode
  BY <1>11, <1>r DEF RecvChangeMode
<1>12. CASE RecvMainAlgFree
  BY <1>12, <1>r DEF RecvMainAlgFree
<1>13. CASE Dispatch
  BY <1>13 DEF Dispatch
<1>14. CASE EndOfIteration
  BY <1>14 DEF EndOfIteration
<1>15. CASE LeaveLoop
  BY <1>15 DEF LeaveLoop
<1>16. CASE ReceiveDetection
  BY <1>16 DEF ReceiveDetection, ReceiverInLoop
<1>17. CASE ReceiveOther
  BY <1>17 DEF ReceiveOther, ReceiverInLoop
<1>m. ASSUME mq # <<>>, mq' = Tail(mq), RunsQueued = {}
      PROVE  RunsQueued' = {} /\ Head(mq).slot # "run"
  BY <1>m, TailOfMq
<1>18. CASE MAStart
  BY <1>18, <1>q, <1>m DEF MAStart, MAInit, MATakes
<1>19. CASE MAStop
  BY <1>19, <1>q, <1>m DEF MAStop, MATakes
<1>20. CASE MARefuse
  BY <1>20, <1>q, <1>m DEF MARefuse, MATakes
<1>21. CASE MARun
  <2>1. ~StartPending
    BY <1>21, <1>m DEF MARun, MATakes
  <2>. QED
    BY <1>21, <2>1 DEF MARun
<1>22. CASE MACrash
  BY <1>22 DEF MACrash
<1>23. CASE MAEvaluate
  BY <1>23, <1>q, SameQueues DEF MAEvaluate
<1>24. CASE MADone
  <2>1. depth > 0
    BY <1>24 DEF MADone, StackMatches
  <2>2. ~StartPending
    BY <2>1
  <2>3. \A i \in DOMAIN rq' : rq'[i] # "start"
    BY <1>24, <2>2, <1>e, AppendElements DEF MADone, Acknowledge, TypeOK
  <2>. QED
    BY <1>24, <2>2, <2>3 DEF MADone
<1>25. CASE UNCHANGED vars
  BY <1>25, <1>q, SameQueues DEF vars
<1>. QED
  BY <1>1, <1>2, <1>3, <1>4, <1>5, <1>6, <1>7, <1>8, <1>9, <1>10,
     <1>11, <1>12, <1>13, <1>14, <1>15, <1>16, <1>17, <1>18, <1>19, <1>20,
     <1>21, <1>22, <1>23, <1>24, <1>25
     DEF Next, GuiSetUp, GuiClose, ReceiverStep, NetworkDelivers, MAStep

LEMMA FramesStep == IInv /\ [Next]_vars => FramesExist'
<1>. SUFFICES ASSUME TypeOK, StackMatches, StartFirst, CreditUnique, FramesExist,
                     [Next]_vars
              PROVE  FramesExist'
  BY DEF IInv
<1>. USE DEF FramesExist, guiVars, flagVars, maVars, sentVars
<1>e. "start" \in RecvSlots
  BY DEF RecvSlots
<1>p. ASSUME NEW e, rq' = Append(rq, e), e \in RecvSlots, StartPending,
             gui # "constructing"
      PROVE  StartPending'
  BY <1>p, AppendElements DEF StartPending, TypeOK
<1>q. ASSUME rq' = rq, gui # "constructing" \/ gui' = "constructing", StartPending
      PROVE  StartPending'
  BY <1>q DEF StartPending
<1>r. ASSUME NEW slot, RecvTakes(slot), StartPending
      PROVE  slot = "start"
  BY <1>r, TailElements DEF RecvTakes, StartPending, StartFirst, TypeOK
<1>1. CASE GuiStartReceiver
  <2>1. StartPending'
    BY <1>1, <1>e, AppendElements DEF GuiStartReceiver, StartPending, TypeOK
  <2>. QED
    BY <1>1, <2>1 DEF GuiStartReceiver
<1>2. CASE GuiStartMAThread
  BY <1>2, <1>q DEF GuiStartMAThread, GuiMoves
<1>3. CASE GuiStartMainAlg
  BY <1>3, <1>q DEF GuiStartMainAlg, GuiMoves
<1>4. CASE GuiToggleMaxFrequency
  BY <1>4, <1>p, ModeEventIsNoAck DEF GuiToggleMaxFrequency, TypeOK
<1>5. CASE GuiStopMainAlg
  BY <1>5, <1>q DEF GuiStopMainAlg, GuiMoves
<1>6. CASE GuiTerminateMainAlg
  BY <1>6, <1>q DEF GuiTerminateMainAlg, GuiMoves
<1>7. CASE GuiStopReceiver
  BY <1>7, <1>p DEF GuiStopReceiver, GuiMoves, RecvSlots
<1>8. CASE GuiTerminateReceiver
  BY <1>8 DEF GuiTerminateReceiver
<1>9. CASE RecvStart
  BY <1>9 DEF RecvStart, ResetFlags
<1>10. CASE RecvStop
  BY <1>10, <1>r DEF RecvStop
<1>11. CASE RecvChangeMode
  BY <1>11, <1>r, ModeEventIsNoAck DEF RecvChangeMode
<1>12. CASE RecvMainAlgFree
  BY <1>12, <1>r DEF RecvMainAlgFree, HandOver
<1>13. CASE Dispatch
  BY <1>13 DEF Dispatch, HandOver, Remember
<1>14. CASE EndOfIteration
  BY <1>14, <1>q DEF EndOfIteration
<1>15. CASE LeaveLoop
  BY <1>15, <1>q DEF LeaveLoop
<1>16. CASE ReceiveDetection
  <2>1. packetssl' > 0
    BY <1>16, BoundsAssumption DEF ReceiveDetection, TypeOK
  <2>. QED
    BY <1>16, <2>1 DEF ReceiveDetection
<1>17. CASE ReceiveOther
  BY <1>17, <1>q DEF ReceiveOther, ReceiverInLoop
<1>18. CASE MAStart
  BY <1>18, <1>q DEF MAStart, MAInit
<1>19. CASE MAStop
  BY <1>19, <1>q DEF MAStop
<1>20. CASE MARefuse
  BY <1>20, <1>q DEF MARefuse
<1>21. CASE MARun
  BY <1>21, <1>q DEF MARun
<1>22. CASE MACrash
  BY <1>22 DEF MACrash
<1>23. CASE MAEvaluate
  BY <1>23, <1>q DEF MAEvaluate
<1>24. CASE MADone
  <2>1. ~StartPending
    BY <1>24 DEF MADone, StackMatches, StartFirst, Pristine
  <2>. QED
    BY <1>24, <2>1 DEF MADone
<1>25. CASE UNCHANGED vars
  BY <1>25, <1>q DEF vars
<1>. QED
  BY <1>1, <1>2, <1>3, <1>4, <1>5, <1>6, <1>7, <1>8, <1>9, <1>10,
     <1>11, <1>12, <1>13, <1>14, <1>15, <1>16, <1>17, <1>18, <1>19, <1>20,
     <1>21, <1>22, <1>23, <1>24, <1>25
     DEF Next, GuiSetUp, GuiClose, ReceiverStep, NetworkDelivers, MAStep

-----------------------------------------------------------------------------
(* Theorems. *)

LEMMA Inductive == Spec => []IInv
<1>1. Init => IInv
  BY TypeInit, StackInit, CreditInit DEF IInv
<1>2. IInv /\ [Next]_vars => IInv'
  BY TypeStep, StackStep, StartFirstStep, CreditStep, FramesStep DEF IInv
<1>. QED
  BY <1>1, <1>2, PTL DEF Spec

(* However start-up, frames, acknowledgements, clicks and shutdown           *)
(* interleave, the receiver never owns, and the queues and the stack never   *)
(* hold, more than one permission to hand over a frame (receiver.h:22-33,    *)
(* receiver.cpp:85-97, mainAlg.cpp:399-400).                                 *)
THEOREM CreditNeverDuplicated == Spec => []OneOutstanding
<1>1. IInv => OneOutstanding
  <2>. SUFFICES ASSUME IInv, NEW c \in Credits, NEW d \in Credits
                PROVE  c = d
    BY DEF OneOutstanding
  <2>1. depth \in {0, 1} /\ (depth = 0 => 1..depth = {}) /\ (depth = 1 => 1..depth = {1})
    BY DEF IInv, CreditUnique
  <2>2. CASE mainalgisfree
    BY <2>1, <2>2 DEF IInv, CreditUnique, Credits
  <2>3. CASE RunsQueued # {}
    BY <2>1, <2>3 DEF IInv, CreditUnique, Credits
  <2>4. CASE depth = 1
    BY <2>1, <2>4 DEF IInv, CreditUnique, Credits
  <2>5. CASE ~mainalgisfree /\ RunsQueued = {} /\ depth = 0
    BY <2>1, <2>5 DEF IInv, CreditUnique, Credits
  <2>. QED
    BY <2>1, <2>2, <2>3, <2>4, <2>5
<1>. QED
  BY <1>1, Inductive, PTL

-----------------------------------------------------------------------------
(* Refinement. *)

LEMMA MailboxInit == Init => Mailbox!Init
BY DEF Init, Mailbox!Init, MailboxStatus, RunsQueued

(* Seen from the mailbox, a step that keeps these is invisible. *)
LEMMA MailboxStutter ==
    ASSUME UNCHANGED <<packetssl, MailboxStatus, lastSent>>
    PROVE  UNCHANGED Mailbox!mailboxVars
BY DEF Mailbox!mailboxVars

LEMMA MailboxHandOver ==
    ASSUME IInv, HandOver, RunsQueued = {}, depth = 0, packetssl > 0,
           UNCHANGED <<packetssl, mpc, depth, refused>>
    PROVE  [Mailbox!Next]_Mailbox!mailboxVars
<1>1. CASE mpc = "terminated" \/ refused
  <2>1. MailboxStatus = "dead" /\ MailboxStatus' = "dead"
    BY <1>1 DEF MailboxStatus
  <2>. QED
    BY <2>1 DEF Mailbox!mailboxVars
<1>2. CASE mpc # "terminated" /\ ~refused
  <2>1. RunEvent(packetssl) \in MAEvents /\ RunEvent(packetssl).slot = "run"
    BY BoundsAssumption DEF IInv, TypeOK, RunEvent, MAEvents
  <2>2. RunsQueued' # {}
    BY <1>2, <2>1, AppendToMq DEF HandOver, ActivateMA, IInv
  <2>3. MailboxStatus = "idle" /\ MailboxStatus' = "busy"
    BY <1>2, <2>2 DEF MailboxStatus
  <2>. QED
    BY <2>3 DEF HandOver, ActivateMA, Mailbox!Next, Mailbox!HandOver
<1>. QED
  BY <1>1, <1>2

LEMMA MailboxStep == IInv /\ [Next]_vars => [Mailbox!Next]_Mailbox!mailboxVars
<1>. SUFFICES ASSUME IInv, [Next]_vars PROVE [Mailbox!Next]_Mailbox!mailboxVars
  OBVIOUS
<1>. USE DEF guiVars, flagVars, maVars, sentVars
<1>i. TypeOK /\ StackMatches /\ StartFirst /\ CreditUnique /\ FramesExist
  BY DEF IInv
<1>e. /\ PlainEvent("start") \in MAEvents /\ PlainEvent("start").slot # "run"
      /\ PlainEvent("stop") \in MAEvents /\ PlainEvent("stop").slot # "run"
  BY DEF PlainEvent, MAEvents
<1>s. ASSUME UNCHANGED <<packetssl, lastSent, mpc, refused, depth>>,
             UNCHANGED RunsQueued
      PROVE  [Mailbox!Next]_Mailbox!mailboxVars
  BY <1>s, MailboxStutter DEF MailboxStatus
<1>a. ASSUME UNCHANGED packetssl, MailboxStatus' = "dead"
      PROVE  [Mailbox!Next]_Mailbox!mailboxVars
  BY <1>a DEF Mailbox!Next, Mailbox!Abandon
<1>1. CASE GuiStartReceiver
  BY <1>1, <1>s, SameQueues DEF GuiStartReceiver
<1>2. CASE GuiStartMAThread
  <2>1. mpc = "notStarted" /\ mpc' = "exec"
    BY <1>2, <1>i DEF GuiStartMAThread, GuiMoves, StackMatches
  <2>2. UNCHANGED MailboxStatus
    BY <1>2, <2>1, SameQueues DEF GuiStartMAThread, MailboxStatus
  <2>. QED
    BY <1>2, <2>2, MailboxStutter DEF GuiStartMAThread
<1>3. CASE GuiStartMainAlg
  BY <1>3, <1>e, <1>i, <1>s, AppendToMq DEF GuiStartMainAlg
<1>4. CASE GuiToggleMaxFrequency
  BY <1>4, <1>s, SameQueues DEF GuiToggleMaxFrequency
<1>5. CASE GuiStopMainAlg
  BY <1>5, <1>e, <1>i, <1>s, AppendToMq DEF GuiStopMainAlg
<1>6. CASE GuiTerminateMainAlg
  BY <1>6, <1>a DEF GuiTerminateMainAlg, MailboxStatus
<1>7. CASE GuiStopReceiver
  BY <1>7, <1>s, SameQueues DEF GuiStopReceiver
<1>8. CASE GuiTerminateReceiver
  BY <1>8, <1>s, SameQueues DEF GuiTerminateReceiver
<1>9. CASE RecvStart
  BY <1>9, <1>s, SameQueues DEF RecvStart
<1>10. CASE RecvStop
  BY <1>10, <1>s, SameQueues DEF RecvStop
<1>11. CASE RecvChangeMode
  BY <1>11, <1>s, SameQueues DEF RecvChangeMode
<1>12. CASE RecvMainAlgFree
  <2>1. AcksQueued # {}
    BY <1>12, <1>i, TailOfRq DEF RecvMainAlgFree, RecvTakes
  <2>2. RunsQueued = {} /\ depth = 0
    BY <1>i, <2>1 DEF CreditUnique
  <2>3. CASE FreshFrameWanted
    <3>1. packetssl > 0
      BY <1>12, <1>i, <2>1, <2>3
         DEF FreshFrameWanted, FramesExist, StartFirst, Pristine,
             RecvMainAlgFree, RecvTakes
    <3>. QED
      BY <1>12, <2>2, <2>3, <3>1, MailboxHandOver DEF RecvMainAlgFree
  <2>4. CASE ~FreshFrameWanted
    BY <1>12, <2>4, <1>s, SameQueues DEF RecvMainAlgFree
  <2>. QED
    BY <2>3, <2>4
<1>13. CASE Dispatch
  <2>1. CASE mainalgisfree
    <3>1. RunsQueued = {} /\ depth = 0 /\ packetssl > 0
      BY <1>13, <1>i, <2>1 DEF CreditUnique, FramesExist, Dispatch
    <3>. QED
      BY <1>13, <2>1, <3>1, MailboxHandOver DEF Dispatch
  <2>2. CASE ~mainalgisfree
    BY <1>13, <2>2, <1>s, SameQueues DEF Dispatch, Remember
  <2>. QED
    BY <2>1, <2>2
<1>14. CASE EndOfIteration
  BY <1>14, <1>s, SameQueues DEF EndOfIteration
<1>15. CASE LeaveLoop
  BY <1>15, <1>s, SameQueues DEF LeaveLoop
<1>16. CASE ReceiveDetection
  <2>1. UNCHANGED MailboxStatus
    BY <1>16, SameQueues DEF ReceiveDetection, MailboxStatus
  <2>2. Mailbox!Arrive
    BY <1>16, <2>1 DEF ReceiveDetection, Mailbox!Arrive
  <2>. QED
    BY <2>2 DEF Mailbox!Next
<1>17. CASE ReceiveOther
  BY <1>17, <1>s, SameQueues DEF ReceiveOther
<1>m. ASSUME NEW slot, MATakes(slot), mq' = Tail(mq)
      PROVE  /\ slot = "run" => RunsQueued # {} /\ RunsQueued' = {}
             /\ mpc # "terminated"
  BY <1>m, <1>i, TailOfMq DEF MATakes, CreditUnique
<1>k. ASSUME mq # <<>>, mq' = Tail(mq), Head(mq).slot # "run"
      PROVE  RunsQueued # {} => RunsQueued' # {}
  <2>. SUFFICES ASSUME NEW i \in RunsQueued PROVE i - 1 \in RunsQueued'
    OBVIOUS
  <2>1. i \in DOMAIN mq \ {1}
    BY <1>k, <1>i, TailElements DEF RunsQueued, TypeOK
  <2>. QED
    BY <1>k, <1>i, <2>1, TailElements DEF RunsQueued, TypeOK
<1>18. CASE MAStart
  <2>1. RunsQueued' = {} <=> RunsQueued = {}
    BY <1>18, <1>i, <1>k, TailOfMq DEF MAStart, MAInit, MATakes
  <2>. QED
    BY <1>18, <2>1, MailboxStutter DEF MAStart, MAInit, MailboxStatus
<1>19. CASE MAStop
  <2>1. RunsQueued' = {} <=> RunsQueued = {}
    BY <1>19, <1>i, <1>k, TailOfMq DEF MAStop, MATakes
  <2>. QED
    BY <1>19, <2>1, MailboxStutter DEF MAStop, MailboxStatus
<1>20. CASE MARefuse
  BY <1>20, <1>a DEF MARefuse, MailboxStatus
<1>21. CASE MARun
  <2>1. RunsQueued # {} /\ mpc # "terminated"
    BY <1>21, <1>m DEF MARun
  <2>2. UNCHANGED MailboxStatus
    BY <1>21, <1>i, <2>1 DEF MARun, MailboxStatus, TypeOK
  <2>. QED
    BY <1>21, <2>2, MailboxStutter DEF MARun
<1>22. CASE MACrash
  BY <1>22, <1>a DEF MACrash, MailboxStatus
<1>23. CASE MAEvaluate
  BY <1>23, MailboxStutter, SameQueues DEF MAEvaluate, MailboxStatus
<1>24. CASE MADone
  <2>1. depth = 1 /\ RunsQueued = {} /\ mpc' = "exec" /\ depth' = 0
    BY <1>24, <1>i DEF MADone, StackMatches, CreditUnique
  <2>2. RunsQueued' = {} /\ mpc # "terminated"
    BY <1>24, <2>1, SameQueues DEF MADone
  <2>3. CASE refused
    BY <1>24, <1>a, <2>3 DEF MADone, MailboxStatus
  <2>4. CASE ~refused
    <3>1. MailboxStatus = "busy" /\ MailboxStatus' = "idle"
      BY <1>24, <2>1, <2>2, <2>4 DEF MADone, MailboxStatus
    <3>. QED
      BY <1>24, <3>1 DEF MADone, Mailbox!Next, Mailbox!Finish
  <2>. QED
    BY <2>3, <2>4
<1>25. CASE UNCHANGED vars
  BY <1>25, <1>s, SameQueues DEF vars
<1>. QED
  BY <1>1, <1>2, <1>3, <1>4, <1>5, <1>6, <1>7, <1>8, <1>9, <1>10,
     <1>11, <1>12, <1>13, <1>14, <1>15, <1>16, <1>17, <1>18, <1>19, <1>20,
     <1>21, <1>22, <1>23, <1>24, <1>25
     DEF Next, GuiSetUp, GuiClose, ReceiverStep, NetworkDelivers, MAStep

(* Every behaviour of the three threads is a behaviour of the one-credit     *)
(* mailbox: the algorithm is handed the newest world state, only when idle,  *)
(* and nothing after the exchange was abandoned.                             *)
THEOREM PipelineImplementsMailbox == Spec => ImplementsMailbox
<1>1. Init => Mailbox!Init
  BY MailboxInit
<1>2. IInv /\ [Next]_vars => [Mailbox!Next]_Mailbox!mailboxVars
  BY MailboxStep
<1>. QED
  BY <1>1, <1>2, Inductive, PTL DEF Spec, ImplementsMailbox, Mailbox!Spec

-----------------------------------------------------------------------------
(* The credit is never lost. *)

(* The window stops the algorithm first, then the receiver. *)
StoppedInOrder ==
    /\ gui \in {"mainAlgGone", "stoppingReceiver", "closed", "crashed"}
         => mpc = "terminated"
    /\ rpc = "terminated" => gui \in {"closed", "crashed"}

CreditSomewhere ==
    mainalgisfree \/ RunsQueued # {} \/ depth > 0 \/ AcksQueued # {}

CreditKept == refused \/ mpc = "terminated" \/ CreditSomewhere

LEMMA StoppedInOrderStep ==
    StackMatches /\ StoppedInOrder /\ [Next]_vars => StoppedInOrder'
<1>. SUFFICES ASSUME StackMatches, StoppedInOrder, [Next]_vars PROVE StoppedInOrder'
  OBVIOUS
<1>. USE DEF StoppedInOrder, guiVars, maVars, flagVars, sentVars
<1>1. CASE GuiSetUp
  BY <1>1 DEF GuiSetUp, GuiStartReceiver, GuiStartMAThread, GuiStartMainAlg, GuiMoves
<1>2. CASE GuiToggleMaxFrequency
  BY <1>2 DEF GuiToggleMaxFrequency
<1>3. CASE GuiClose
  BY <1>3 DEF GuiClose, GuiStopMainAlg, GuiTerminateMainAlg, GuiStopReceiver,
              GuiTerminateReceiver, GuiMoves
<1>4. CASE ReceiverStep
  BY <1>4 DEF ReceiverStep, RecvStart, RecvStop, RecvChangeMode, RecvMainAlgFree,
              Dispatch, EndOfIteration, LeaveLoop
<1>5. CASE NetworkDelivers
  BY <1>5 DEF NetworkDelivers, ReceiveDetection, ReceiveOther
<1>6. CASE MAStart \/ MAStop \/ MARefuse \/ MARun
  BY <1>6 DEF MAStart, MAInit, MAStop, MARefuse, MARun, MATakes
<1>7. CASE MACrash
  BY <1>7 DEF MACrash
<1>8. CASE MAEvaluate \/ MADone
  BY <1>8 DEF MAEvaluate, MADone
<1>9. CASE UNCHANGED vars
  BY <1>9 DEF vars
<1>. QED
  BY <1>1, <1>2, <1>3, <1>4, <1>5, <1>6, <1>7, <1>8, <1>9 DEF Next, MAStep

(* What else a queue holds stays in it. *)
LEMMA AcksStay ==
    ASSUME TypeOK
    PROVE  /\ \A e \in RecvSlots : rq' = Append(rq, e) /\ AcksQueued # {} => AcksQueued' # {}
           /\ rq' = Append(rq, "MainAlgFree") => AcksQueued' # {}
           /\ rq # <<>> /\ rq' = Tail(rq) /\ Head(rq) # "MainAlgFree" /\ AcksQueued # {}
                => AcksQueued' # {}
<1>1. ASSUME NEW e \in RecvSlots, rq' = Append(rq, e), NEW i \in AcksQueued
      PROVE  i \in AcksQueued'
  BY <1>1, AppendElements DEF TypeOK, AcksQueued
<1>2. ASSUME rq' = Append(rq, "MainAlgFree") PROVE Len(rq) + 1 \in AcksQueued'
  <2>1. "MainAlgFree" \in RecvSlots BY DEF RecvSlots
  <2>. QED BY <1>2, <2>1, AppendElements DEF TypeOK, AcksQueued
<1>3. ASSUME rq # <<>>, rq' = Tail(rq), Head(rq) # "MainAlgFree", NEW i \in AcksQueued
      PROVE  i - 1 \in AcksQueued'
  <2>1. i \in DOMAIN rq \ {1}
    BY <1>3, TailElements DEF AcksQueued, TypeOK
  <2>. QED
    BY <1>3, <2>1, TailElements DEF AcksQueued, TypeOK
<1>. QED
  BY <1>1, <1>2, <1>3

LEMMA RunsStay ==
    ASSUME TypeOK
    PROVE  /\ \A e \in MAEvents : mq' = Append(mq, e) /\ RunsQueued # {} => RunsQueued' # {}
           /\ mq # <<>> /\ mq' = Tail(mq) /\ Head(mq).slot # "run" /\ RunsQueued # {}
                => RunsQueued' # {}
<1>1. ASSUME NEW e \in MAEvents, mq' = Append(mq, e), NEW i \in RunsQueued
      PROVE  i \in RunsQueued'
  BY <1>1, AppendElements DEF TypeOK, RunsQueued
<1>2. ASSUME mq # <<>>, mq' = Tail(mq), Head(mq).slot # "run", NEW i \in RunsQueued
      PROVE  i - 1 \in RunsQueued'
  <2>1. i \in DOMAIN mq \ {1}
    BY <1>2, TailElements DEF RunsQueued, TypeOK
  <2>. QED
    BY <1>2, <2>1, TailElements DEF RunsQueued, TypeOK
<1>. QED
  BY <1>1, <1>2

(* Handing over puts the credit into the run queue, if there still is one. *)
LEMMA HandOverKeepsCredit ==
    ASSUME TypeOK, HandOver, UNCHANGED mpc
    PROVE  mpc' = "terminated" \/ RunsQueued' # {}
<1>1. RunEvent(packetssl) \in MAEvents /\ RunEvent(packetssl).slot = "run"
  BY BoundsAssumption DEF TypeOK, RunEvent, MAEvents
<1>. QED
  BY <1>1, AppendToMq DEF HandOver, ActivateMA

LEMMA CreditKeptStep ==
    IInv /\ StoppedInOrder /\ CreditKept /\ [Next]_vars => CreditKept'
<1>. SUFFICES ASSUME IInv, StoppedInOrder, CreditKept, [Next]_vars,
                     ~refused', mpc' # "terminated"
              PROVE  CreditSomewhere'
  BY DEF CreditKept
<1>. USE DEF guiVars, flagVars, maVars, sentVars
<1>i. TypeOK /\ StackMatches /\ CreditUnique
  BY DEF IInv
<1>e. /\ PlainEvent("start") \in MAEvents /\ PlainEvent("stop") \in MAEvents
      /\ {"start", "stop"} \subseteq RecvSlots
      /\ \A on \in BOOLEAN : ModeEvent(on) \in RecvSlots
  BY DEF PlainEvent, MAEvents, RecvSlots, ModeEvent
<1>k. ASSUME UNCHANGED <<refused, mpc>> PROVE CreditSomewhere
  BY <1>k DEF CreditKept
<1>g. ASSUME CreditSomewhere, UNCHANGED <<mainalgisfree, depth>>,
             RunsQueued # {} => RunsQueued' # {}, AcksQueued # {} => AcksQueued' # {}
      PROVE  CreditSomewhere'
  BY <1>g DEF CreditSomewhere
<1>1. CASE GuiStartReceiver \/ GuiStopReceiver
  BY <1>1, <1>i, <1>e, <1>k, <1>g, AcksStay, SameQueues DEF GuiStartReceiver, GuiStopReceiver
<1>2. CASE GuiStartMAThread
  <2>1. CreditSomewhere
    BY <1>2, <1>i DEF GuiStartMAThread, GuiMoves, StackMatches, CreditKept
  <2>. QED
    BY <1>2, <2>1, <1>g, SameQueues DEF GuiStartMAThread
<1>3. CASE GuiStartMainAlg \/ GuiStopMainAlg
  BY <1>3, <1>i, <1>e, <1>k, <1>g, RunsStay, SameQueues DEF GuiStartMainAlg, GuiStopMainAlg
<1>4. CASE GuiToggleMaxFrequency
  <2>1. rq' = Append(rq, ModeEvent(~checkbox)) /\ ModeEvent(~checkbox) \in RecvSlots
    BY <1>4, ModeEventIsNoAck DEF GuiToggleMaxFrequency
  <2>. QED
    BY <1>4, <1>i, <2>1, <1>k, <1>g, AcksStay, SameQueues DEF GuiToggleMaxFrequency
<1>5. CASE GuiTerminateMainAlg \/ MACrash
  BY <1>5 DEF GuiTerminateMainAlg, MACrash
<1>6. CASE GuiTerminateReceiver
  BY <1>6 DEF GuiTerminateReceiver, GuiMoves, StoppedInOrder
<1>7. CASE RecvStart
  BY <1>7 DEF RecvStart, ResetFlags, CreditSomewhere
<1>8. CASE RecvStop
  BY <1>8, <1>i, <1>k, <1>g, AcksStay, SameQueues DEF RecvStop, RecvTakes
<1>9. CASE RecvChangeMode
  <2>1. rq # <<>> /\ rq' = Tail(rq) /\ Head(rq) # "MainAlgFree"
    BY <1>9, ModeEventIsNoAck DEF RecvChangeMode, RecvTakes
  <2>. QED
    BY <1>9, <1>i, <2>1, <1>k, <1>g, AcksStay, SameQueues DEF RecvChangeMode
<1>10. CASE RecvMainAlgFree
  <2>1. CASE FreshFrameWanted
    BY <1>10, <1>i, <2>1, HandOverKeepsCredit DEF RecvMainAlgFree, CreditSomewhere
  <2>2. CASE ~FreshFrameWanted
    BY <1>10, <2>2 DEF RecvMainAlgFree, CreditSomewhere
  <2>. QED
    BY <2>1, <2>2
<1>11. CASE Dispatch
  <2>1. CASE mainalgisfree
    BY <1>11, <1>i, <2>1, HandOverKeepsCredit DEF Dispatch, CreditSomewhere
  <2>2. CASE ~mainalgisfree
    BY <1>11, <2>2, <1>k, <1>g, SameQueues DEF Dispatch, Remember
  <2>. QED
    BY <2>1, <2>2
<1>12. CASE EndOfIteration \/ LeaveLoop \/ NetworkDelivers
  BY <1>12, <1>k, <1>g, SameQueues
     DEF EndOfIteration, LeaveLoop, NetworkDelivers, ReceiveDetection, ReceiveOther
<1>13. CASE MAStart
  BY <1>13, <1>i, <1>k, <1>g, RunsStay, SameQueues DEF MAStart, MAInit, MATakes
<1>14. CASE MAStop
  BY <1>14, <1>i, <1>k, <1>g, RunsStay, SameQueues DEF MAStop, MATakes
<1>15. CASE MARefuse
  BY <1>15 DEF MARefuse
<1>16. CASE MARun
  <2>1. depth' > 0
    BY <1>16, <1>i DEF MARun, TypeOK
  <2>. QED
    BY <2>1 DEF CreditSomewhere
<1>17. CASE MAEvaluate
  <2>1. CreditSomewhere
    BY <1>17 DEF MAEvaluate, CreditKept
  <2>. QED
    BY <1>17, <2>1, <1>g, SameQueues DEF MAEvaluate
<1>18. CASE MADone
  <2>1. rpc # "terminated"
    BY <1>18 DEF MADone, StoppedInOrder
  <2>2. AcksQueued' # {}
    BY <1>18, <1>i, <2>1, AcksStay DEF MADone, Acknowledge
  <2>. QED
    BY <2>2 DEF CreditSomewhere
<1>19. CASE UNCHANGED vars
  BY <1>19, <1>k, <1>g, SameQueues DEF vars
<1>. QED
  BY <1>1, <1>2, <1>3, <1>4, <1>5, <1>6, <1>7, <1>8, <1>9, <1>10,
     <1>11, <1>12, <1>13, <1>14, <1>15, <1>16, <1>17, <1>18, <1>19
     DEF Next, GuiSetUp, GuiClose, ReceiverStep, MAStep

(* The permission to hand over a frame cannot get lost: as long as the       *)
(* algorithm thread lives and has turned no run away, the receiver has it,   *)
(* or a queue or the stack does, and so it comes back.                       *)
THEOREM CreditNeverLost == Spec => []CreditConserved
<1>1. Init => StoppedInOrder /\ CreditKept
  BY DEF Init, StoppedInOrder, CreditKept, CreditSomewhere
<1>2. IInv /\ StoppedInOrder /\ CreditKept /\ [Next]_vars
        => StoppedInOrder' /\ CreditKept'
  BY StoppedInOrderStep, CreditKeptStep DEF IInv
<1>3. IInv /\ CreditKept => CreditConserved
  <2>. SUFFICES ASSUME IInv, CreditSomewhere PROVE Credits # {}
    BY DEF CreditKept, CreditConserved
  <2>1. CASE mainalgisfree
    <3>1. [flag |-> 0] \in Credits BY <2>1 DEF Credits
    <3>. QED BY <3>1
  <2>2. CASE RunsQueued # {}
    <3>1. PICK i \in RunsQueued : TRUE BY <2>2
    <3>2. [run |-> i] \in Credits BY <3>1 DEF Credits
    <3>. QED BY <3>2
  <2>3. CASE depth > 0
    <3>1. 1 \in 1..depth BY <2>3 DEF IInv, TypeOK
    <3>2. [stack |-> 1] \in Credits BY <3>1 DEF Credits
    <3>. QED BY <3>2
  <2>4. CASE AcksQueued # {}
    <3>1. PICK i \in AcksQueued : TRUE BY <2>4
    <3>2. [ack |-> i] \in Credits BY <3>1 DEF Credits
    <3>. QED BY <3>2
  <2>. QED
    BY <2>1, <2>2, <2>3, <2>4 DEF CreditSomewhere
<1>. QED
  BY <1>1, <1>2, <1>3, Inductive, PTL DEF Spec

-----------------------------------------------------------------------------
(* What becomes of a frame, and of a click. *)

NothingBeforeStart == StartPending => packetssl = 0 /\ lastSent = 0

Modes == {"modeOn", "modeOff"}
NoModesIn(q) == \A i \in DOMAIN q : q[i] \notin Modes
LastClickIs(q, on) ==
    \A i \in DOMAIN q :
        q[i] \in Modes /\ (\A j \in DOMAIN q : j > i => q[j] \notin Modes)
          => q[i] = ModeEvent(on)

InLoop == {"poll1", "poll2", "loop"}

(* The last click on its way is what the check box shows; if there is none, *)
(* the mode is; and before start() has run there was none.                  *)
LastClickWins ==
    /\ LastClickIs(rq, checkbox)
    /\ NoModesIn(rq) /\ rpc \in InLoop => MaxPacketFrequencyMod = checkbox
    /\ NoModesIn(rq) /\ StartPending => ~checkbox

(* Without a click the mode is the one start() sets. *)
NoClickNoMode ==
    toggles = 0 => /\ NoModesIn(rq) /\ ~checkbox
                   /\ StartPending \/ rpc = "terminated" \/ ~MaxPacketFrequencyMod

(* What has been sent once can be sent again only by an acknowledgement *)
(* served between merging and dispatching.                              *)
SecondTime ==
    /\ lastSent <= packetssl
    /\ BoundedRepeats
    /\ rpc = "poll1" /\ lastSent = packetssl => ~NewPacket
    /\ lastSent = packetssl /\ packetssl > 0 /\ (rpc = "poll1" \/ NewPacket)
         => sends <= 1 /\ toggles > 0

LEMMA OtherEventAppended ==
    ASSUME NEW q \in Seq(RecvSlots), NEW e \in RecvSlots \ Modes, NEW on
    PROVE  /\ NoModesIn(Append(q, e)) <=> NoModesIn(q)
           /\ LastClickIs(q, on) => LastClickIs(Append(q, e), on)
<1> DEFINE n == Append(q, e)
<1>1. /\ Len(q) \in Nat /\ DOMAIN q = 1..Len(q)
      /\ DOMAIN n = DOMAIN q \cup {Len(q) + 1}
      /\ \A i \in DOMAIN q : n[i] = q[i]
      /\ n[Len(q) + 1] = e
  BY AppendElements
<1> HIDE DEF n
<1>2. NoModesIn(n) <=> NoModesIn(q)
  BY <1>1 DEF NoModesIn
<1>3. ASSUME LastClickIs(q, on), NEW i \in DOMAIN n, n[i] \in Modes,
             \A j \in DOMAIN n : j > i => n[j] \notin Modes
      PROVE  n[i] = ModeEvent(on)
  <2>1. i \in DOMAIN q /\ n[i] = q[i] BY <1>1, <1>3
  <2>2. \A j \in DOMAIN q : j > i => q[j] \notin Modes BY <1>1, <1>3
  <2>. QED BY <2>1, <2>2, <1>3 DEF LastClickIs
<1>. QED BY <1>2, <1>3 DEF LastClickIs, n

LEMMA ClickAppended ==
    ASSUME NEW q \in Seq(RecvSlots), NEW on \in BOOLEAN
    PROVE  /\ ~NoModesIn(Append(q, ModeEvent(on)))
           /\ LastClickIs(Append(q, ModeEvent(on)), on)
<1> DEFINE e == ModeEvent(on)
           n == Append(q, e)
<1>0. e \in RecvSlots /\ e \in Modes BY DEF ModeEvent, RecvSlots, Modes
<1>1. /\ Len(q) \in Nat /\ DOMAIN q = 1..Len(q)
      /\ DOMAIN n = DOMAIN q \cup {Len(q) + 1}
      /\ n[Len(q) + 1] = e
  BY <1>0, AppendElements
<1> HIDE DEF n, e
<1>2. ~NoModesIn(n) BY <1>0, <1>1 DEF NoModesIn
<1>3. ASSUME NEW i \in DOMAIN n, \A j \in DOMAIN n : j > i => n[j] \notin Modes
      PROVE  n[i] = e
  <2>1. CASE i \in DOMAIN q
    <3>1. Len(q) + 1 \in DOMAIN n /\ Len(q) + 1 > i BY <1>1, <2>1
    <3>. QED BY <3>1, <1>0, <1>1, <1>3
  <2>. QED BY <1>1, <2>1
<1>. QED BY <1>2, <1>3 DEF LastClickIs, n, e

LEMMA EventTaken ==
    ASSUME NEW q \in Seq(RecvSlots), q # <<>>, NEW on
    PROVE  /\ LastClickIs(q, on) => LastClickIs(Tail(q), on)
           /\ NoModesIn(q) => NoModesIn(Tail(q))
           /\ NoModesIn(Tail(q)) /\ Head(q) \notin Modes => NoModesIn(q)
           /\ LastClickIs(q, on) /\ NoModesIn(Tail(q)) /\ Head(q) \in Modes
                => Head(q) = ModeEvent(on)
<1> DEFINE t == Tail(q)
<1>1. /\ 1 \in DOMAIN q /\ Head(q) = q[1]
      /\ \A i \in DOMAIN t : i \in Nat \ {0} /\ i + 1 \in DOMAIN q /\ t[i] = q[i + 1]
      /\ \A i \in DOMAIN q \ {1} : i - 1 \in DOMAIN t /\ t[i - 1] = q[i]
      /\ \A i \in DOMAIN q : i \in Nat \ {0}
  BY TailElements
<1> HIDE DEF t
<1>2. ASSUME LastClickIs(q, on), NEW i \in DOMAIN t, t[i] \in Modes,
             \A j \in DOMAIN t : j > i => t[j] \notin Modes
      PROVE  t[i] = ModeEvent(on)
  <2>1. i + 1 \in DOMAIN q /\ q[i + 1] \in Modes /\ t[i] = q[i + 1] BY <1>1, <1>2
  <2>2. ASSUME NEW j \in DOMAIN q, j > i + 1 PROVE q[j] \notin Modes
    <3>1. j # 1 /\ j - 1 > i /\ j - 1 \in DOMAIN t BY <1>1, <1>2, <2>2
    <3>2. q[j] = t[j - 1] BY <1>1, <3>1
    <3>. QED BY <3>1, <3>2, <1>2
  <2>. QED BY <2>1, <2>2, <1>2 DEF LastClickIs
<1>3. NoModesIn(q) => NoModesIn(t) BY <1>1 DEF NoModesIn
<1>4. NoModesIn(t) /\ Head(q) \notin Modes => NoModesIn(q)
  <2>. SUFFICES ASSUME NoModesIn(t), Head(q) \notin Modes, NEW i \in DOMAIN q
                PROVE  q[i] \notin Modes
    BY DEF NoModesIn
  <2>1. CASE i = 1 BY <2>1, <1>1
  <2>2. CASE i # 1 BY <2>2, <1>1 DEF NoModesIn
  <2>. QED BY <2>1, <2>2
<1>5. ASSUME LastClickIs(q, on), NoModesIn(t), Head(q) \in Modes
      PROVE  Head(q) = ModeEvent(on)
  <2>1. \A j \in DOMAIN q : j > 1 => q[j] \notin Modes
    <3>. SUFFICES ASSUME NEW j \in DOMAIN q, j > 1 PROVE q[j] \notin Modes OBVIOUS
    <3>1. j - 1 \in DOMAIN t /\ t[j - 1] = q[j] BY <1>1
    <3>. QED BY <3>1, <1>5 DEF NoModesIn
  <2>. QED BY <2>1, <1>1, <1>5 DEF LastClickIs
<1>6. LastClickIs(q, on) => LastClickIs(t, on) BY <1>2 DEF LastClickIs
<1>. QED BY <1>3, <1>4, <1>5, <1>6 DEF t

(* Everything but a click, the taking of a click and start() leaves the *)
(* clicks in the queue and the mode alone.                              *)
LEMMA ClickStep ==
    ASSUME IInv, [Next]_vars, ~GuiToggleMaxFrequency, ~RecvStart, ~RecvChangeMode
    PROVE  /\ UNCHANGED <<checkbox, toggles, MaxPacketFrequencyMod>>
           /\ gui' = "constructing" => gui = "constructing"
           /\ rpc' \in InLoop => rpc \in InLoop
           /\ \/ rq' = <<>> /\ rpc' = "terminated" /\ gui' # "constructing"
              \/ /\ rpc = "terminated" => rpc' = "terminated"
                 /\ \/ rq' = rq
                    \/ /\ rq # <<>> /\ rq' = Tail(rq)
                       /\ Head(rq) \notin Modes /\ Head(rq) # "start"
                    \/ \E e \in RecvSlots \ Modes :
                          rq' = Append(rq, e) /\ (e = "start" => gui = "constructing")
<1>. USE DEF guiVars, maVars, flagVars, sentVars, InLoop
<1>e. {"start", "stop", "MainAlgFree"} \subseteq RecvSlots \ Modes
  BY DEF RecvSlots, Modes
<1>1. CASE GuiSetUp
  BY <1>1, <1>e DEF GuiSetUp, GuiStartReceiver, GuiStartMAThread, GuiStartMainAlg, GuiMoves
<1>2. CASE GuiClose
  BY <1>2, <1>e DEF GuiClose, GuiStopMainAlg, GuiTerminateMainAlg, GuiStopReceiver,
              GuiTerminateReceiver, GuiMoves
<1>3. CASE RecvStop
  BY <1>3, <1>e DEF RecvStop, RecvTakes
<1>4. CASE RecvMainAlgFree
  BY <1>4, <1>e DEF RecvMainAlgFree, RecvTakes
<1>5. CASE Dispatch \/ EndOfIteration \/ LeaveLoop
  BY <1>5 DEF Dispatch, EndOfIteration, LeaveLoop
<1>6. CASE NetworkDelivers
  BY <1>6 DEF NetworkDelivers, ReceiveDetection, ReceiveOther, ReceiverInLoop
<1>7. CASE MAStart \/ MAStop \/ MARefuse \/ MARun \/ MAEvaluate
  BY <1>7 DEF MAStart, MAInit, MAStop, MARefuse, MARun, MAEvaluate
<1>8. CASE MACrash
  BY <1>8 DEF MACrash
<1>9. CASE MADone
  BY <1>9, <1>e DEF MADone, Acknowledge
<1>10. CASE UNCHANGED vars
  BY <1>10 DEF vars
<1>. QED
  BY <1>1, <1>2, <1>3, <1>4, <1>5, <1>6, <1>7, <1>8, <1>9, <1>10
     DEF Next, ReceiverStep, MAStep

(* start() is called once. *)
LEMMA StartOnce == IInv /\ [Next]_vars /\ StartPending' => StartPending
<1>. SUFFICES ASSUME IInv, [Next]_vars, gui # "constructing",
                     gui' = "constructing" \/ \E i \in DOMAIN rq' : rq'[i] = "start"
              PROVE  \E i \in DOMAIN rq : rq[i] = "start"
  BY DEF StartPending
<1>1. rq \in Seq(RecvSlots) /\ checkbox \in BOOLEAN BY DEF IInv, TypeOK
<1>2. CASE GuiToggleMaxFrequency
  <2>1. rq' = Append(rq, ModeEvent(~checkbox)) /\ gui' # "constructing"
    BY <1>2 DEF GuiToggleMaxFrequency
  <2>2. ModeEvent(~checkbox) \in RecvSlots \ {"MainAlgFree", "start"} BY ModeEventIsNoAck
  <2>. QED BY <1>1, <2>1, <2>2, AppendElements
<1>t. ASSUME rq # <<>>, rq' = Tail(rq), gui' # "constructing"
      PROVE  \E i \in DOMAIN rq : rq[i] = "start"
  BY <1>1, <1>t, TailElements
<1>3. CASE RecvStart \/ RecvChangeMode
  BY <1>3, <1>t DEF RecvStart, RecvChangeMode, RecvTakes, guiVars
<1>4. CASE ~GuiToggleMaxFrequency /\ ~RecvStart /\ ~RecvChangeMode
  <2>1. gui' # "constructing" BY <1>4, ClickStep
  <2>2. CASE rq' = <<>> BY <2>1, <2>2, EmptyQueue
  <2>3. CASE rq' = rq BY <2>1, <2>3
  <2>4. CASE rq # <<>> /\ rq' = Tail(rq) BY <2>1, <2>4, <1>t
  <2>5. ASSUME NEW e \in RecvSlots \ Modes, rq' = Append(rq, e), e # "start"
        PROVE  \E i \in DOMAIN rq : rq[i] = "start"
    BY <1>1, <2>1, <2>5, AppendElements
  <2>. QED BY <1>4, <2>2, <2>3, <2>4, <2>5, ClickStep
<1>. QED BY <1>2, <1>3, <1>4

(* Only these four touch frames and what was sent of them. *)
LEMMA FrameStep ==
    ASSUME IInv, [Next]_vars, ~RecvStart, ~ReceiveDetection, ~Dispatch, ~RecvMainAlgFree
    PROVE  /\ UNCHANGED <<packetssl, lastSent, sends, NewPacket>>
           /\ rpc' \in {"poll2", "loop"} => rpc \in {"poll2", "loop"}
           /\ rpc' = "poll1" => rpc = "poll1"
           /\ toggles' = toggles \/ toggles' = toggles + 1
<1>. USE DEF guiVars, maVars, flagVars, sentVars
<1>1. CASE GuiSetUp
  BY <1>1 DEF GuiSetUp, GuiStartReceiver, GuiStartMAThread, GuiStartMainAlg
<1>2. CASE GuiToggleMaxFrequency
  BY <1>2 DEF GuiToggleMaxFrequency
<1>3. CASE GuiClose
  BY <1>3 DEF GuiClose, GuiStopMainAlg, GuiTerminateMainAlg, GuiStopReceiver,
              GuiTerminateReceiver
<1>4. CASE RecvStop \/ RecvChangeMode \/ EndOfIteration \/ LeaveLoop
  BY <1>4 DEF RecvStop, RecvChangeMode, EndOfIteration, LeaveLoop
<1>5. CASE ReceiveOther
  BY <1>5 DEF ReceiveOther, ReceiverInLoop
<1>6. CASE MAStart \/ MAStop \/ MARefuse \/ MARun \/ MAEvaluate \/ MADone
  BY <1>6 DEF MAStart, MAInit, MAStop, MARefuse, MARun, MAEvaluate, MADone
<1>7. CASE MACrash
  BY <1>7 DEF MACrash
<1>8. CASE UNCHANGED vars
  BY <1>8 DEF vars
<1>. QED
  BY <1>1, <1>2, <1>3, <1>4, <1>5, <1>6, <1>7, <1>8
     DEF Next, ReceiverStep, NetworkDelivers, MAStep

LEMMA NothingBeforeStartStep ==
    IInv /\ NothingBeforeStart /\ [Next]_vars => NothingBeforeStart'
<1>. SUFFICES ASSUME IInv, NothingBeforeStart, [Next]_vars, StartPending'
              PROVE  packetssl' = 0 /\ lastSent' = 0
  BY DEF NothingBeforeStart
<1>. USE DEF sentVars
<1>1. /\ packetssl = 0 /\ lastSent = 0
      /\ rpc \in {"exec", "terminated"}
  BY StartOnce DEF NothingBeforeStart, IInv, StartFirst
<1>2. CASE RecvStart BY <1>1, <1>2 DEF RecvStart
<1>3. ~ReceiveDetection /\ ~Dispatch
  BY <1>1 DEF ReceiveDetection, ReceiverInLoop, Dispatch
<1>4. CASE RecvMainAlgFree
  BY <1>1, <1>4 DEF RecvMainAlgFree, HandOver, ActivateMA
<1>. QED BY <1>1, <1>2, <1>3, <1>4, FrameStep

(* When start() has been served, none is left. *)
LEMMA StartTaken == IInv /\ RecvStart => StartPending
BY TailElements DEF IInv, TypeOK, RecvStart, RecvTakes, StartPending

LEMMA NoFrameForgottenStep ==
    IInv /\ NothingBeforeStart /\ NoFrameForgotten /\ [Next]_vars => NoFrameForgotten'
<1>. SUFFICES ASSUME IInv, NothingBeforeStart, NoFrameForgotten, [Next]_vars
              PROVE  NoFrameForgotten'
  OBVIOUS
<1>. USE DEF NoFrameForgotten, flagVars, sentVars
<1>1. CASE RecvStart
  BY <1>1, StartTaken DEF RecvStart, NothingBeforeStart
<1>2. CASE ReceiveDetection
  BY <1>2 DEF ReceiveDetection
<1>3. CASE Dispatch
  BY <1>3 DEF Dispatch, HandOver, ActivateMA, Remember
<1>4. CASE RecvMainAlgFree
  BY <1>4 DEF RecvMainAlgFree, HandOver, ActivateMA
<1>. QED
  BY <1>1, <1>2, <1>3, <1>4, FrameStep

(* Whatever is served while a frame is processed, once the receiver is back  *)
(* in its loop the newest frame has been sent or is remembered.              *)
THEOREM FramesAreRemembered == Spec => []NoFrameForgotten
<1>1. Init => NothingBeforeStart /\ NoFrameForgotten
  BY DEF Init, NothingBeforeStart, NoFrameForgotten
<1>. QED
  BY <1>1, Inductive, NothingBeforeStartStep, NoFrameForgottenStep, PTL DEF Spec

LEMMA LastClickWinsStep ==
    IInv /\ LastClickWins /\ [Next]_vars => LastClickWins'
<1>. SUFFICES ASSUME IInv, LastClickWins, [Next]_vars PROVE LastClickWins'
  OBVIOUS
<1>1. /\ rq \in Seq(RecvSlots) /\ checkbox \in BOOLEAN
      /\ StartPending => rpc \in {"exec", "terminated"}
      /\ StartPending' => StartPending
  BY StartOnce DEF IInv, TypeOK, StartFirst
<1>2. CASE GuiToggleMaxFrequency
  <2>1. rq' = Append(rq, ModeEvent(checkbox')) /\ checkbox' \in BOOLEAN
    BY <1>2 DEF GuiToggleMaxFrequency
  <2>. QED BY <1>1, <2>1, ClickAppended DEF LastClickWins
<1>3. CASE RecvStart
  <2>1. /\ rq # <<>> /\ rq' = Tail(rq) /\ Head(rq) \notin Modes
        /\ checkbox' = checkbox /\ MaxPacketFrequencyMod' = FALSE
    BY <1>3 DEF RecvStart, RecvTakes, ResetFlags, guiVars, Modes
  <2>2. NoModesIn(rq') => ~checkbox
    BY <1>1, <1>3, <2>1, EventTaken, StartTaken DEF LastClickWins
  <2>3. LastClickIs(rq', checkbox')
    BY <1>1, <2>1, EventTaken DEF LastClickWins
  <2>. QED BY <1>1, <2>1, <2>2, <2>3 DEF LastClickWins
<1>4. CASE RecvChangeMode
  <2>1. PICK on \in BOOLEAN :
          /\ rq # <<>> /\ rq' = Tail(rq) /\ Head(rq) = ModeEvent(on)
          /\ MaxPacketFrequencyMod' = on
    BY <1>4 DEF RecvChangeMode, RecvTakes
  <2>2. checkbox' = checkbox /\ rpc' = rpc
    BY <1>4 DEF RecvChangeMode, guiVars
  <2>3. Head(rq) \in Modes BY <2>1 DEF ModeEvent, Modes
  <2>4. NoModesIn(rq') => ModeEvent(on) = ModeEvent(checkbox)
    BY <1>1, <2>1, <2>3, EventTaken DEF LastClickWins
  <2>5. NoModesIn(rq') => MaxPacketFrequencyMod' = checkbox'
    BY <1>1, <2>1, <2>2, <2>4 DEF ModeEvent
  <2>6. ~StartPending
    BY <1>1, <1>4, <2>1, TailElements DEF IInv, StartFirst, StartPending, ModeEvent
  <2>7. LastClickIs(rq', checkbox')
    BY <1>1, <2>1, <2>2, EventTaken DEF LastClickWins
  <2>. QED BY <1>1, <2>5, <2>6, <2>7 DEF LastClickWins
<1>5. CASE ~GuiToggleMaxFrequency /\ ~RecvStart /\ ~RecvChangeMode
  <2>1. /\ UNCHANGED <<checkbox, MaxPacketFrequencyMod>>
        /\ rpc' \in InLoop => rpc \in InLoop
    BY <1>5, ClickStep
  <2>2. CASE rq' = <<>> /\ rpc' = "terminated" /\ gui' # "constructing"
    <3>1. LastClickIs(rq', checkbox') /\ ~StartPending'
      BY <2>2, EmptyQueue DEF LastClickIs, StartPending
    <3>. QED BY <2>2, <3>1 DEF LastClickWins, InLoop
  <2>3. ASSUME LastClickIs(rq', checkbox), NoModesIn(rq') => NoModesIn(rq)
        PROVE  LastClickWins'
    BY <1>1, <2>1, <2>3 DEF LastClickWins
  <2>4. CASE rq' = rq
    <3>1. LastClickIs(rq, checkbox) BY DEF LastClickWins
    <3>. QED BY <2>3, <2>4, <3>1
  <2>5. CASE rq # <<>> /\ rq' = Tail(rq) /\ Head(rq) \notin Modes
    BY <1>1, <2>3, <2>5, EventTaken DEF LastClickWins
  <2>6. ASSUME NEW e \in RecvSlots \ Modes, rq' = Append(rq, e)
        PROVE  LastClickWins'
    BY <1>1, <2>3, <2>6, OtherEventAppended DEF LastClickWins
  <2>. QED BY <1>5, <2>2, <2>4, <2>5, <2>6, ClickStep
<1>. QED BY <1>2, <1>3, <1>4, <1>5

(* However clicks overtake or follow start(), frames and acknowledgements,  *)
(* with none in transit the receiver works in the mode the check box shows.  *)
THEOREM ModeIsTheCheckboxes == Spec => []ModeFollowsCheckbox
<1>1. Init => LastClickWins
  <2>. SUFFICES ASSUME Init PROVE LastClickWins
    OBVIOUS
  <2>1. rq = <<>> /\ rpc = "exec" /\ ~checkbox
    BY DEF Init
  <2>2. LastClickIs(rq, checkbox)
    BY <2>1, EmptyQueue DEF LastClickIs
  <2>3. rpc \notin InLoop
    BY <2>1 DEF InLoop
  <2>. QED
    BY <2>1, <2>2, <2>3 DEF LastClickWins
<1>2. LastClickWins => ModeFollowsCheckbox
  BY DEF LastClickWins, ModeFollowsCheckbox, NoModesIn, Modes, InLoop
<1>. QED
  BY <1>1, <1>2, Inductive, LastClickWinsStep, PTL DEF Spec

(* Only start() takes start() out of the queue. *)
LEMMA StartWaits ==
    ASSUME IInv, [Next]_vars, StartPending, ~RecvStart
    PROVE  StartPending' \/ rpc' = "terminated"
<1>. SUFFICES ASSUME rpc' # "terminated" PROVE StartPending'
  OBVIOUS
<1>1. rq \in Seq(RecvSlots) /\ checkbox \in BOOLEAN BY DEF IInv, TypeOK
<1>2. CASE gui = "constructing"
  <2>1. rq = <<>> BY <1>2 DEF IInv, StartFirst
  <2>2. CASE GuiSetUp
    <3>1. rq' = Append(rq, "start")
      BY <1>2, <2>2 DEF GuiSetUp, GuiStartReceiver, GuiStartMAThread, GuiStartMainAlg, GuiMoves
    <3>2. rq'[1] = "start" /\ 1 \in DOMAIN rq' BY <2>1, <3>1
    <3>. QED BY <3>2 DEF StartPending
  <2>3. ~GuiToggleMaxFrequency /\ ~GuiClose /\ ~MACrash
    BY <1>2 DEF GuiToggleMaxFrequency, GuiClose, GuiStopMainAlg, GuiTerminateMainAlg,
                GuiStopReceiver, GuiTerminateReceiver, GuiMoves, MACrash
  <2>4. CASE ReceiverStep
    BY <2>1, <2>4, <1>2 DEF ReceiverStep, RecvStart, RecvStop, RecvChangeMode, RecvMainAlgFree,
       RecvTakes, Dispatch, EndOfIteration, LeaveLoop, guiVars, StartPending
  <2>5. CASE NetworkDelivers \/ UNCHANGED vars
    BY <2>5, <1>2 DEF NetworkDelivers, ReceiveDetection, ReceiveOther, vars, guiVars, StartPending
  <2>6. CASE MAStep
    BY <2>3, <2>6, <1>2 DEF MAStep, MAStart, MAStop, MARefuse, MARun, MAEvaluate, MADone,
       guiVars, StartPending
  <2>. QED BY <2>2, <2>3, <2>4, <2>5, <2>6 DEF Next
<1>3. CASE gui # "constructing"
  <2>1. PICK i \in DOMAIN rq : rq[i] = "start" BY <1>3 DEF StartPending
  <2>2. i = 1 BY <2>1 DEF IInv, StartFirst
  <2>3. rq # <<>> /\ Head(rq) = "start" BY <1>1, <2>1, <2>2, EmptyQueue, TailElements
  <2>4. ~RecvChangeMode BY <2>3 DEF RecvChangeMode, RecvTakes, ModeEvent
  <2>5. ASSUME NEW e \in RecvSlots, rq' = Append(rq, e) PROVE StartPending'
    <3>1. i \in DOMAIN rq' /\ rq'[i] = "start" BY <1>1, <2>1, <2>5, AppendElements
    <3>. QED BY <3>1 DEF StartPending
  <2>6. CASE GuiToggleMaxFrequency
    <3>1. rq' = Append(rq, ModeEvent(~checkbox)) BY <2>6 DEF GuiToggleMaxFrequency
    <3>2. ModeEvent(~checkbox) \in RecvSlots BY DEF ModeEvent, RecvSlots
    <3>. QED BY <3>1, <3>2, <2>5
  <2>7. CASE ~GuiToggleMaxFrequency
    <3>1. rq' = rq \/ \E e \in RecvSlots \ Modes : rq' = Append(rq, e)
      BY <2>3, <2>4, <2>7, ClickStep
    <3>2. CASE rq' = rq BY <2>1, <3>2 DEF StartPending
    <3>. QED BY <3>1, <3>2, <2>5
  <2>. QED BY <2>6, <2>7
<1>. QED BY <1>2, <1>3

LEMMA NoClickNoModeStep ==
    IInv /\ NoClickNoMode /\ [Next]_vars => NoClickNoMode'
<1>. SUFFICES ASSUME IInv, NoClickNoMode, [Next]_vars PROVE NoClickNoMode'
  OBVIOUS
<1>1. rq \in Seq(RecvSlots) /\ toggles \in Nat BY DEF IInv, TypeOK
<1>2. CASE GuiToggleMaxFrequency
  <2>1. toggles' # 0 BY <1>1, <1>2 DEF GuiToggleMaxFrequency
  <2>. QED BY <2>1 DEF NoClickNoMode
<1>3. CASE RecvStart
  <2>1. /\ rq # <<>> /\ rq' = Tail(rq)
        /\ checkbox' = checkbox /\ toggles' = toggles /\ MaxPacketFrequencyMod' = FALSE
    BY <1>3 DEF RecvStart, RecvTakes, ResetFlags, guiVars
  <2>. QED BY <1>1, <2>1, EventTaken DEF NoClickNoMode
<1>4. CASE RecvChangeMode
  <2>1. /\ rq # <<>> /\ Head(rq) \in Modes /\ toggles' = toggles
    BY <1>4 DEF RecvChangeMode, RecvTakes, guiVars, ModeEvent, Modes
  <2>2. ~NoModesIn(rq) BY <1>1, <2>1, TailElements DEF NoModesIn
  <2>. QED BY <2>1, <2>2 DEF NoClickNoMode
<1>5. CASE ~GuiToggleMaxFrequency /\ ~RecvStart /\ ~RecvChangeMode
  <2>1. /\ UNCHANGED <<checkbox, toggles, MaxPacketFrequencyMod>>
        /\ rpc = "terminated" => rpc' = "terminated"
    BY <1>5, ClickStep
  <2>2. NoModesIn(rq) => NoModesIn(rq')
    <3>1. NoModesIn(<<>>) BY EmptyQueue DEF NoModesIn
    <3>. QED BY <1>1, <1>5, <3>1, ClickStep, EventTaken, OtherEventAppended
  <2>3. StartPending => StartPending' \/ rpc' = "terminated"
    BY <1>5, StartWaits
  <2>. QED BY <2>1, <2>2, <2>3 DEF NoClickNoMode
<1>. QED BY <1>2, <1>3, <1>4, <1>5

LEMMA SecondTimeStep ==
    ASSUME IInv, NothingBeforeStart, NoFrameForgotten, NoClickNoMode, SecondTime,
           [Next]_vars
    PROVE  SecondTime'
<1>. USE DEF sentVars
<1>i. /\ packetssl \in Nat /\ lastSent \in Nat /\ sends \in Nat /\ toggles \in Nat
      /\ NewPacket \in BOOLEAN /\ mainalgisfree \in BOOLEAN
  BY DEF IInv, TypeOK
<1>1. CASE RecvStart
  <2>1. /\ packetssl = 0 /\ lastSent = 0 /\ rpc' = "loop"
    BY <1>1, StartTaken DEF RecvStart, NothingBeforeStart
  <2>2. UNCHANGED <<packetssl, lastSent, sends, toggles>>
    BY <1>1 DEF RecvStart, guiVars
  <2>. QED BY <1>i, <2>1, <2>2 DEF SecondTime, BoundedRepeats
<1>2. CASE ReceiveDetection
  <2>1. packetssl' = packetssl + 1 /\ UNCHANGED <<lastSent, sends, toggles>>
    BY <1>2 DEF ReceiveDetection, guiVars
  <2>2. lastSent' # packetssl'
    BY <1>i, <2>1 DEF SecondTime
  <2>. QED BY <1>i, <2>1, <2>2 DEF SecondTime, BoundedRepeats
<1>s. ASSUME HandOver, packetssl > 0, UNCHANGED <<packetssl, toggles>>,
             lastSent = packetssl => sends <= 1 /\ toggles > 0 /\ rpc' # "poll1",
             rpc' # "poll1" \/ toggles > 0
      PROVE  SecondTime'
  <2>1. /\ lastSent' = packetssl' /\ ~NewPacket'
        /\ lastSent = packetssl => sends' = sends + 1
        /\ lastSent # packetssl => sends' = 1
    BY <1>s DEF HandOver, ActivateMA
  <2>2. BoundedRepeats'
    BY <1>i, <1>s, <2>1 DEF BoundedRepeats
  <2>3. rpc' = "poll1" => sends' <= 1 /\ toggles' > 0
    BY <1>i, <1>s, <2>1
  <2>. QED BY <1>i, <1>s, <2>1, <2>2, <2>3 DEF SecondTime
<1>3. CASE Dispatch
  <2>1. /\ packetssl > 0 /\ rpc = "poll1" /\ rpc' = "poll2"
        /\ UNCHANGED <<packetssl, toggles>>
    BY <1>3 DEF Dispatch, IInv, FramesExist, guiVars
  <2>2. lastSent = packetssl => sends <= 1 /\ toggles > 0
    BY <2>1 DEF SecondTime
  <2>3. CASE mainalgisfree
    BY <1>3, <2>1, <2>2, <2>3, <1>s DEF Dispatch
  <2>4. CASE ~mainalgisfree
    <3>1. UNCHANGED <<lastSent, sends>>
      BY <1>3, <2>4 DEF Dispatch, Remember
    <3>. QED BY <1>i, <2>1, <2>2, <3>1 DEF SecondTime, BoundedRepeats
  <2>. QED BY <2>3, <2>4
<1>4. CASE RecvMainAlgFree
  <2>1. /\ rpc \in {"exec", "poll1", "poll2"} /\ rpc' = rpc
        /\ UNCHANGED <<packetssl, toggles>>
        /\ rq # <<>> /\ Head(rq) = "MainAlgFree"
    BY <1>4 DEF RecvMainAlgFree, RecvTakes, guiVars
  <2>2. CASE FreshFrameWanted
    <3>1. 1 \in AcksQueued
      BY <2>1, TailElements DEF IInv, TypeOK, AcksQueued
    <3>2. ~StartPending
      BY <3>1 DEF IInv, StartFirst, Pristine
    <3>3. packetssl > 0
      BY <2>1, <2>2, <3>2 DEF IInv, FramesExist, FreshFrameWanted
    <3>4. toggles > 0
      BY <1>i, <2>1, <2>2, <3>2 DEF NoClickNoMode, FreshFrameWanted
    <3>5. lastSent = packetssl => sends <= 1 /\ rpc' # "poll1"
      BY <2>1, <2>2, <3>3 DEF SecondTime, FreshFrameWanted
    <3>6. HandOver
      BY <1>4, <2>2 DEF RecvMainAlgFree
    <3>. QED BY <2>1, <3>3, <3>4, <3>5, <3>6, <1>s
  <2>3. CASE ~FreshFrameWanted
    <3>1. UNCHANGED <<NewPacket, lastSent, sends>>
      BY <1>4, <2>3 DEF RecvMainAlgFree
    <3>. QED BY <1>i, <2>1, <3>1 DEF SecondTime, BoundedRepeats
  <2>. QED BY <2>2, <2>3
<1>5. CASE ~RecvStart /\ ~ReceiveDetection /\ ~Dispatch /\ ~RecvMainAlgFree
  <2>1. /\ UNCHANGED <<packetssl, lastSent, sends, NewPacket>>
        /\ rpc' = "poll1" => rpc = "poll1"
        /\ toggles' = toggles \/ toggles' = toggles + 1
    BY <1>5, FrameStep
  <2>. QED BY <1>i, <2>1 DEF SecondTime, BoundedRepeats
<1>. QED BY <1>1, <1>2, <1>3, <1>4, <1>5

(* The same world state is handed over at most twice, and only once when the *)
(* check box was never touched: the second time is an acknowledgement served *)
(* between the merge and the dispatch.                                       *)
THEOREM RepeatsAreBounded == Spec => []BoundedRepeats
<1>1. Init => NothingBeforeStart /\ NoFrameForgotten
  BY DEF Init, NothingBeforeStart, NoFrameForgotten
<1>2. Init => NoClickNoMode
  BY EmptyQueue DEF Init, NoClickNoMode, NoModesIn, StartPending
<1>3. Init => SecondTime
  BY DEF Init, SecondTime, BoundedRepeats
<1>4. SecondTime => BoundedRepeats
  BY DEF SecondTime
<1>. QED
  BY <1>1, <1>2, <1>3, <1>4, Inductive, NothingBeforeStartStep, NoFrameForgottenStep,
     NoClickNoModeStep, SecondTimeStep, PTL DEF Spec

=============================================================================
