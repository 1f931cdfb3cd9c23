---------------------------- MODULE FrameMailbox ----------------------------
(***************************************************************************)
(* What the receiver and the algorithm worker promise each other about     *)
(* vision frames, without threads, queues or flags: a mailbox with a       *)
(* single credit.  Frames keep arriving; whenever the algorithm is idle it *)
(* may be handed the newest state of the world; it is never handed a       *)
(* second one before it has finished; and once the exchange has been       *)
(* abandoned (shutdown, or a run that was turned away) nothing is ever     *)
(* handed over again.                                                      *)
(***************************************************************************)
EXTENDS Naturals

CONSTANT MaxFrames  \* Bound on the detection frames that arrive.

VARIABLES
    latest,   \* Number of detection frames merged into the world state.
    status,   \* "idle", "busy" (one hand-over unfinished) or "dead".
    carried   \* World state the algorithm holds while busy, else 0.

mailboxVars == <<latest, status, carried>>

Init == latest = 0 /\ status = "idle" /\ carried = 0

Arrive ==
    /\ latest < MaxFrames
    /\ latest' = latest + 1
    /\ UNCHANGED <<status, carried>>

HandOver ==
    /\ status = "idle"
    /\ latest > 0
    /\ status' = "busy"
    /\ carried' = latest
    /\ UNCHANGED latest

Finish ==
    /\ status = "busy"
    /\ status' = "idle"
    /\ carried' = 0
    /\ UNCHANGED latest

Abandon ==
    /\ status' = "dead"
    /\ carried' = 0
    /\ UNCHANGED latest

Next == Arrive \/ HandOver \/ Finish \/ Abandon

Spec == Init /\ [][Next]_mailboxVars
=============================================================================
