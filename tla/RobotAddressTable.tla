-------------------------- MODULE RobotAddressTable --------------------------
(***************************************************************************)
(* numIP, the connector's map from robots to addresses, and who touches    *)
(* it: the connector thread through the events start, addIp and run in its *)
(* queue, and the GUI thread directly, when IpDialog's constructor fills   *)
(* its cells with operator[], which inserts what is missing, and when the  *)
(* window then logs the whole map.  An accepted dialog posts one addIp for *)
(* each cell, between commands of the algorithm thread.                    *)
(*                                                                         *)
(* An access to the map of each thread may overlap one of the other: the   *)
(* connector takes an event in one step and touches the map in a later     *)
(* one.  The dialog is modal, so there is one at a time; a closed one      *)
(* stays connected but posts nothing.                                      *)
(***************************************************************************)
EXTENDS Naturals, Sequences

CONSTANTS
    NumCells,        \* Cells of the dialog; the code has 12.
    Addresses,       \* Texts with a dot in them.
    DefaultRobot, DefaultAddress,   \* The entry init() makes.
    MaxDialogs,      \* Bound: dialogs opened.
    MaxBacklog       \* Bound: events waiting when a command is posted.

ASSUME CellsAssumption == NumCells \in Nat /\ DefaultRobot \in 1..NumCells
ASSUME AddressAssumption ==
    /\ DefaultAddress \in Addresses
    /\ {"", "dotless"} \cap Addresses = {}
ASSUME BoundsAssumption == MaxDialogs \in Nat /\ MaxBacklog \in Nat

Robots == 1..NumCells
Texts  == Addresses \cup {"", "dotless"}   \* What a user may type.

VARIABLES
    gui,        \* What the GUI thread is doing.
    cell,       \* Cell it will read or post next.
    cells,      \* Texts in the dialog.
    dialogs,    \* Dialogs opened so far.
    process,    \* Whether the connector thread runs, or memory is damaged.
    udpSocket,  \* Whether init() has created it.
    numIP,
    queue,      \* Event queue of the connector thread.
    hand,       \* Event it is serving.
    accepted,   \* History: the last accepted dialog's texts, as a singleton.
    settled,    \* History: no address was on its way when the dialog opened.
    raced       \* History: the dialog read the map while it was written.

guiVars  == <<gui, cell, cells, dialogs, accepted, settled, raced>>
connVars == <<process, udpSocket, numIP, hand>>
vars     == <<guiVars, connVars, queue>>

StartEvent == [slot |-> "start", robot |-> DefaultRobot, text |-> DefaultAddress]
AddIpEvent(r, text) == [slot |-> "addIp", robot |-> r, text |-> text]
RunEvent(r, due)    == [slot |-> "run", robot |-> r, text |-> due]
NoEvent == [slot |-> "none", robot |-> DefaultRobot, text |-> ""]

Events == [slot : {"start", "addIp", "run"}, robot : Robots, text : Texts]

Running == process = "running"

(* addIp stores a text without a dot as the empty address. *)
Cleaned(text) == IF text \in Addresses THEN text ELSE ""

Lookup(r)      == IF r \in DOMAIN numIP THEN numIP[r] ELSE ""
With(r, ip)    == [s \in DOMAIN numIP \cup {r} |-> IF s = r THEN ip ELSE numIP[s]]
Writes(event)  == event.slot \in {"start", "addIp"}

(* The address robot r has once all that waits has been served. *)
Waiting == IF hand = NoEvent THEN queue ELSE <<hand>> \o queue
WritesOf(r) == {i \in DOMAIN Waiting : Writes(Waiting[i]) /\ Waiting[i].robot = r}
Due(r) ==
    IF WritesOf(r) = {} THEN Lookup(r)
    ELSE Cleaned(Waiting[CHOOSE i \in WritesOf(r) :
                           \A j \in WritesOf(r) : j <= i].text)

Init ==
    /\ gui = "constructing" /\ cell = 1 /\ dialogs = 0
    /\ cells = [r \in Robots |-> ""]
    /\ process = "threadless" /\ udpSocket = FALSE
    /\ numIP = <<>> /\ queue = <<>> /\ hand = NoEvent
    /\ accepted = {} /\ settled = TRUE /\ raced = FALSE

-----------------------------------------------------------------------------
(* GUI thread: start-up. *)

GuiMoves(from, to) == gui = from /\ gui' = to

StartThread ==
    /\ GuiMoves("constructing", "threadStarted")
    /\ process' = "running"
    /\ UNCHANGED <<cell, cells, dialogs, accepted, settled, raced, udpSocket,
                   numIP, hand, queue>>

StartConnector ==
    /\ GuiMoves("threadStarted", "idle")
    /\ process = "running"
    /\ queue' = Append(queue, StartEvent)
    /\ UNCHANGED <<cell, cells, dialogs, accepted, settled, raced, connVars>>

-----------------------------------------------------------------------------
(* GUI thread: the dialog. *)

OpenDialog ==
    /\ Running
    /\ dialogs < MaxDialogs
    /\ GuiMoves("idle", "opening")
    /\ dialogs' = dialogs + 1
    /\ cell' = 1
    /\ settled' = \A r \in Robots : WritesOf(r) = {}
    /\ raced' = FALSE
    /\ UNCHANGED <<cells, accepted, connVars, queue>>

(* Whether the connector is at the entry the dialog wants, or one of the *)
(* two accesses rearranges the map.                                      *)
Overlaps(r) ==
    /\ hand # NoEvent
    /\ \/ Writes(hand) /\ hand.robot = r
       \/ {r, hand.robot} \ DOMAIN numIP # {}

(* Broken: one of the twelve lines copied without changing its number. *)
ShownAgain(r) == Lookup(IF r = 1 THEN 1 ELSE r - 1)

Shown(r) == Lookup(r)

NextCell(last) ==
    /\ cell' = IF cell = NumCells THEN 1 ELSE cell + 1
    /\ gui' = IF cell = NumCells THEN last ELSE gui

ReadCell ==
    /\ Running
    /\ gui = "opening"
    /\ \/ ~Overlaps(cell)
          /\ cells' = [cells EXCEPT ![cell] = Shown(cell)]
          /\ raced' = raced
       \/ Overlaps(cell)
          /\ \E text \in Texts : cells' = [cells EXCEPT ![cell] = text]
          /\ raced' = TRUE
    /\ numIP' = With(cell, Lookup(cell))
    /\ NextCell("printing")
    /\ UNCHANGED <<dialogs, accepted, settled, process, udpSocket, hand, queue>>

(* The window then writes the whole map to the log. *)
PrintTable ==
    /\ Running
    /\ GuiMoves("printing", "open")
    /\ UNCHANGED <<cell, cells, dialogs, accepted, settled, raced, connVars,
                   queue>>

(* Or an overlap damages the map or a string: the process is lost, now or  *)
(* at some later access.                                                   *)
ReadDamages ==
    /\ Running
    /\ \/ gui = "opening" /\ Overlaps(cell)
       \/ gui = "printing" /\ \E r \in Robots : Overlaps(r)
    /\ process' = "damaged"
    /\ UNCHANGED <<guiVars, udpSocket, numIP, hand, queue>>

Reject ==
    /\ Running
    /\ GuiMoves("open", "idle")
    /\ UNCHANGED <<cell, cells, dialogs, accepted, settled, raced, connVars,
                   queue>>

(* The user has typed what they like. *)
Accept ==
    /\ Running
    /\ GuiMoves("open", "accepting")
    /\ \E texts \in [Robots -> Texts] :
         /\ cells' = texts
         /\ accepted' = {texts}
    /\ UNCHANGED <<cell, dialogs, settled, raced, connVars, queue>>

PostCell ==
    /\ Running
    /\ gui = "accepting"
    /\ queue' = Append(queue, AddIpEvent(cell, cells[cell]))
    /\ NextCell("idle")
    /\ UNCHANGED <<cells, dialogs, accepted, settled, raced, connVars>>

-----------------------------------------------------------------------------
(* Algorithm thread: started before the connector.  A command carries, as *)
(* history, the address it is due to go to.                               *)

SendToConnector ==
    /\ process # "damaged"
    /\ Len(queue) <= MaxBacklog
    /\ \E r \in Robots : queue' = Append(queue, RunEvent(r, Due(r)))
    /\ UNCHANGED <<guiVars, connVars>>

-----------------------------------------------------------------------------
(* Connector thread. *)

TakeEvent ==
    /\ Running
    /\ hand = NoEvent
    /\ queue # <<>>
    /\ hand' = Head(queue)
    /\ queue' = Tail(queue)
    /\ UNCHANGED <<guiVars, process, udpSocket, numIP>>

Serves(slot) == Running /\ hand.slot = slot /\ hand' = NoEvent

Start ==
    /\ Serves("start")
    /\ udpSocket' = TRUE
    /\ numIP' = With(DefaultRobot, DefaultAddress)
    /\ UNCHANGED <<guiVars, process, queue>>

(* Broken variants of the next operator. *)
StoredIfAddress(r, text) ==
    With(r, IF text \in Addresses THEN text ELSE Lookup(r))
StoredFromZero(r, text) == IF r = 1 THEN numIP ELSE With(r - 1, Cleaned(text))

Stored(r, text) == With(r, Cleaned(text))

AddIp ==
    /\ Serves("addIp")
    /\ numIP' = Stored(hand.robot, hand.text)
    /\ UNCHANGED <<guiVars, process, udpSocket, queue>>

(* The datagram goes to Lookup(hand.robot); with no address it goes nowhere. *)
Run ==
    /\ Serves("run")
    /\ udpSocket
    /\ numIP' = With(hand.robot, Lookup(hand.robot))
    /\ UNCHANGED <<guiVars, process, udpSocket, queue>>

(* A command that came before start(): udpSocket is not a socket yet. *)
RunWithoutSocket ==
    /\ Serves("run")
    /\ ~udpSocket
    /\ process' = "damaged"
    /\ UNCHANGED <<guiVars, udpSocket, numIP, queue>>

-----------------------------------------------------------------------------

GuiStep ==
    \/ StartThread
    \/ StartConnector
    \/ OpenDialog
    \/ ReadCell
    \/ PrintTable
    \/ ReadDamages
    \/ Reject
    \/ Accept
    \/ PostCell

ConnectorStep ==
    \/ TakeEvent
    \/ Start
    \/ AddIp
    \/ Run
    \/ RunWithoutSocket

Next == GuiStep \/ SendToConnector \/ ConnectorStep

Spec == Init /\ [][Next]_vars

-----------------------------------------------------------------------------
(* Properties. *)

(* However events, commands, reopened and cancelled dialogs interleave,    *)
(* once nothing of a dialog is on its way the table is the last accepted   *)
(* dialog, cleaned: init() cannot put its default back over it, and a read *)
(* that overlaps a write cannot revert it.                                 *)
SettledTableIsAccepted ==
    (/\ Running /\ gui # "accepting"
     /\ \A r \in Robots : WritesOf(r) = {})
    => \A texts \in accepted, r \in Robots : Lookup(r) = Cleaned(texts[r])

(* A command is sent to the address its robot had at the place in the      *)
(* queue where the algorithm posted it: no half of a dialog accepted       *)
(* later, or earlier and still waiting, redirects it.                      *)
CommandsGoWhereDue ==
    hand.slot = "run" /\ udpSocket => Lookup(hand.robot) = hand.text

(* A dialog opened when no address was on its way shows the table as long  *)
(* as it is open, unless a command for a robot without an entry made the   *)
(* connector change the map while it was read.  So accepting it unedited   *)
(* changes nothing.  (Opened sooner, it shows and restores old addresses.) *)
OpenDialogShowsTable ==
    Running /\ gui = "open" /\ settled /\ ~raced
    => \A r \in Robots : cells[r] = Lookup(r)

=============================================================================
