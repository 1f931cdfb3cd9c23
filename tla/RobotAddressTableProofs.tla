----------------------- MODULE RobotAddressTableProofs -----------------------
(***************************************************************************)
(* Proofs about RobotAddressTable, for every number of cells, addresses,   *)
(* dialogs and waiting commands.  What waits for the connector is a FIFO   *)
(* list of writes and commands; the argument follows the address a robot   *)
(* is due to have at each place of that list.                              *)
(***************************************************************************)
EXTENDS RobotAddressTable, WellFoundedInduction, TLAPS

Posted == {StartEvent} \cup [slot : {"addIp", "run"}, robot : Robots, text : Texts]

Changes(event, r) == Writes(event) /\ event.robot = r

(* Just before place i of q robot r has address ip, if it had init before *)
(* all of q was served.                                                   *)
DueAt(q, i, r, init, ip) ==
    \/ /\ \A k \in DOMAIN q : k < i => ~Changes(q[k], r)
       /\ ip = init
    \/ \E k \in DOMAIN q :
          /\ k < i /\ Changes(q[k], r) /\ ip = Cleaned(q[k].text)
          /\ \A m \in DOMAIN q : k < m /\ m < i => ~Changes(q[m], r)

DueAtEnd(q, r, init, ip) == DueAt(q, Len(q) + 1, r, init, ip)

GuiStates == {"constructing", "threadStarted", "idle", "opening", "printing", "open",
              "accepting"}

Types ==
    /\ gui \in GuiStates /\ cell \in Robots /\ cells \in [Robots -> Texts]
    /\ queue \in Seq(Posted) /\ hand \in Posted \cup {NoEvent}
    /\ \A r \in Robots : Lookup(r) \in Texts

CellsInOrder ==
    /\ gui \notin {"opening", "accepting"} => cell = 1
    /\ gui \in {"constructing", "threadStarted"} => accepted = {}
    /\ gui = "accepting" => accepted = {cells}

AcceptedIsDue ==
    \A texts \in accepted, r \in Robots :
        gui # "accepting" \/ r < cell
          => DueAtEnd(Waiting, r, Lookup(r), Cleaned(texts[r]))

RunsAreDue ==
    \A i \in DOMAIN Waiting, r \in Robots :
        Waiting[i].slot = "run" /\ Waiting[i].robot = r
          => DueAt(Waiting, i, r, Lookup(r), Waiting[i].text)

DialogIsFresh ==
    gui \in {"opening", "printing", "open"} /\ settled =>
      /\ \A i \in DOMAIN Waiting : ~Writes(Waiting[i])
      /\ ~raced => \A r \in Robots :
                      gui # "opening" \/ r < cell => cells[r] = Lookup(r)

TInv == Types /\ CellsInOrder /\ AcceptedIsDue /\ RunsAreDue /\ DialogIsFresh

-----------------------------------------------------------------------------
(* The list under its three changes: an event is posted, taken, served. *)

All == Posted \cup {NoEvent}

(* w is what q is with e in front, or behind. *)
InFront(w, e, q) ==
    /\ w \in Seq(All) /\ q \in Seq(All) /\ Len(w) = Len(q) + 1
    /\ w[1] = e
    /\ \A i \in 1..Len(q) : w[i + 1] = q[i]

Behind(w, e, q) ==
    /\ w \in Seq(All) /\ q \in Seq(All) /\ Len(w) = Len(q) + 1
    /\ w[Len(q) + 1] = e
    /\ \A i \in 1..Len(q) : w[i] = q[i]

LEMMA PostedShape ==
    /\ \A e \in Posted : e # NoEvent /\ e.slot \in {"start", "addIp", "run"}
    /\ StartEvent \in Posted
    /\ \A r \in Robots, text \in Texts : AddIpEvent(r, text) \in Posted
    /\ \A r \in Robots, text \in Texts : RunEvent(r, text) \in Posted
    /\ \A e \in Posted : e.slot = "start" => e = StartEvent
    /\ \A e \in Posted : e.robot \in Robots /\ e.text \in Texts
    /\ \A e \in Posted : e.slot = "run" => ~Writes(e)
<1>1. DefaultRobot \in Robots /\ DefaultAddress \in Texts
  BY CellsAssumption, AddressAssumption DEF Robots, Texts
<1>2. ASSUME NEW e \in Posted
      PROVE  /\ e.slot \in {"start", "addIp", "run"} /\ e.robot \in Robots
             /\ e.text \in Texts /\ e # NoEvent
             /\ e.slot = "start" => e = StartEvent
             /\ e.slot = "run" => ~Writes(e)
  <2>0. NoEvent.slot = "none" BY DEF NoEvent
  <2>1. CASE e = StartEvent BY <1>1, <2>0, <2>1 DEF StartEvent, Writes
  <2>2. CASE e \in [slot : {"addIp", "run"}, robot : Robots, text : Texts]
    <3>1. e.slot \in {"addIp", "run"} /\ e.robot \in Robots /\ e.text \in Texts
      BY <2>2
    <3>. QED BY <2>0, <3>1 DEF Writes
  <2>. QED BY <2>1, <2>2 DEF Posted
<1>3. /\ StartEvent \in Posted
      /\ \A r \in Robots, text \in Texts : AddIpEvent(r, text) \in Posted
      /\ \A r \in Robots, text \in Texts : RunEvent(r, text) \in Posted
  BY DEF Posted, AddIpEvent, RunEvent
<1>. QED BY <1>2, <1>3

LEMMA WaitingIs ==
    ASSUME queue \in Seq(Posted), hand \in Posted \cup {NoEvent}
    PROVE  /\ Waiting \in Seq(All) /\ Waiting \in Seq(Posted)
           /\ hand = NoEvent => Waiting = queue
           /\ hand # NoEvent => InFront(Waiting, hand, queue)
<1>1. queue \in Seq(All) BY DEF All
<1>2. CASE hand = NoEvent BY <1>1, <1>2 DEF Waiting
<1>3. CASE hand # NoEvent
  <2>1. Waiting = <<hand>> \o queue /\ hand \in Posted /\ hand \in All
    BY <1>3 DEF Waiting, All
  <2>2. <<hand>> \in Seq(All) /\ <<hand>> \in Seq(Posted) BY <2>1
  <2>. QED BY <1>1, <1>3, <2>1, <2>2 DEF InFront
<1>. QED BY <1>2, <1>3

LEMMA PostBehind ==
    ASSUME queue \in Seq(Posted), hand \in Posted \cup {NoEvent}, NEW e \in Posted,
           queue' = Append(queue, e), hand' = hand
    PROVE  Behind(Waiting', e, Waiting)
<1>1. queue \in Seq(All) /\ e \in All BY DEF All
<1>2. CASE hand = NoEvent BY <1>1, <1>2 DEF Waiting, Behind
<1>3. CASE hand # NoEvent
  <2>1. /\ Waiting = <<hand>> \o queue /\ Waiting' = <<hand>> \o Append(queue, e)
        /\ hand \in All
    BY <1>3 DEF Waiting, All
  <2>2. <<hand>> \in Seq(All) /\ Len(<<hand>>) = 1 BY <2>1
  <2>. QED BY <1>1, <2>1, <2>2 DEF Behind
<1>. QED BY <1>2, <1>3

LEMMA TakeKeeps ==
    ASSUME queue \in Seq(Posted), hand = NoEvent, queue # <<>>,
           hand' = Head(queue), queue' = Tail(queue)
    PROVE  Waiting' = Waiting /\ hand' \in Posted /\ queue' \in Seq(Posted)
<1>1. hand' \in Posted /\ queue' \in Seq(Posted) OBVIOUS
<1>2. hand' # NoEvent BY <1>1, PostedShape
<1>3. Waiting = queue /\ Waiting' = <<Head(queue)>> \o Tail(queue)
  BY <1>2 DEF Waiting
<1>4. <<Head(queue)>> \o Tail(queue) = queue OBVIOUS
<1>. QED BY <1>1, <1>3, <1>4

LEMMA ServeFront ==
    ASSUME queue \in Seq(Posted), hand \in Posted, hand' = NoEvent, queue' = queue
    PROVE  InFront(Waiting, hand, Waiting')
<1>1. hand # NoEvent BY PostedShape
<1>2. InFront(Waiting, hand, queue) BY <1>1, WaitingIs
<1>3. Waiting' = queue BY DEF Waiting
<1>. QED BY <1>2, <1>3

-----------------------------------------------------------------------------
(* The due address under the same three. *)

LEMMA DueBehind ==
    ASSUME NEW w, NEW q, NEW e, Behind(w, e, q), NEW r, NEW init, NEW ip,
           NEW i \in 1..(Len(q) + 1), DueAt(q, i, r, init, ip)
    PROVE  DueAt(w, i, r, init, ip)
<1>1. /\ DOMAIN q = 1..Len(q) /\ DOMAIN w = 1..(Len(q) + 1) /\ Len(q) \in Nat
      /\ \A k \in DOMAIN q : w[k] = q[k]
  BY DEF Behind
<1>2. \A k \in DOMAIN w : k < i => k \in DOMAIN q
  BY <1>1
<1>. QED BY <1>1, <1>2 DEF DueAt

LEMMA EndBehind ==
    ASSUME NEW w, NEW q, NEW e, Behind(w, e, q), NEW r, NEW init, NEW ip
    PROVE  /\ ~Changes(e, r) /\ DueAtEnd(q, r, init, ip) => DueAtEnd(w, r, init, ip)
           /\ Changes(e, r) => DueAtEnd(w, r, init, Cleaned(e.text))
<1>1. /\ DOMAIN q = 1..Len(q) /\ DOMAIN w = 1..(Len(q) + 1) /\ Len(q) \in Nat
      /\ \A k \in DOMAIN q : w[k] = q[k]
      /\ w[Len(q) + 1] = e /\ Len(w) = Len(q) + 1
  BY DEF Behind
<1>2. ASSUME ~Changes(e, r), DueAtEnd(q, r, init, ip)
      PROVE  DueAtEnd(w, r, init, ip)
  BY <1>1, <1>2 DEF DueAtEnd, DueAt
<1>3. ASSUME Changes(e, r) PROVE DueAtEnd(w, r, init, Cleaned(e.text))
  <2>1. /\ Len(q) + 1 \in DOMAIN w /\ Len(q) + 1 < Len(w) + 1
        /\ \A m \in DOMAIN w : ~(Len(q) + 1 < m /\ m < Len(w) + 1)
    BY <1>1
  <2>. QED BY <1>1, <1>3, <2>1 DEF DueAtEnd, DueAt
<1>. QED BY <1>2, <1>3

(* Serving the first event gives robot r the address it stands for. *)
LEMMA DueServed ==
    ASSUME NEW w, NEW q, NEW e, InFront(w, e, q), NEW r, NEW init, NEW new, NEW ip,
           ~Changes(e, r) => new = init,
           Changes(e, r) => new = Cleaned(e.text),
           NEW i \in 1..(Len(q) + 1), DueAt(w, i + 1, r, init, ip)
    PROVE  DueAt(q, i, r, new, ip)
<1>1. /\ DOMAIN q = 1..Len(q) /\ DOMAIN w = 1..(Len(q) + 1) /\ Len(q) \in Nat
      /\ \A k \in DOMAIN q : k + 1 \in DOMAIN w /\ w[k + 1] = q[k] /\ k \in Nat
      /\ w[1] = e /\ 1 \in DOMAIN w /\ 1 < i + 1
      /\ \A k \in DOMAIN w : k = 1 \/ (k - 1 \in DOMAIN q /\ w[k] = q[k - 1])
      /\ \A k \in DOMAIN w : k \in Nat
  <2>1. /\ w \in Seq(All) /\ q \in Seq(All) /\ Len(w) = Len(q) + 1 /\ w[1] = e
        /\ \A k \in 1..Len(q) : w[k + 1] = q[k]
    BY DEF InFront
  <2>2. DOMAIN q = 1..Len(q) /\ DOMAIN w = 1..(Len(q) + 1) /\ Len(q) \in Nat
    BY <2>1
  <2>3. \A k \in DOMAIN q : k + 1 \in DOMAIN w /\ w[k + 1] = q[k] /\ k \in Nat
    BY <2>1, <2>2
  <2>4. 1 \in DOMAIN w /\ 1 < i + 1 BY <2>2
  <2>5. ASSUME NEW k \in DOMAIN w PROVE k = 1 \/ (k - 1 \in DOMAIN q /\ w[k] = q[k - 1])
    <3>1. CASE k = 1 BY <3>1
    <3>2. CASE k # 1
      <4>1. k - 1 \in 1..Len(q) /\ (k - 1) + 1 = k BY <3>2, <2>2
      <4>2. w[(k - 1) + 1] = q[k - 1] BY <4>1, <2>1
      <4>. QED BY <4>1, <4>2, <2>2
    <3>. QED BY <3>1, <3>2
  <2>6. \A k \in DOMAIN w : k \in Nat BY <2>2
  <2>. QED BY <2>1, <2>2, <2>3, <2>4, <2>5, <2>6
<1>2. CASE (\A k \in DOMAIN w : k < i + 1 => ~Changes(w[k], r)) /\ ip = init
  <2>1. ~Changes(e, r) BY <1>1, <1>2
  <2>2. ASSUME NEW k \in DOMAIN q, k < i PROVE ~Changes(q[k], r)
    BY <1>1, <1>2, <2>2
  <2>. QED BY <1>2, <2>1, <2>2 DEF DueAt
<1>3. ASSUME NEW k \in DOMAIN w, k < i + 1, Changes(w[k], r), ip = Cleaned(w[k].text),
             \A m \in DOMAIN w : k < m /\ m < i + 1 => ~Changes(w[m], r)
      PROVE  DueAt(q, i, r, new, ip)
  <2>1. ASSUME NEW m \in DOMAIN q, k < m + 1, m < i PROVE ~Changes(q[m], r)
    BY <1>1, <1>3, <2>1
  <2>2. CASE k = 1
    <3>1. ip = new BY <1>1, <1>3, <2>2
    <3>2. \A m \in DOMAIN q : m < i => ~Changes(q[m], r) BY <1>1, <2>1, <2>2
    <3>. QED BY <3>1, <3>2 DEF DueAt
  <2>3. CASE k # 1
    <3>1. k - 1 \in DOMAIN q /\ w[k] = q[k - 1] /\ k - 1 < i BY <1>1, <1>3, <2>3
    <3>2. \A m \in DOMAIN q : k - 1 < m /\ m < i => ~Changes(q[m], r)
      BY <1>1, <2>1
    <3>. QED BY <1>3, <3>1, <3>2 DEF DueAt
  <2>. QED BY <2>2, <2>3
<1>. QED BY <1>2, <1>3 DEF DueAt

LEMMA EndServed ==
    ASSUME NEW w, NEW q, NEW e, InFront(w, e, q), NEW r, NEW init, NEW new, NEW ip,
           ~Changes(e, r) => new = init,
           Changes(e, r) => new = Cleaned(e.text),
           DueAtEnd(w, r, init, ip)
    PROVE  DueAtEnd(q, r, new, ip)
<1>1. Len(q) + 1 \in 1..(Len(q) + 1) /\ Len(w) + 1 = Len(q) + 1 + 1
  BY DEF InFront
<1>. QED BY <1>1, DueServed DEF DueAtEnd

(* What Due picks out of the list is the due address at its end. *)
LEMMA LastOf ==
    ASSUME NEW n \in Nat, NEW S \in SUBSET (1..n), S # {}
    PROVE  \E k \in S : \A m \in S : m <= k
<1> DEFINE Rest == {n - k : k \in S}
<1>1. Rest \in SUBSET Nat /\ Rest # {}
  <2>1. \A k \in S : n - k \in Nat OBVIOUS
  <2>2. PICK k \in S : TRUE OBVIOUS
  <2>. QED BY <2>1, <2>2
<1>2. PICK d \in Rest : \A e \in Rest : ~(<<e, d>> \in OpToRel(<, Nat))
  <2>. HIDE DEF Rest
  <2>. QED BY <1>1, NatLessThanWellFounded, WFMin
<1>3. PICK k \in S : d = n - k OBVIOUS
<1>4. \A m \in S : ~(n - m < d)
  <2>1. \A m \in S : n - m \in Rest OBVIOUS
  <2>. HIDE DEF Rest
  <2>. QED BY <1>1, <1>2, <2>1 DEF OpToRel
<1>. QED BY <1>3, <1>4

LEMMA DueIsDue ==
    ASSUME Waiting \in Seq(Posted), NEW r
    PROVE  DueAtEnd(Waiting, r, Lookup(r), Due(r))
<1> DEFINE n == Len(Waiting)
           S == WritesOf(r)
<1>1. /\ n \in Nat /\ DOMAIN Waiting = 1..n
      /\ \A k \in 1..n : k \in S <=> Changes(Waiting[k], r)
      /\ S \in SUBSET (1..n)
  BY DEF WritesOf, Changes
<1>2. CASE S = {}
  BY <1>1, <1>2 DEF Due, DueAtEnd, DueAt
<1>3. CASE S # {}
  <2> DEFINE last == CHOOSE i \in S : \A j \in S : j <= i
  <2>1. last \in S /\ \A j \in S : j <= last BY <1>1, <1>3, LastOf
  <2>2. Due(r) = Cleaned(Waiting[last].text) BY <1>3 DEF Due
  <2> HIDE DEF last, S
  <2>3. last \in 1..n /\ last < n + 1 /\ Changes(Waiting[last], r) BY <1>1, <2>1
  <2>4. \A m \in 1..n : last < m /\ m < n + 1 => ~Changes(Waiting[m], r)
    BY <1>1, <2>1, <2>3
  <2>. QED BY <1>1, <2>2, <2>3, <2>4 DEF DueAtEnd, DueAt
<1>. QED BY <1>2, <1>3

LEMMA CleanedIsText == \A text \in Texts : Cleaned(text) \in Texts
BY DEF Cleaned, Texts

LEMMA DueIsText ==
    ASSUME Types, Waiting \in Seq(Posted), NEW r \in Robots
    PROVE  Due(r) \in Texts
<1>1. DueAtEnd(Waiting, r, Lookup(r), Due(r)) BY DueIsDue
<1>2. \A k \in DOMAIN Waiting : Waiting[k].text \in Texts BY PostedShape
<1>. QED BY <1>1, <1>2, CleanedIsText DEF DueAtEnd, DueAt, Types

-----------------------------------------------------------------------------
(* Every step is one of four kinds, by what it does to the list. *)

LookupKept == \A r \in Robots : Lookup(r)' = Lookup(r)

Quiet == Waiting' = Waiting /\ LookupKept

Posting(e) == e \in Posted /\ Behind(Waiting', e, Waiting) /\ LookupKept

Serving ==
    /\ hand \in Posted
    /\ InFront(Waiting, hand, Waiting')
    /\ \A r \in Robots :
          /\ ~Changes(hand, r) => Lookup(r)' = Lookup(r)
          /\ Changes(hand, r) => Lookup(r)' = Cleaned(hand.text)

LEMMA LookupWith ==
    ASSUME NEW r \in Robots, NEW ip, numIP' = With(r, ip), NEW s \in Robots
    PROVE  Lookup(s)' = IF s = r THEN ip ELSE Lookup(s)
BY DEF Lookup, With

LEMMA ServedIsPosted ==
    ASSUME Types, NEW slot \in {"start", "addIp", "run"}, Serves(slot)
    PROVE  hand \in Posted /\ hand.slot = slot /\ hand' = NoEvent /\ hand.robot \in Robots
<1>1. NoEvent.slot = "none" BY DEF NoEvent
<1>2. hand \in Posted BY <1>1 DEF Serves, Types
<1>. QED BY <1>2, PostedShape DEF Serves

LEMMA DamageServes ==
    ASSUME Types, Serves("run"), queue' = queue, LookupKept
    PROVE  Serving
<1>1. hand \in Posted /\ hand.slot = "run" /\ hand' = NoEvent
  BY ServedIsPosted
<1>2. \A r : ~Changes(hand, r) BY <1>1 DEF Changes, Writes
<1>3. InFront(Waiting, hand, Waiting') BY <1>1, ServeFront DEF Types
<1>. QED BY <1>1, <1>2, <1>3 DEF Serving, LookupKept

LEMMA ServeStep ==
    ASSUME Types, Start \/ AddIp \/ Run \/ RunWithoutSocket
    PROVE  Serving /\ UNCHANGED <<guiVars, queue>> /\ hand' = NoEvent
<1>1. UNCHANGED <<guiVars, queue>> /\ hand' = NoEvent
  BY DEF Start, AddIp, Run, RunWithoutSocket, Serves
<1>2. CASE Start \/ AddIp
  <2>1. hand \in Posted /\ hand.robot \in Robots /\ Writes(hand)
    BY <1>2, ServedIsPosted DEF Start, AddIp, Writes
  <2>2. numIP' = With(hand.robot, Cleaned(hand.text))
    <3>1. CASE Start
      <4>1. hand = StartEvent BY <2>1, <3>1, PostedShape DEF Start, Serves
      <4>2. Cleaned(DefaultAddress) = DefaultAddress BY AddressAssumption DEF Cleaned
      <4>. QED BY <3>1, <4>1, <4>2 DEF Start, StartEvent
    <3>2. CASE AddIp BY <3>2 DEF AddIp, Stored
    <3>. QED BY <1>2, <3>1, <3>2
  <2>3. \A r \in Robots : Lookup(r)' = IF r = hand.robot THEN Cleaned(hand.text) ELSE Lookup(r)
    BY <2>1, <2>2, LookupWith
  <2>4. InFront(Waiting, hand, Waiting') BY <1>1, <2>1, ServeFront DEF Types
  <2>. QED BY <1>1, <2>1, <2>3, <2>4 DEF Serving, Changes
<1>3. CASE Run
  <2>1. hand \in Posted /\ hand.robot \in Robots
    BY <1>3, ServedIsPosted DEF Run
  <2>2. LookupKept BY <1>3, <2>1, LookupWith DEF Run, LookupKept
  <2>. QED BY <1>1, <1>3, <2>2, DamageServes DEF Run
<1>4. CASE RunWithoutSocket
  <2>1. LookupKept BY <1>4 DEF RunWithoutSocket, LookupKept, Lookup
  <2>. QED BY <1>1, <1>4, <2>1, DamageServes DEF RunWithoutSocket
<1>. QED BY <1>2, <1>3, <1>4

LEMMA PostStep ==
    ASSUME Types, StartConnector \/ PostCell \/ SendToConnector
    PROVE  \E e : /\ Posting(e) /\ queue' = Append(queue, e)
                  /\ UNCHANGED connVars
                  /\ \/ StartConnector /\ e = StartEvent
                     \/ PostCell /\ e = AddIpEvent(cell, cells[cell])
                     \/ SendToConnector /\ \E r \in Robots : e = RunEvent(r, Due(r))
<1>1. UNCHANGED connVars
  BY DEF StartConnector, PostCell, SendToConnector
<1>2. hand' = hand /\ LookupKept
  BY <1>1 DEF connVars, LookupKept, Lookup
<1>3. \A e \in Posted : queue' = Append(queue, e) => Posting(e)
  BY <1>2, PostBehind DEF Posting, Types
<1>4. CASE StartConnector
  <2>1. queue' = Append(queue, StartEvent)
    BY <1>4 DEF StartConnector
  <2>. QED BY <1>1, <1>3, <1>4, <2>1, PostedShape
<1>5. CASE PostCell
  <2>1. queue' = Append(queue, AddIpEvent(cell, cells[cell]))
    BY <1>5 DEF PostCell
  <2>2. AddIpEvent(cell, cells[cell]) \in Posted
    BY PostedShape DEF Types
  <2>. QED BY <1>1, <1>3, <1>5, <2>1, <2>2
<1>6. CASE SendToConnector
  <2>1. PICK r \in Robots : queue' = Append(queue, RunEvent(r, Due(r)))
    BY <1>6 DEF SendToConnector
  <2>2. Waiting \in Seq(Posted) BY WaitingIs DEF Types
  <2>3. RunEvent(r, Due(r)) \in Posted BY <2>2, PostedShape, DueIsText
  <2>. QED BY <1>1, <1>3, <1>6, <2>1, <2>3
<1>. QED BY <1>4, <1>5, <1>6

Quietly ==
    \/ StartThread \/ OpenDialog \/ ReadCell \/ ReadDamages \/ PrintTable \/ Reject \/ Accept
    \/ TakeEvent \/ UNCHANGED vars

LEMMA QuietStep == Types /\ Quietly => Quiet
<1>. SUFFICES ASSUME Types, Quietly PROVE Quiet
  OBVIOUS
<1>1. CASE ReadCell
  <2>1. LookupKept BY <1>1, LookupWith DEF ReadCell, LookupKept, Types
  <2>2. Waiting' = Waiting BY <1>1 DEF ReadCell, Waiting
  <2>. QED BY <2>1, <2>2 DEF Quiet
<1>2. CASE TakeEvent
  <2>1. LookupKept BY <1>2 DEF TakeEvent, LookupKept, Lookup
  <2>2. Waiting' = Waiting BY <1>2, TakeKeeps DEF TakeEvent, Types
  <2>. QED BY <2>1, <2>2 DEF Quiet
<1>3. CASE ~ReadCell /\ ~TakeEvent
  <2>1. UNCHANGED <<numIP, hand, queue>>
    BY <1>3 DEF Quietly, StartThread, OpenDialog, ReadDamages, PrintTable, Reject, Accept,
                vars, connVars
  <2>. QED BY <2>1 DEF Quiet, LookupKept, Lookup, Waiting
<1>. QED BY <1>1, <1>2, <1>3

LEMMA StepKinds ==
    [Next]_vars => \/ Quietly
                   \/ StartConnector \/ PostCell \/ SendToConnector
                   \/ Start \/ AddIp \/ Run \/ RunWithoutSocket
BY DEF Next, GuiStep, ConnectorStep, Quietly

LEMMA GuiTypesStep ==
    ASSUME Types, [Next]_vars
    PROVE  gui' \in GuiStates /\ cell' \in Robots /\ cells' \in [Robots -> Texts]
<1>. USE DEF Types, GuiStates, GuiMoves, guiVars
<1>1. CASE StartThread \/ StartConnector \/ ReadDamages \/ PrintTable \/ Reject
  BY <1>1 DEF StartThread, StartConnector, ReadDamages, PrintTable, Reject
<1>2. CASE OpenDialog
  BY <1>2, CellsAssumption DEF OpenDialog, Robots
<1>n. ASSUME NEW last \in GuiStates, NextCell(last) PROVE gui' \in GuiStates /\ cell' \in Robots
  BY <1>n, CellsAssumption DEF NextCell, Robots
<1>3. CASE ReadCell
  <2>1. Shown(cell) \in Texts BY DEF Shown
  <2>2. cells' \in [Robots -> Texts] BY <1>3, <2>1 DEF ReadCell
  <2>. QED BY <1>3, <2>2, <1>n DEF ReadCell
<1>4. CASE Accept BY <1>4 DEF Accept
<1>5. CASE PostCell BY <1>5, <1>n DEF PostCell
<1>6. CASE SendToConnector \/ ConnectorStep \/ UNCHANGED vars
  BY <1>6 DEF SendToConnector, ConnectorStep, TakeEvent, Start, AddIp, Run,
              RunWithoutSocket, vars
<1>. QED BY <1>1, <1>2, <1>3, <1>4, <1>5, <1>6 DEF Next, GuiStep

LEMMA TypesStep == Types /\ [Next]_vars => Types'
<1>. SUFFICES ASSUME Types, [Next]_vars
              PROVE  /\ queue' \in Seq(Posted) /\ hand' \in Posted \cup {NoEvent}
                     /\ \A r \in Robots : Lookup(r)' \in Texts
  BY GuiTypesStep DEF Types
<1>1. CASE Quietly
  <2>1. LookupKept BY <1>1, QuietStep DEF Quiet
  <2>2. CASE TakeEvent BY <2>1, <2>2 DEF TakeEvent, Types, LookupKept
  <2>3. CASE ~TakeEvent
    <3>1. UNCHANGED <<hand, queue>>
      BY <1>1, <2>3 DEF Quietly, StartThread, OpenDialog, ReadCell, ReadDamages, PrintTable,
                        Reject, Accept, vars, connVars
    <3>. QED BY <2>1, <3>1 DEF Types, LookupKept
  <2>. QED BY <2>2, <2>3
<1>2. CASE StartConnector \/ PostCell \/ SendToConnector
  BY <1>2, PostStep DEF Posting, LookupKept, Types, connVars
<1>3. CASE Start \/ AddIp \/ Run \/ RunWithoutSocket
  <2>1. Serving /\ queue' = queue /\ hand' = NoEvent BY <1>3, ServeStep
  <2>2. Cleaned(hand.text) \in Texts BY <2>1, PostedShape, CleanedIsText DEF Serving
  <2>. QED BY <2>1, <2>2 DEF Serving, Types
<1>. QED BY <1>1, <1>2, <1>3, StepKinds

LEMMA CellsInOrderStep == Types /\ CellsInOrder /\ [Next]_vars => CellsInOrder'
<1>. SUFFICES ASSUME Types, CellsInOrder, [Next]_vars PROVE CellsInOrder'
  OBVIOUS
<1>. USE DEF CellsInOrder, GuiMoves, guiVars
<1>1. CASE StartThread \/ StartConnector \/ OpenDialog \/ ReadDamages \/ PrintTable \/ Reject
  BY <1>1 DEF StartThread, StartConnector, OpenDialog, ReadDamages, PrintTable, Reject
<1>2. CASE ReadCell BY <1>2 DEF ReadCell, NextCell
<1>3. CASE Accept BY <1>3 DEF Accept
<1>4. CASE PostCell BY <1>4 DEF PostCell, NextCell
<1>5. CASE SendToConnector \/ ConnectorStep \/ UNCHANGED vars
  BY <1>5 DEF SendToConnector, ConnectorStep, TakeEvent, Start, AddIp, Run,
              RunWithoutSocket, vars
<1>. QED BY <1>1, <1>2, <1>3, <1>4, <1>5 DEF Next, GuiStep

LEMMA AcceptedIsDueStep ==
    Types /\ CellsInOrder /\ AcceptedIsDue /\ [Next]_vars => AcceptedIsDue'
<1>. SUFFICES ASSUME Types, CellsInOrder, AcceptedIsDue, [Next]_vars,
                     NEW texts \in accepted', NEW r \in Robots,
                     gui' # "accepting" \/ r < cell'
              PROVE  DueAtEnd(Waiting', r, Lookup(r)', Cleaned(texts[r]))
  BY DEF AcceptedIsDue
<1>1. cell \in Nat /\ r \in Nat /\ r >= 1 /\ r <= NumCells
  BY CellsAssumption DEF Types, Robots
<1>2. ASSUME texts \in accepted, gui # "accepting" \/ r < cell
      PROVE  DueAtEnd(Waiting, r, Lookup(r), Cleaned(texts[r]))
  BY <1>2 DEF AcceptedIsDue
<1>3. CASE Accept
  BY <1>1, <1>3 DEF Accept, GuiMoves, CellsInOrder
<1>4. CASE Quietly /\ ~Accept
  <2>1. accepted' = accepted /\ (gui # "accepting" \/ r < cell)
    BY <1>4 DEF Quietly, StartThread, OpenDialog, ReadCell, ReadDamages, PrintTable, Reject,
                TakeEvent, vars, guiVars, GuiMoves
  <2>2. Waiting' = Waiting /\ Lookup(r)' = Lookup(r)
    BY <1>4, QuietStep DEF Quiet, LookupKept
  <2>. QED BY <1>2, <2>1, <2>2
<1>5. CASE Start \/ AddIp \/ Run \/ RunWithoutSocket
  <2>1. Serving /\ UNCHANGED guiVars BY <1>5, ServeStep
  <2>2. DueAtEnd(Waiting, r, Lookup(r), Cleaned(texts[r]))
    BY <1>2, <2>1 DEF guiVars
  <2>. QED BY <2>1, <2>2, EndServed DEF Serving
<1>6. CASE StartConnector \/ PostCell \/ SendToConnector
  <2>1. PICK e : /\ Posting(e)
                 /\ \/ StartConnector /\ e = StartEvent
                    \/ PostCell /\ e = AddIpEvent(cell, cells[cell])
                    \/ SendToConnector /\ \E s \in Robots : e = RunEvent(s, Due(s))
    BY <1>6, PostStep
  <2>2. Behind(Waiting', e, Waiting) /\ Lookup(r)' = Lookup(r)
    BY <2>1 DEF Posting, LookupKept
  <2>3. ASSUME ~Changes(e, r), accepted' = accepted, gui # "accepting" \/ r < cell
        PROVE  DueAtEnd(Waiting', r, Lookup(r)', Cleaned(texts[r]))
    BY <1>2, <2>2, <2>3, EndBehind
  <2>4. CASE StartConnector
    BY <2>4 DEF StartConnector, GuiMoves, CellsInOrder
  <2>5. CASE SendToConnector /\ \E s \in Robots : e = RunEvent(s, Due(s))
    <3>1. ~Changes(e, r) BY <2>5 DEF RunEvent, Changes, Writes
    <3>. QED BY <2>3, <2>5, <3>1 DEF SendToConnector, guiVars
  <2>6. CASE PostCell /\ e = AddIpEvent(cell, cells[cell])
    <3>1. /\ gui = "accepting" /\ accepted' = accepted /\ NextCell("idle")
      BY <2>6 DEF PostCell
    <3>2. texts = cells /\ texts \in accepted BY <3>1 DEF CellsInOrder
    <3>3. Changes(e, r) <=> r = cell
      BY <2>6 DEF AddIpEvent, Changes, Writes
    <3>4. CASE r = cell
      <4>1. e.text = texts[r] BY <2>6, <3>2, <3>4 DEF AddIpEvent
      <4>. QED BY <2>2, <3>3, <3>4, <4>1, EndBehind
    <3>5. CASE r # cell
      <4>1. r < cell
        BY <1>1, <3>1, <3>5, CellsAssumption DEF NextCell
      <4>. QED BY <2>3, <3>1, <3>3, <3>5, <4>1
    <3>. QED BY <3>4, <3>5
  <2>. QED BY <2>1, <2>4, <2>5, <2>6
<1>. QED BY <1>3, <1>4, <1>5, <1>6, StepKinds

LEMMA RunsAreDueStep == Types /\ RunsAreDue /\ [Next]_vars => RunsAreDue'
<1>. SUFFICES ASSUME Types, RunsAreDue, [Next]_vars,
                     NEW i \in DOMAIN Waiting', NEW r \in Robots,
                     Waiting'[i].slot = "run", Waiting'[i].robot = r
              PROVE  DueAt(Waiting', i, r, Lookup(r)', Waiting'[i].text)
  BY DEF RunsAreDue
<1>1. Waiting \in Seq(Posted) BY WaitingIs DEF Types
<1>2. ASSUME NEW k \in DOMAIN Waiting, Waiting[k] = Waiting'[i]
      PROVE  DueAt(Waiting, k, r, Lookup(r), Waiting'[i].text)
  BY <1>2 DEF RunsAreDue
<1>3. CASE Quietly
  BY <1>2, <1>3, QuietStep DEF Quiet, LookupKept
<1>4. CASE Start \/ AddIp \/ Run \/ RunWithoutSocket
  <2>1. Serving BY <1>4, ServeStep
  <2>2. /\ i \in 1..(Len(Waiting') + 1) /\ i + 1 \in DOMAIN Waiting
        /\ Waiting[i + 1] = Waiting'[i]
    BY <2>1 DEF Serving, InFront
  <2>3. DueAt(Waiting, i + 1, r, Lookup(r), Waiting'[i].text) BY <1>2, <2>2
  <2>. QED BY <2>1, <2>2, <2>3, DueServed DEF Serving
<1>5. CASE StartConnector \/ PostCell \/ SendToConnector
  <2>1. PICK e : /\ Posting(e)
                 /\ \/ e = StartEvent
                    \/ e = AddIpEvent(cell, cells[cell])
                    \/ \E s \in Robots : e = RunEvent(s, Due(s))
    BY <1>5, PostStep
  <2>2. Behind(Waiting', e, Waiting) /\ Lookup(r)' = Lookup(r)
    BY <2>1 DEF Posting, LookupKept
  <2>3. CASE i \in 1..Len(Waiting)
    <3>1. i \in DOMAIN Waiting /\ Waiting[i] = Waiting'[i] /\ i \in 1..(Len(Waiting) + 1)
      BY <2>2, <2>3 DEF Behind
    <3>2. DueAt(Waiting, i, r, Lookup(r), Waiting'[i].text) BY <1>2, <3>1
    <3>. QED BY <2>2, <3>1, <3>2, DueBehind
  <2>4. CASE i = Len(Waiting) + 1
    <3>1. Waiting'[i] = e BY <2>2, <2>4 DEF Behind
    <3>2. PICK s \in Robots : e = RunEvent(s, Due(s))
      BY <2>1, <3>1 DEF StartEvent, AddIpEvent
    <3>3. Waiting'[i].text = Due(r) BY <3>1, <3>2 DEF RunEvent
    <3>4. DueAt(Waiting, i, r, Lookup(r), Due(r))
      BY <1>1, <2>4, DueIsDue DEF DueAtEnd
    <3>5. i \in 1..(Len(Waiting) + 1) BY <2>4, <1>1
    <3>. QED BY <2>2, <3>3, <3>4, <3>5, DueBehind
  <2>. QED BY <2>2, <2>3, <2>4 DEF Behind
<1>. QED BY <1>3, <1>4, <1>5, StepKinds

LEMMA DialogIsFreshStep ==
    Types /\ CellsInOrder /\ DialogIsFresh /\ [Next]_vars => DialogIsFresh'
<1>. SUFFICES ASSUME Types, CellsInOrder, DialogIsFresh, [Next]_vars,
                     gui' \in {"opening", "printing", "open"}, settled'
              PROVE  /\ \A i \in DOMAIN Waiting' : ~Writes(Waiting'[i])
                     /\ ~raced' => \A r \in Robots :
                           gui' # "opening" \/ r < cell' => cells'[r] = Lookup(r)'
  BY DEF DialogIsFresh
<1>. USE DEF GuiMoves, guiVars
<1>1. Waiting \in Seq(Posted) BY WaitingIs DEF Types
<1>n. cell \in Nat /\ \A r \in Robots : r \in Nat /\ r >= 1 /\ r <= NumCells
  BY CellsAssumption DEF Types, Robots
<1>2. CASE OpenDialog
  <2>1. Waiting' = Waiting BY <1>2, QuietStep DEF Quietly, Quiet
  <2>2. \A r \in Robots : WritesOf(r) = {} BY <1>2 DEF OpenDialog
  <2>3. \A i \in DOMAIN Waiting : ~Writes(Waiting[i])
    <3>. SUFFICES ASSUME NEW i \in DOMAIN Waiting PROVE ~Writes(Waiting[i])
      OBVIOUS
    <3>1. Waiting[i].robot \in Robots BY <1>1, PostedShape
    <3>. QED BY <2>2, <3>1 DEF WritesOf
  <2>4. cell' = 1 /\ gui' = "opening" BY <1>2 DEF OpenDialog
  <2>. QED BY <1>n, <2>1, <2>3, <2>4
<1>3. CASE ReadCell
  <2>1. Waiting' = Waiting /\ LookupKept BY <1>3, QuietStep DEF Quietly, Quiet
  <2>2. gui = "opening" /\ settled /\ NextCell("printing") BY <1>3 DEF ReadCell
  <2>3. \A i \in DOMAIN Waiting : ~Writes(Waiting[i])
    BY <2>2 DEF DialogIsFresh
  <2>4. ASSUME ~raced', NEW r \in Robots, gui' # "opening" \/ r < cell'
        PROVE  cells'[r] = Lookup(r)'
    <3>1. ~raced /\ cells' = [cells EXCEPT ![cell] = Lookup(cell)]
      BY <1>3, <2>4 DEF ReadCell, Shown
    <3>2. CASE r = cell BY <2>1, <3>1, <3>2 DEF Types, LookupKept
    <3>3. CASE r # cell
      <4>1. r < cell BY <1>n, <2>2, <2>4, <3>3, CellsAssumption DEF NextCell
      <4>2. cells[r] = Lookup(r) BY <2>2, <3>1, <4>1 DEF DialogIsFresh
      <4>. QED BY <2>1, <3>1, <3>3, <4>2 DEF Types, LookupKept
    <3>. QED BY <3>2, <3>3
  <2>. QED BY <2>1, <2>3, <2>4
<1>4. CASE PrintTable
  <2>1. Waiting' = Waiting /\ LookupKept BY <1>4, QuietStep DEF Quietly, Quiet
  <2>2. gui = "printing" /\ UNCHANGED <<cell, cells, settled, raced>>
    BY <1>4 DEF PrintTable
  <2>. QED BY <2>1, <2>2 DEF DialogIsFresh, LookupKept
<1>8. CASE Quietly /\ ~OpenDialog /\ ~ReadCell /\ ~PrintTable
  <2>1. Waiting' = Waiting /\ LookupKept BY <1>8, QuietStep DEF Quiet
  <2>2. UNCHANGED <<gui, cell, cells, settled, raced>>
    BY <1>8 DEF Quietly, StartThread, ReadDamages, Reject, Accept, TakeEvent, vars
  <2>. QED BY <2>1, <2>2 DEF DialogIsFresh, LookupKept
<1>5. CASE Start \/ AddIp \/ Run \/ RunWithoutSocket
  <2>1. Serving /\ UNCHANGED guiVars BY <1>5, ServeStep
  <2>2. /\ \A i \in DOMAIN Waiting : ~Writes(Waiting[i])
        /\ ~raced => \A r \in Robots : gui # "opening" \/ r < cell => cells[r] = Lookup(r)
    BY <2>1 DEF DialogIsFresh
  <2>3. 1 \in DOMAIN Waiting /\ Waiting[1] = hand BY <2>1 DEF Serving, InFront
  <2>4. \A r : ~Changes(hand, r) BY <2>2, <2>3 DEF Changes
  <2>5. \A i \in DOMAIN Waiting' : i + 1 \in DOMAIN Waiting /\ Waiting'[i] = Waiting[i + 1]
    BY <2>1 DEF Serving, InFront
  <2>6. \A i \in DOMAIN Waiting' : ~Writes(Waiting'[i]) BY <2>2, <2>5
  <2>7. LookupKept BY <2>1, <2>4 DEF Serving, LookupKept
  <2>. QED BY <2>1, <2>2, <2>6, <2>7 DEF LookupKept
<1>6. CASE SendToConnector /\ ~StartConnector /\ ~PostCell
  <2>1. PICK e : Posting(e) /\ e.slot = "run"
    BY <1>6, PostStep DEF RunEvent
  <2>2. UNCHANGED guiVars BY <1>6 DEF SendToConnector
  <2>3. /\ \A i \in DOMAIN Waiting : ~Writes(Waiting[i])
        /\ ~raced => \A r \in Robots : gui # "opening" \/ r < cell => cells[r] = Lookup(r)
    BY <2>2 DEF DialogIsFresh
  <2>4. ~Writes(e) BY <2>1 DEF Writes
  <2>5. \A i \in DOMAIN Waiting' : ~Writes(Waiting'[i])
    BY <2>1, <2>3, <2>4 DEF Posting, Behind
  <2>6. LookupKept BY <2>1 DEF Posting
  <2>. QED BY <2>2, <2>3, <2>5, <2>6 DEF LookupKept
<1>7. CASE StartConnector \/ PostCell
  <2>1. gui \in {"threadStarted", "accepting"} BY <1>7 DEF StartConnector, PostCell
  <2>2. gui' \notin {"opening", "printing", "open"}
    BY <1>7 DEF StartConnector, PostCell, NextCell
  <2>. QED BY <2>2
<1>. QED BY <1>2, <1>3, <1>4, <1>5, <1>6, <1>7, <1>8, StepKinds

-----------------------------------------------------------------------------
(* The theorems. *)

LEMMA TableInit == Init => TInv
<1>. SUFFICES ASSUME Init PROVE TInv
  OBVIOUS
<1>1. Types
  <2>1. 1 \in Robots
    <3>1. NumCells \in Nat /\ DefaultRobot \in 1..NumCells BY CellsAssumption
    <3>2. NumCells >= 1 BY <3>1
    <3>. QED BY <3>1, <3>2 DEF Robots
  <2>2. "" \in Texts BY DEF Texts
  <2>0. numIP = <<>> /\ queue = <<>> /\ hand = NoEvent BY DEF Init
  <2>3. DOMAIN numIP = {} BY <2>0
  <2>4. \A r \in Robots : Lookup(r) = "" BY <2>3 DEF Lookup
  <2>5. gui \in GuiStates /\ cell \in Robots /\ cells \in [Robots -> Texts]
    BY <2>1, <2>2 DEF Init, GuiStates
  <2>6. queue \in Seq(Posted) /\ hand = NoEvent BY <2>0
  <2>. QED BY <2>2, <2>4, <2>5, <2>6 DEF Types
<1>2. CellsInOrder /\ AcceptedIsDue /\ DialogIsFresh
  BY DEF Init, CellsInOrder, AcceptedIsDue, DialogIsFresh
<1>3. RunsAreDue
  <2>1. Waiting = <<>> BY DEF Init, Waiting
  <2>2. DOMAIN Waiting = {} BY <2>1
  <2>. QED BY <2>2 DEF RunsAreDue
<1>. QED BY <1>1, <1>2, <1>3 DEF TInv

LEMMA TableStep == TInv /\ [Next]_vars => TInv'
BY TypesStep, CellsInOrderStep, AcceptedIsDueStep, RunsAreDueStep, DialogIsFreshStep DEF TInv

LEMMA TableInvariant == Spec => []TInv
BY TableInit, TableStep, PTL DEF Spec

(* However events, commands and reopened dialogs interleave, the table ends  *)
(* up as the last accepted dialog says: addresses reach the map in the order *)
(* in which they were posted, and neither init() nor a read reverts one.     *)
THEOREM TableSettlesAsAccepted == Spec => []SettledTableIsAccepted
<1>1. TInv => SettledTableIsAccepted
  <2>. SUFFICES ASSUME TInv, gui # "accepting", \A r \in Robots : WritesOf(r) = {},
                       NEW texts \in accepted, NEW r \in Robots
                PROVE  Lookup(r) = Cleaned(texts[r])
    BY DEF SettledTableIsAccepted
  <2>1. DueAtEnd(Waiting, r, Lookup(r), Cleaned(texts[r])) BY DEF TInv, AcceptedIsDue
  <2>2. \A k \in DOMAIN Waiting : ~Changes(Waiting[k], r) BY DEF WritesOf, Changes
  <2>. QED BY <2>1, <2>2 DEF DueAtEnd, DueAt
<1>. QED BY <1>1, TableInvariant, PTL

(* A command leaves for the address its robot was due to have at the place *)
(* in the queue where the algorithm put it, whatever was accepted since.   *)
THEOREM CommandsAreDirected == Spec => []CommandsGoWhereDue
<1>1. TInv => CommandsGoWhereDue
  <2>. SUFFICES ASSUME TInv, hand.slot = "run" PROVE Lookup(hand.robot) = hand.text
    BY DEF CommandsGoWhereDue
  <2>1. NoEvent.slot = "none" BY DEF NoEvent
  <2>2. hand \in Posted /\ hand.robot \in Robots /\ hand # NoEvent
    BY <2>1, PostedShape DEF TInv, Types
  <2>3. InFront(Waiting, hand, queue) BY <2>2, WaitingIs DEF TInv, Types
  <2>4. 1 \in DOMAIN Waiting /\ Waiting[1] = hand /\ DOMAIN Waiting \subseteq Nat \ {0}
    BY <2>3 DEF InFront
  <2>5. DueAt(Waiting, 1, hand.robot, Lookup(hand.robot), hand.text)
    BY <2>2, <2>4 DEF TInv, RunsAreDue
  <2>6. \A k \in DOMAIN Waiting : ~(k < 1) BY <2>4
  <2>. QED BY <2>5, <2>6 DEF DueAt
<1>. QED BY <1>1, TableInvariant, PTL

(* A dialog opened when no address was on its way shows the table while it *)
(* is open, unless a read overlapped a change of the map.                  *)
THEOREM DialogShowsTable == Spec => []OpenDialogShowsTable
<1>1. TInv => OpenDialogShowsTable
  BY DEF TInv, DialogIsFresh, OpenDialogShowsTable
<1>. QED BY <1>1, TableInvariant, PTL

=============================================================================
