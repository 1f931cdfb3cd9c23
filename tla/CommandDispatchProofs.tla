------------------------ MODULE CommandDispatchProofs ------------------------
(***************************************************************************)
(* What robots and simulator are left with after a run, if the network     *)
(* loses nothing, for every size of the team, any number of rules and any  *)
(* backlog of commands.                                                    *)
(***************************************************************************)
EXTENDS CommandDispatch, WellFoundedInduction, TLAPS

Signals == [robot : 1..TeamSize, command : Commands]
Displays == [hundredths : Int, kick : Int]

Types ==
    /\ pc \in {"idle", "rules", "pause"}
    /\ Rules \in [1..RULE_AMOUNT -> RuleRows]
    /\ row \in Nat \ {0}
    /\ isPause \in BOOLEAN /\ pausedBefore \in BOOLEAN
    /\ label \in Labels
    /\ queue \in Seq(Signals)
    /\ robots \in [1..TeamSize -> Commands]
    /\ simulated \in [0..TeamSize -> Displays]

(* What the label says is what isPause is, once there has been an answer. *)
LabelTellsPause == label # "" => (isPause <=> label # "WORK")

InRules ==
    pc = "rules" => row <= RULE_AMOUNT + 1 /\ (isPause <=> pausedBefore)

OutsidePauseLoop == ~lossy /\ pc \in {"idle", "rules"}

PausedMeansStill ==
    OutsidePauseLoop /\ isPause => \A r \in 1..TeamSize : Standing(r) = Still

(* The simulator was told the command in one of the two forms. *)
Shows(display, command) == display \in {AsSingle(command), AsBroadcast(command)}

SimulatorAgrees ==
    OutsidePauseLoop =>
      \A r \in 1..MAX_NUM_ROBOTS : Shows(simulated[r], Standing(r))

(* The pause loop has stopped everybody it has passed, and the simulator's *)
(* robots one behind.                                                      *)
InPauseLoop ==
    pc = "pause" =>
      /\ isPause
      /\ row <= TeamSize + 1
      /\ ~lossy =>
           /\ \A r \in 1..TeamSize : r < row => Standing(r) = Still
           /\ \A r \in 1..MAX_NUM_ROBOTS :
                /\ r >= row => Shows(simulated[r], Standing(r))
                /\ r < row - 1 => simulated[r] = SimulatedStill

(* What the rules before the n-th leave robot r with. *)
Fired(r, n) == {i \in RulesFor(r) : i < n}
Greatest(S) == CHOOSE i \in S : \A j \in S : j <= i
Commanded(r, n) ==
    IF Fired(r, n) = {} THEN before[r]
    ELSE IF pausedBefore THEN Still
    ELSE Rules[Greatest(Fired(r, n))].motion

RulesDone == IF pc = "rules" THEN row ELSE RULE_AMOUNT + 1

RulesObeyed ==
    OutsidePauseLoop /\ (pc = "rules" \/ ~isPause)
      => \A r \in 1..TeamSize : Standing(r) = Commanded(r, RulesDone)

(* The form in which the simulator is told what a rule commands. *)
Form(rule) ==
    IF rule.robot = 0 THEN AsBroadcast(rule.motion) ELSE AsSingle(rule.motion)

FormObeyed ==
    OutsidePauseLoop /\ ~isPause /\ ~pausedBefore
      => \A r \in 1..MAX_NUM_ROBOTS :
           Fired(r, RulesDone) # {} =>
             simulated[r] = Form(Rules[Greatest(Fired(r, RulesDone))])

IInv ==
    /\ Types /\ LabelTellsPause /\ InRules
    /\ PausedMeansStill /\ SimulatorAgrees /\ InPauseLoop /\ RulesObeyed
    /\ FormObeyed

-----------------------------------------------------------------------------
(* The last command for a robot in a queue. *)

For(q, r) == {k \in DOMAIN q : q[k].robot = r}

StandingWith(q, b, r) ==
    IF For(q, r) = {} THEN b[r]
    ELSE q[CHOOSE k \in For(q, r) : \A m \in For(q, r) : m <= k].command

IsLast(k, q, r) == k \in For(q, r) /\ \A m \in For(q, r) : m <= k

LEMMA StandingDef == \A r : Standing(r) = StandingWith(queue, robots, r)
BY DEF Standing, StandingWith, For

LEMMA GreatestExists ==
    ASSUME NEW n \in Nat, NEW S \in SUBSET (1..n), S # {}
    PROVE  \E k \in S : \A m \in S : m <= k
<1> DEFINE T == {n - k : k \in S}
<1>1. T \in SUBSET Nat
  <2>1. \A k \in S : n - k \in Nat OBVIOUS
  <2> QED BY <2>1
<1>2. T # {}
  <2>1. PICK k \in S : TRUE OBVIOUS
  <2>2. n - k \in T BY <2>1
  <2> QED BY <2>2
<1>3. PICK d \in T : \A e \in T : ~ (<<e, d>> \in OpToRel(<, Nat))
  <2> HIDE DEF T
  <2> QED BY <1>1, <1>2, NatLessThanWellFounded, WFMin
<1>4. PICK k \in S : d = n - k BY <1>3
<1>5. ASSUME NEW m \in S PROVE m <= k
  <2>1. n - m \in T OBVIOUS
  <2>2. ~ (<<n - m, d>> \in OpToRel(<, Nat)) BY <2>1, <1>3
  <2>3. n - m \in Nat /\ d \in Nat BY <2>1, <1>1, <1>3
  <2>4. ~ (n - m < d) BY <2>2, <2>3 DEF OpToRel
  <2> QED BY <2>4, <1>4
<1> QED BY <1>5

LEMMA LastExists ==
    ASSUME NEW q \in Seq(Signals), NEW r, For(q, r) # {}
    PROVE  \E k : IsLast(k, q, r)
<1>1. Len(q) \in Nat /\ For(q, r) \in SUBSET (1..Len(q)) BY DEF For
<1> QED BY <1>1, GreatestExists DEF IsLast

LEMMA StandingIsLast ==
    ASSUME NEW q \in Seq(Signals), NEW b, NEW r, NEW k, IsLast(k, q, r)
    PROVE  StandingWith(q, b, r) = q[k].command
<1>1. \A m \in For(q, r) : m \in Int BY DEF For
<1>2. For(q, r) # {} BY DEF IsLast
<1>3. (CHOOSE i \in For(q, r) : \A j \in For(q, r) : j <= i) = k BY <1>1 DEF IsLast
<1> QED BY <1>2, <1>3 DEF StandingWith

(* A command put into the queue is the last one for its robot, and changes *)
(* nothing for the others.                                                 *)
LEMMA StandingAfterSignal ==
    ASSUME NEW q \in Seq(Signals), NEW b, NEW r, NEW s \in Signals
    PROVE  StandingWith(Append(q, s), b, r) =
             IF s.robot = r THEN s.command ELSE StandingWith(q, b, r)
<1> DEFINE n == Append(q, s)
<1>1. /\ n \in Seq(Signals) /\ Len(q) \in Nat
      /\ DOMAIN q = 1..Len(q) /\ DOMAIN n = 1..Len(q)+1
      /\ \A k \in 1..Len(q) : n[k] = q[k]
      /\ n[Len(q)+1] = s
  OBVIOUS
<1> HIDE DEF n
<1>2. CASE s.robot = r
  <2>1. IsLast(Len(q)+1, n, r) BY <1>1, <1>2 DEF For, IsLast
  <2>2. StandingWith(n, b, r) = n[Len(q)+1].command
    BY <2>1, <1>1, StandingIsLast
  <2> QED BY <2>2, <1>1, <1>2 DEF n
<1>3. CASE s.robot # r
  <2>1. For(n, r) = For(q, r) BY <1>1, <1>3 DEF For
  <2>2. CASE For(q, r) = {}
    BY <2>1, <2>2, <1>3 DEF StandingWith, n
  <2>3. CASE For(q, r) # {}
    <3>1. PICK k : IsLast(k, q, r) BY <2>3, LastExists
    <3>2. StandingWith(q, b, r) = q[k].command BY <3>1, StandingIsLast
    <3>3. StandingWith(n, b, r) = n[k].command
      <4>1. IsLast(k, n, r) BY <3>1, <2>1 DEF IsLast
      <4> QED BY <4>1, <1>1, StandingIsLast
    <3>4. n[k] = q[k] BY <1>1, <3>1 DEF For, IsLast
    <3> QED BY <3>2, <3>3, <3>4, <1>3 DEF n
  <2> QED BY <2>2, <2>3
<1> QED BY <1>2, <1>3

(* A delivered command moves from the queue to its robot. *)
LEMMA StandingAfterDelivery ==
    ASSUME NEW q \in Seq(Signals), q # <<>>, NEW b \in [1..TeamSize -> Commands],
           NEW r \in 1..TeamSize
    PROVE  StandingWith(Tail(q), [b EXCEPT ![Head(q).robot] = Head(q).command], r) =
             StandingWith(q, b, r)
<1> DEFINE t == Tail(q)
           c == [b EXCEPT ![Head(q).robot] = Head(q).command]
<1>1. /\ t \in Seq(Signals) /\ Len(q) \in Nat \ {0}
      /\ DOMAIN q = 1..Len(q) /\ DOMAIN t = 1..Len(q)-1
      /\ \A k \in 1..Len(q)-1 : t[k] = q[k+1]
      /\ Head(q) = q[1] /\ Head(q) \in Signals
  OBVIOUS
<1>2. c[r] = IF q[1].robot = r THEN q[1].command ELSE b[r]
  BY <1>1
<1> HIDE DEF t, c
<1>3. \A k \in For(t, r) : k + 1 \in For(q, r)
  BY <1>1 DEF For
<1>4. \A k \in For(q, r) : k # 1 => k - 1 \in For(t, r)
  BY <1>1 DEF For
<1>5. CASE For(t, r) # {}
  <2>1. PICK k : IsLast(k, t, r) BY <1>1, <1>5, LastExists
  <2>2. StandingWith(t, c, r) = t[k].command BY <2>1, <1>1, StandingIsLast
  <2>3. k \in 1..Len(q)-1 BY <2>1, <1>1 DEF For, IsLast
  <2>4. \A m \in For(q, r) : m \in 1..Len(q) BY <1>1 DEF For
  <2>5. IsLast(k + 1, q, r) BY <2>1, <2>3, <2>4, <1>3, <1>4 DEF IsLast
  <2>6. StandingWith(q, b, r) = q[k+1].command BY <2>5, StandingIsLast
  <2> QED BY <2>2, <2>3, <2>6, <1>1 DEF t, c
<1>6. CASE For(t, r) = {}
  <2>1. StandingWith(t, c, r) = c[r] BY <1>6 DEF StandingWith
  <2>2. \A k \in For(q, r) : k = 1 BY <1>4, <1>6
  <2>3. CASE q[1].robot = r
    <3>1. IsLast(1, q, r) BY <1>1, <2>2, <2>3 DEF For, IsLast
    <3>2. StandingWith(q, b, r) = q[1].command BY <3>1, StandingIsLast
    <3> QED BY <2>1, <2>3, <3>2, <1>2 DEF t, c
  <2>4. CASE q[1].robot # r
    <3>1. For(q, r) = {} BY <2>2, <2>4 DEF For
    <3>2. StandingWith(q, b, r) = b[r] BY <3>1 DEF StandingWith
    <3> QED BY <2>1, <2>4, <3>2, <1>2 DEF t, c
  <2> QED BY <2>3, <2>4
<1> QED BY <1>5, <1>6

LEMMA ElementOf == ASSUME NEW S, NEW a \in Seq(S), NEW i \in 1..Len(a) PROVE a[i] \in S
OBVIOUS

(* The signals SendRule puts into the queue. *)
SignalsTo(a, c) == [i \in DOMAIN a |-> ToConnector(a[i], c)]

LEMMA SignalsToAll ==
    ASSUME NEW a \in Seq(1..TeamSize), NEW c \in Commands
    PROVE  /\ SignalsTo(a, c) \in Seq(Signals) /\ Len(SignalsTo(a, c)) = Len(a)
           /\ \A i \in 1..Len(a) :
                SignalsTo(a, c)[i].robot = a[i] /\ SignalsTo(a, c)[i].command = c
<1>1. Len(a) \in Nat /\ DOMAIN a = 1..Len(a) OBVIOUS
<1>2. \A i \in 1..Len(a) : a[i] \in 1..TeamSize BY ElementOf
<1>3. \A i \in 1..Len(a) : ToConnector(a[i], c) \in Signals
  BY <1>2 DEF ToConnector, Signals
<1>4. \A i \in 1..Len(a) : SignalsTo(a, c)[i] = ToConnector(a[i], c)
  BY <1>1 DEF SignalsTo
<1>5. SignalsTo(a, c) \in Seq(Signals) /\ Len(SignalsTo(a, c)) = Len(a)
  BY <1>1, <1>3 DEF SignalsTo
<1>6. \A i \in 1..Len(a) : ToConnector(a[i], c).robot = a[i] /\ ToConnector(a[i], c).command = c
  BY DEF ToConnector
<1> QED BY <1>4, <1>5, <1>6

Joined(n, q, w) == n = q \o w
Addressed(w, r) == \E i \in 1..Len(w) : w[i].robot = r
AllAre(w, c) == \A i \in 1..Len(w) : w[i].command = c

(* Several commands of one kind: whoever is addressed has that one. *)
LEMMA StandingAfterRule ==
    ASSUME NEW q \in Seq(Signals), NEW b, NEW r, NEW c \in Commands,
           NEW w \in Seq(Signals), AllAre(w, c),
           NEW n, Joined(n, q, w)
    PROVE  /\ n \in Seq(Signals)
           /\ Addressed(w, r) => StandingWith(n, b, r) = c
           /\ ~Addressed(w, r) => StandingWith(n, b, r) = StandingWith(q, b, r)
<1>1. Len(q) \in Nat /\ Len(w) \in Nat /\ DOMAIN q = 1..Len(q)
  OBVIOUS
<1>3. /\ n \in Seq(Signals) /\ DOMAIN n = 1..Len(q)+Len(w)
      /\ \A k \in 1..Len(q) : n[k] = q[k]
      /\ \A k \in 1..Len(w) : n[Len(q)+k] = w[k]
  BY <1>1 DEF Joined
<1>4. \A k \in 1..Len(w) :
        n[Len(q)+k].robot = w[k].robot /\ n[Len(q)+k].command = c
  BY <1>3 DEF AllAre
<1>5. CASE Addressed(w, r)
  <2>1. PICK i \in 1..Len(w) : w[i].robot = r BY <1>5 DEF Addressed
  <2>2. Len(q)+i \in For(n, r) BY <2>1, <1>1, <1>3, <1>4 DEF For
  <2>3. PICK k : IsLast(k, n, r) BY <2>2, <1>3, LastExists
  <2>4. k \in 1..Len(q)+Len(w) /\ Len(q)+i <= k BY <2>2, <2>3, <1>3 DEF For, IsLast
  <2>5. k - Len(q) \in 1..Len(w) /\ k = Len(q) + (k - Len(q)) BY <2>1, <2>4, <1>1
  <2>6. n[k].command = c BY <2>5, <1>4
  <2>7. n \in Seq(Signals) BY <1>3
  <2>8. StandingWith(n, b, r) = n[k].command BY <2>3, <2>7, StandingIsLast
  <2> QED BY <2>6, <2>8, <1>3, <1>5
<1>6. CASE ~Addressed(w, r)
  <2>1. For(n, r) = For(q, r)
    <3>1. ASSUME NEW k \in For(n, r) PROVE k \in For(q, r)
      <4>1. k \in 1..Len(q)+Len(w) /\ n[k].robot = r BY <1>3 DEF For
      <4>2. CASE k <= Len(q) BY <4>1, <4>2, <1>1, <1>3 DEF For
      <4>3. CASE k > Len(q)
        <5>1. k - Len(q) \in 1..Len(w) /\ k = Len(q) + (k - Len(q))
          BY <4>1, <4>3, <1>1
        <5>2. w[k - Len(q)].robot = r BY <4>1, <5>1, <1>4
        <5> QED BY <5>1, <5>2, <1>1, <1>6 DEF Addressed
      <4> QED BY <4>1, <4>2, <4>3, <1>1
    <3>2. ASSUME NEW k \in For(q, r) PROVE k \in For(n, r)
      BY <1>1, <1>3 DEF For
    <3> QED BY <3>1, <3>2
  <2>2. CASE For(q, r) = {}
    BY <2>1, <2>2, <1>3, <1>6 DEF StandingWith
  <2>3. CASE For(q, r) # {}
    <3>1. PICK k : IsLast(k, q, r) BY <2>3, LastExists
    <3>2. StandingWith(q, b, r) = q[k].command BY <3>1, StandingIsLast
    <3>3. StandingWith(n, b, r) = n[k].command
      <4>1. n \in Seq(Signals) BY <1>3
      <4>2. IsLast(k, n, r) BY <3>1, <2>1 DEF IsLast
      <4> QED BY <4>1, <4>2, StandingIsLast
    <3>4. n[k] = q[k] BY <1>1, <1>3, <3>1 DEF For, IsLast
    <3> QED BY <3>2, <3>3, <3>4, <1>3, <1>6
  <2> QED BY <2>2, <2>3
<1> QED BY <1>5, <1>6

-----------------------------------------------------------------------------
(* What the simulator is told. *)

LEMMA StillIsStill ==
    /\ Still \in Commands /\ SimulatedStill \in Displays
    /\ AsSingle(Still) = SimulatedStill /\ AsBroadcast(Still) = SimulatedStill
    /\ Shows(SimulatedStill, Still)
BY DEF Still, Commands, SimulatedStill, Displays, AsSingle, AsBroadcast, Shows

LEMMA FormsAreDisplays ==
    ASSUME NEW c \in Commands
    PROVE  AsSingle(c) \in Displays /\ AsBroadcast(c) \in Displays
<1>1. c \in [speed : Int, kick : Int]
  BY MotionAssumption DEF Commands, Still
<1>2. /\ c.speed \in Int /\ 100 * c.speed \in Int
      /\ c.kick \in Int /\ 5 * c.kick \in Int
  BY <1>1
<1> QED BY <1>2 DEF AsSingle, AsBroadcast, Displays

-----------------------------------------------------------------------------
(* The steps. *)

LEMMA Initially == Init => IInv
<1> SUFFICES ASSUME Init PROVE IInv OBVIOUS
<1>1. /\ pc = "idle" /\ row = 1 /\ label = "" /\ queue = <<>>
      /\ Rules = [i \in 1..RULE_AMOUNT |-> InactiveRow]
      /\ robots = [r \in 1..TeamSize |-> Still]
      /\ simulated = [r \in 0..TeamSize |-> SimulatedStill]
      /\ before = robots
  BY DEF Init
<1>2. isPause \in BOOLEAN /\ (isPause <=> pausedBefore) BY DEF Init
<1>3. Types
  <2>1. InactiveRow \in RuleRows /\ Still \in Commands /\ "" \in Labels
        /\ SimulatedStill \in Displays
    BY StillIsStill DEF RuleRows, Labels
  <2>2. pausedBefore \in BOOLEAN BY DEF Init
  <2>3. queue \in Seq(Signals)
    <3>1. <<>> \in Seq(Signals) OBVIOUS
    <3> QED BY <1>1, <3>1
  <2>4. Rules \in [1..RULE_AMOUNT -> RuleRows] BY <1>1, <2>1
  <2>5. robots \in [1..TeamSize -> Commands] BY <1>1, <2>1
  <2>6. simulated \in [0..TeamSize -> Displays] BY <1>1, <2>1
  <2>7. pc \in {"idle", "rules", "pause"} /\ row \in Nat \ {0} /\ label \in Labels
    <3>1. row \in Nat \ {0}
      <4>1. row = 1 BY <1>1
      <4> QED BY <4>1
    <3>2. pc \in {"idle", "rules", "pause"} BY <1>1
    <3>3. label \in Labels BY <1>1, <2>1
    <3> QED BY <3>1, <3>2, <3>3
  <2> QED BY <1>2, <2>2, <2>3, <2>4, <2>5, <2>6, <2>7 DEF Types
<1>4. \A r \in 1..TeamSize : Standing(r) = Still
  <2>1. DOMAIN queue = {}
    <3>1. DOMAIN <<>> = {} OBVIOUS
    <3> QED BY <1>1, <3>1
  <2>2. \A r : For(queue, r) = {} BY <2>1 DEF For
  <2>3. \A r \in 1..TeamSize : robots[r] = Still BY <1>1
  <2> QED BY <2>2, <2>3, StandingDef DEF StandingWith
<1>5. \A r \in 1..MAX_NUM_ROBOTS : simulated[r] = SimulatedStill /\ r \in 1..TeamSize
  <2>1. \A r \in 1..MAX_NUM_ROBOTS : r \in 1..TeamSize /\ r \in 0..TeamSize
    BY TeamAssumption
  <2> QED BY <1>1, <2>1
<1>6. \A r, n : Fired(r, n) = {}
  BY <1>1 DEF Fired, RulesFor, InactiveRow
<1>7. \A r \in 1..TeamSize : Standing(r) = Commanded(r, RulesDone)
  BY <1>1, <1>4, <1>6 DEF Commanded
<1>8. PausedMeansStill /\ SimulatorAgrees /\ RulesObeyed /\ FormObeyed
  BY <1>4, <1>5, <1>6, <1>7, StillIsStill
     DEF PausedMeansStill, SimulatorAgrees, RulesObeyed, FormObeyed
<1> QED BY <1>1, <1>3, <1>8 DEF IInv, LabelTellsPause, InRules, InPauseLoop

(* Steps that leave queue and robots alone leave what robots will do alone. *)
LEMMA StandingUnchanged ==
    ASSUME UNCHANGED <<queue, robots>>
    PROVE  \A r : Standing(r)' = Standing(r)
BY DEF Standing

LEMMA BeginKeepsInv == IInv /\ BeginRun => IInv'
<1> SUFFICES ASSUME IInv, BeginRun PROVE IInv' OBVIOUS
<1>1. /\ pc = "idle" /\ pc' = "rules" /\ row' = 1
      /\ Rules' \in [1..RULE_AMOUNT -> RuleRows]
      /\ before' = [r \in 1..TeamSize |-> Standing(r)]
      /\ UNCHANGED <<label, queue, robots, simulated, lossy>>
  BY DEF BeginRun
<1>2. (isPause' <=> isPause) /\ (pausedBefore' <=> isPause)
      /\ isPause' \in BOOLEAN /\ pausedBefore' \in BOOLEAN
  BY DEF BeginRun, IInv, Types
<1>3. \A r : Standing(r)' = Standing(r) BY <1>1, StandingUnchanged
<1>4. Types' BY <1>1, <1>2 DEF IInv, Types
<1>5. \A r : Fired(r, 1)' = {}
  <2>1. \A r : \A i \in RulesFor(r)' : i \in 1..RULE_AMOUNT BY DEF RulesFor
  <2> QED BY <2>1, RuleAssumption DEF Fired
<1>6. \A r \in 1..TeamSize : Standing(r)' = Commanded(r, RulesDone)'
  BY <1>1, <1>3, <1>5 DEF Commanded, RulesDone
<1>7. PausedMeansStill' /\ SimulatorAgrees' /\ RulesObeyed'
  BY <1>1, <1>2, <1>3, <1>6
     DEF IInv, PausedMeansStill, SimulatorAgrees, RulesObeyed, OutsidePauseLoop
<1>8. LabelTellsPause' BY <1>1, <1>2 DEF IInv, LabelTellsPause
<1>9. InRules' BY <1>1, <1>2, RuleAssumption DEF InRules
<1>10. InPauseLoop' BY <1>1 DEF InPauseLoop
<1>11. FormObeyed' BY <1>1, <1>5 DEF FormObeyed, RulesDone
<1> QED BY <1>4, <1>7, <1>8, <1>9, <1>10, <1>11 DEF IInv

LEMMA RowTypes ==
    ASSUME NEW rule \in RuleRows
    PROVE  /\ rule.robot \in 0..TeamSize
           /\ rule.motion \in Commands
           /\ Addressees(rule) \in Seq(1..TeamSize)
           /\ \A r \in 1..TeamSize :
                (\E i \in DOMAIN Addressees(rule) : Addressees(rule)[i] = r)
                  <=> rule.robot \in {0, r} /\ r <= MAX_NUM_ROBOTS
<1>1. rule.robot \in 0..TeamSize /\ rule.motion \in Commands
  <2>1. CASE rule = InactiveRow
    BY <2>1, TeamAssumption, StillIsStill DEF InactiveRow
  <2>2. CASE rule \in [active : {TRUE}, robot : 0..TeamSize, motion : Commands]
    BY <2>2
  <2> QED BY <2>1, <2>2 DEF RuleRows
<1>2. CASE rule.robot = 0
  <2>1. Addressees(rule) = [i \in 1..MAX_NUM_ROBOTS |-> i] BY <1>2 DEF Addressees
  <2>2. [i \in 1..MAX_NUM_ROBOTS |-> i] \in Seq(1..TeamSize) BY TeamAssumption
  <2> QED BY <1>1, <1>2, <2>1, <2>2, TeamAssumption
<1>3. CASE rule.robot # 0 /\ rule.robot <= MAX_NUM_ROBOTS
  <2>1. Addressees(rule) = <<rule.robot>> BY <1>3 DEF Addressees
  <2>2. rule.robot \in 1..TeamSize BY <1>1, <1>3
  <2>3. <<rule.robot>> \in Seq(1..TeamSize) BY <2>2
  <2>4. DOMAIN <<rule.robot>> = {1} /\ <<rule.robot>>[1] = rule.robot OBVIOUS
  <2> QED BY <1>1, <1>3, <2>1, <2>3, <2>4, TeamAssumption
<1>4. CASE rule.robot # 0 /\ ~(rule.robot <= MAX_NUM_ROBOTS)
  <2>1. Addressees(rule) = <<>> BY <1>4 DEF Addressees
  <2>2. <<>> \in Seq(1..TeamSize) /\ DOMAIN <<>> = {} OBVIOUS
  <2> QED BY <1>1, <1>4, <2>1, <2>2
<1> QED BY <1>2, <1>3, <1>4

LEMMA CommandOfRow ==
    ASSUME NEW rule \in RuleRows, isPause \in BOOLEAN
    PROVE  Command(rule) \in Commands /\ Command(rule) = IF isPause THEN Still ELSE rule.motion
BY RowTypes, StillIsStill DEF Command

(* An active row decides for those it addresses; nobody else notices. *)
LEMMA RuleDecides ==
    ASSUME IInv, pc = "rules", row <= RULE_AMOUNT, SendRule,
           NEW r \in 1..TeamSize
    PROVE  /\ queue' \in Seq(Signals) /\ robots' = robots
           /\ Standing(r)' = IF row \in RulesFor(r) THEN Command(Rules[row])
                             ELSE Standing(r)
<1> DEFINE rule == Rules[row]
           a == Addressees(rule)
           w == SignalsTo(a, Command(rule))
<1>1. row \in 1..RULE_AMOUNT /\ rule \in RuleRows /\ robots' = robots
      /\ queue \in Seq(Signals) /\ isPause \in BOOLEAN
  BY RuleAssumption DEF IInv, Types, SendRule
<1>2. Standing(r) = StandingWith(queue, robots, r)
      /\ Standing(r)' = StandingWith(queue', robots', r)
  BY DEF Standing, StandingWith, For
<1>3. row \in RulesFor(r)
        <=> rule.active /\ rule.robot \in {0, r} /\ r <= MAX_NUM_ROBOTS
  BY <1>1 DEF RulesFor
<1>4. CASE rule.active
  <2>1. Joined(queue', queue, w) BY <1>4 DEF SendRule, SignalsTo, Joined
  <2>2. a \in Seq(1..TeamSize) /\ Command(rule) \in Commands
    BY <1>1, RowTypes, CommandOfRow
  <2>3. /\ w \in Seq(Signals) /\ Len(w) = Len(a)
        /\ \A i \in 1..Len(a) :
             w[i].robot = a[i] /\ w[i].command = Command(rule)
    <3> HIDE DEF a, rule
    <3> QED BY <2>2, SignalsToAll
  <2>4. DOMAIN a = 1..Len(a)
    <3> HIDE DEF a
    <3> QED BY <2>2
  <2>5. (\E i \in DOMAIN a : a[i] = r) <=> row \in RulesFor(r)
    BY <1>1, <1>3, <1>4, RowTypes
  <2>6. Addressed(w, r) <=> row \in RulesFor(r)
    <3> HIDE DEF a, rule, w
    <3> QED BY <2>3, <2>4, <2>5 DEF Addressed
  <2>7. /\ queue' \in Seq(Signals)
        /\ Addressed(w, r) => StandingWith(queue', robots, r) = Command(rule)
        /\ ~Addressed(w, r)
             => StandingWith(queue', robots, r) = StandingWith(queue, robots, r)
    <3>1. queue \in Seq(Signals) BY <1>1
    <3> HIDE DEF a, rule, w
    <3>2. AllAre(w, Command(rule)) BY <2>3 DEF AllAre
    <3>3. w \in Seq(Signals) BY <2>3
    <3> DEFINE c == Command(rule)
               new == queue'
    <3>4. AllAre(w, c) /\ Joined(new, queue, w) /\ c \in Commands BY <2>1, <2>2, <3>2
    <3> HIDE DEF c, new
    <3>5. new \in Seq(Signals) BY <3>1, <3>3, <3>4, StandingAfterRule
    <3>6. Addressed(w, r) => StandingWith(new, robots, r) = c
      BY <3>1, <3>3, <3>4, StandingAfterRule
    <3>7. ~Addressed(w, r)
             => StandingWith(new, robots, r) = StandingWith(queue, robots, r)
       BY <3>1, <3>3, <3>4, StandingAfterRule
    <3> QED BY <3>5, <3>6, <3>7 DEF c, new
  <2> QED BY <1>1, <1>2, <2>1, <2>6, <2>7
<1>5. CASE ~rule.active
  <2>1. queue' = queue BY <1>5 DEF SendRule
  <2> QED BY <1>1, <1>2, <1>3, <1>5, <2>1
<1> QED BY <1>4, <1>5

(* The rule just sent is the last of those that count. *)
LEMMA FiredByNext ==
    ASSUME Types, row \in 1..RULE_AMOUNT, NEW r
    PROVE  /\ row \in RulesFor(r) => /\ Fired(r, row + 1) # {}
                                    /\ Greatest(Fired(r, row + 1)) = row
           /\ row \notin RulesFor(r) => Fired(r, row + 1) = Fired(r, row)
<1>1. \A i \in RulesFor(r) : i \in Int BY DEF RulesFor
<1>2. row \in Int BY RuleAssumption
<1>3. CASE row \in RulesFor(r)
  <2>1. row \in Fired(r, row + 1) /\ \A j \in Fired(r, row + 1) : j <= row /\ j \in Int
    BY <1>1, <1>2, <1>3 DEF Fired
  <2>2. Greatest(Fired(r, row + 1)) = row BY <2>1, <1>2 DEF Greatest
  <2> QED BY <2>1, <2>2, <1>3
<1>4. CASE row \notin RulesFor(r)
  <2>1. Fired(r, row + 1) = Fired(r, row) BY <1>1, <1>2, <1>4 DEF Fired
  <2> QED BY <2>1, <1>4
<1> QED BY <1>3, <1>4

LEMMA CommandedByNext ==
    ASSUME Types, row \in 1..RULE_AMOUNT, NEW r
    PROVE  Commanded(r, row + 1) =
             IF row \in RulesFor(r) THEN IF pausedBefore THEN Still ELSE Rules[row].motion
             ELSE Commanded(r, row)
<1> DEFINE n == row + 1
<1>1. /\ row \in RulesFor(r) => Fired(r, n) # {} /\ Greatest(Fired(r, n)) = row
      /\ row \notin RulesFor(r) => Fired(r, n) = Fired(r, row)
  BY FiredByNext
<1> HIDE DEF n
<1>2. CASE row \in RulesFor(r)
  <2>1. Commanded(r, n) = IF pausedBefore THEN Still ELSE Rules[row].motion
    BY <1>1, <1>2 DEF Commanded
  <2> QED BY <2>1, <1>2 DEF n
<1>3. CASE row \notin RulesFor(r)
  <2>1. Commanded(r, n) = Commanded(r, row) BY <1>1, <1>3 DEF Commanded
  <2> QED BY <2>1, <1>3 DEF n
<1> QED BY <1>2, <1>3

LEMMA SendKeepsInv == IInv /\ SendRule => IInv'
<1> SUFFICES ASSUME IInv, SendRule PROVE IInv' OBVIOUS
<1> DEFINE rule == Rules[row]
<1>1. /\ pc = "rules" /\ pc' = "rules" /\ row <= RULE_AMOUNT /\ row' = row + 1
      /\ UNCHANGED <<Rules, label, robots, lossy, before>>
  BY DEF SendRule
<1>2. (isPause' <=> isPause) /\ (pausedBefore' <=> pausedBefore) /\ (isPause <=> pausedBefore)
      /\ isPause \in BOOLEAN /\ isPause' \in BOOLEAN /\ pausedBefore' \in BOOLEAN
  BY <1>1 DEF SendRule, IInv, Types, InRules
<1>3. row \in 1..RULE_AMOUNT /\ rule \in RuleRows
  BY <1>1, RuleAssumption DEF IInv, Types
<1>4. \A r \in 1..TeamSize :
        /\ queue' \in Seq(Signals)
        /\ Standing(r)' = IF row \in RulesFor(r) THEN Command(rule) ELSE Standing(r)
  BY <1>1, RuleDecides
<1>5. Command(rule) \in Commands /\ Command(rule) = IF isPause THEN Still ELSE rule.motion
  BY <1>2, <1>3, CommandOfRow
<1>6. simulated' \in [0..TeamSize -> Displays]
  <2>1. simulated \in [0..TeamSize -> Displays] BY DEF IInv, Types
  <2>2. CASE rule.active
    <3>1. simulated' = SimulatedAfter(rule) BY <2>2 DEF SendRule
    <3>2. AsSingle(Command(rule)) \in Displays /\ AsBroadcast(Command(rule)) \in Displays
      BY <1>5, FormsAreDisplays
    <3> HIDE DEF rule
    <3> QED BY <3>1, <3>2, <2>1 DEF SimulatedAfter
  <2>3. CASE ~rule.active BY <2>1, <2>3 DEF SendRule
  <2> QED BY <2>2, <2>3
<1>7. Types'
  <2>1. 1 \in 1..TeamSize BY TeamAssumption
  <2>2. queue' \in Seq(Signals) BY <2>1, <1>4
  <2>3. row' \in Nat \ {0} BY <1>1, <1>3, RuleAssumption
  <2> QED BY <1>1, <1>2, <1>6, <2>2, <2>3 DEF IInv, Types
<1>8. PausedMeansStill'
  BY <1>1, <1>2, <1>4, <1>5 DEF IInv, PausedMeansStill, OutsidePauseLoop
<1>9. ASSUME NEW r \in 1..MAX_NUM_ROBOTS
      PROVE  /\ row \in RulesFor(r) <=> rule.active /\ rule.robot \in {0, r}
             /\ row \notin RulesFor(r) => simulated'[r] = simulated[r]
             /\ row \in RulesFor(r) =>
                  simulated'[r] = IF rule.robot = 0 THEN AsBroadcast(Command(rule))
                                  ELSE IF isPause THEN simulated[r]
                                  ELSE AsSingle(Command(rule))
  <2>1. r \in 1..TeamSize /\ r \in 0..TeamSize /\ r <= MAX_NUM_ROBOTS /\ r # 0
    BY TeamAssumption
  <2>2. row \in RulesFor(r) <=> rule.active /\ rule.robot \in {0, r}
    BY <1>3, <2>1 DEF RulesFor
  <2>3. CASE rule.active
    <3>1. simulated' = SimulatedAfter(rule) BY <2>3 DEF SendRule
    <3>2. rule.robot \in 0..TeamSize BY <1>3, RowTypes
    <3>3. rule.robot > 0 <=> rule.robot # 0 BY <3>2, TeamAssumption
    <3> HIDE DEF rule
    <3>4. simulated'[r] =
            IF rule.robot # 0 /\ ~isPause /\ r = rule.robot THEN AsSingle(Command(rule))
            ELSE IF rule.robot = 0 THEN AsBroadcast(Command(rule))
            ELSE simulated[r]
      BY <2>1, <3>1, <3>3 DEF SimulatedAfter
    <3> QED BY <2>1, <2>2, <2>3, <3>4
  <2>4. CASE ~rule.active
    <3>1. simulated' = simulated BY <2>4 DEF SendRule
    <3> QED BY <2>2, <2>4, <3>1
  <2> QED BY <2>3, <2>4
<1>14. SimulatorAgrees'
  <2> SUFFICES ASSUME ~lossy, NEW r \in 1..MAX_NUM_ROBOTS
               PROVE  Shows(simulated'[r], Standing(r)')
    BY <1>1 DEF SimulatorAgrees, OutsidePauseLoop
  <2>1. r \in 1..TeamSize BY TeamAssumption
  <2>2. Shows(simulated[r], Standing(r)) /\ (isPause => Standing(r) = Still)
    BY <1>1, <2>1 DEF IInv, SimulatorAgrees, PausedMeansStill, OutsidePauseLoop
  <2>3. Standing(r)' = IF row \in RulesFor(r) THEN Command(rule) ELSE Standing(r)
    BY <1>4, <2>1
  <2>4. CASE row \notin RulesFor(r) BY <1>9, <2>2, <2>3, <2>4
  <2>5. CASE row \in RulesFor(r) /\ rule.robot # 0 /\ isPause
    <3>1. simulated'[r] = simulated[r] /\ Standing(r)' = Standing(r)
      BY <1>5, <1>9, <2>2, <2>3, <2>5
    <3> QED BY <2>2, <3>1
  <2>6. CASE row \in RulesFor(r) /\ (rule.robot = 0 \/ ~isPause)
    <3>1. simulated'[r] \in {AsSingle(Command(rule)), AsBroadcast(Command(rule))}
      BY <1>9, <2>6
    <3>2. Standing(r)' = Command(rule) BY <2>3, <2>6
    <3> QED BY <3>1, <3>2 DEF Shows
  <2> QED BY <2>4, <2>5, <2>6
<1>15. FormObeyed'
  <2> SUFFICES ASSUME ~lossy, ~isPause, ~pausedBefore, NEW r \in 1..MAX_NUM_ROBOTS,
                      Fired(r, row + 1) # {}
               PROVE  simulated'[r] = Form(Rules[Greatest(Fired(r, row + 1))])
    BY <1>1, <1>2 DEF FormObeyed, OutsidePauseLoop, RulesDone, Fired, RulesFor
  <2>1. Types BY DEF IInv
  <2>2. CASE row \in RulesFor(r)
    <3>1. Greatest(Fired(r, row + 1)) = row BY <1>3, <2>1, <2>2, FiredByNext
    <3>2. simulated'[r] = IF rule.robot = 0 THEN AsBroadcast(rule.motion)
                          ELSE AsSingle(rule.motion)
      BY <1>5, <1>9, <2>2
    <3> QED BY <3>1, <3>2 DEF Form
  <2>3. CASE row \notin RulesFor(r)
    <3>1. Fired(r, row + 1) = Fired(r, row) BY <1>3, <2>1, <2>3, FiredByNext
    <3>2. simulated'[r] = simulated[r] BY <1>9, <2>3
    <3>3. RulesDone = row BY <1>1 DEF RulesDone
    <3> DEFINE m == Fired(r, row + 1)
    <3>4. m # {} /\ Fired(r, RulesDone) = m BY <3>1, <3>3
    <3> HIDE DEF m
    <3>5. simulated[r] = Form(Rules[Greatest(m)])
      BY <1>1, <3>4 DEF IInv, FormObeyed, OutsidePauseLoop
    <3> QED BY <3>2, <3>5 DEF m
  <2> QED BY <2>2, <2>3
<1>10. RulesObeyed'
  <2> SUFFICES ASSUME ~lossy, NEW r \in 1..TeamSize
               PROVE  Standing(r)' = Commanded(r, RulesDone)'
    BY <1>1 DEF RulesObeyed, OutsidePauseLoop
  <2>1. Standing(r) = Commanded(r, row)
    BY <1>1 DEF IInv, RulesObeyed, OutsidePauseLoop, RulesDone
  <2>2. Commanded(r, RulesDone)' = Commanded(r, row + 1)
    BY <1>1, <1>2 DEF Commanded, RulesDone, Fired, RulesFor, Greatest
  <2>3. Types BY DEF IInv
  <2>4. Commanded(r, row + 1) =
             IF row \in RulesFor(r) THEN IF pausedBefore THEN Still ELSE rule.motion
             ELSE Commanded(r, row)
    BY <1>3, <2>3, CommandedByNext
  <2> QED BY <1>2, <1>4, <1>5, <2>1, <2>2, <2>4
<1>11. LabelTellsPause' BY <1>1, <1>2 DEF IInv, LabelTellsPause
<1>12. InRules' BY <1>1, <1>2, <1>3, RuleAssumption DEF InRules
<1>13. InPauseLoop' BY <1>1 DEF InPauseLoop
<1> QED BY <1>7, <1>8, <1>10, <1>11, <1>12, <1>13, <1>14, <1>15 DEF IInv

(* All rules are sent: either the pause loop begins or the run is over. *)
LEMMA RulesEnd ==
    ASSUME IInv, AllRulesSent, EnterPauseLoop(isPause'),
           isPause' \in BOOLEAN, label' \in Labels, LabelTellsPause',
           UNCHANGED <<Rules, queue, robots, simulated, lossy, before, pausedBefore>>
    PROVE  IInv'
<1>1. /\ pc = "rules" /\ row > RULE_AMOUNT /\ row' = 1
      /\ UNCHANGED <<Rules, queue, robots, simulated, lossy, before>>
  BY DEF AllRulesSent, EnterPauseLoop
<1>2. (isPause' => pc' = "pause") /\ (~isPause' => pc' = "idle")
  BY DEF EnterPauseLoop
<1>3. \A r : Standing(r)' = Standing(r) BY <1>1, StandingUnchanged
<1>4. row = RULE_AMOUNT + 1
  BY <1>1, RuleAssumption DEF IInv, Types, InRules
<1>5. pc' \in {"idle", "rules", "pause"}
  <2>1. CASE isPause' BY <1>2, <2>1
  <2>2. CASE ~isPause' BY <1>2, <2>2
  <2> QED BY <2>1, <2>2
<1>6. Types'
  <2>1. row' \in Nat \ {0}
    <3>1. row' = 1 BY <1>1
    <3> QED BY <3>1
  <2>2. pausedBefore' \in BOOLEAN BY DEF IInv, Types
  <2> QED BY <1>1, <1>5, <2>1, <2>2 DEF IInv, Types
<1>7. InRules' BY <1>2, <1>5 DEF InRules
<1>8. PausedMeansStill' BY <1>2 DEF PausedMeansStill, OutsidePauseLoop
<1>9. ~lossy => \A r \in 1..MAX_NUM_ROBOTS : Shows(simulated'[r], Standing(r)')
  BY <1>1, <1>3 DEF IInv, SimulatorAgrees, OutsidePauseLoop
<1>10. SimulatorAgrees' BY <1>1, <1>9 DEF SimulatorAgrees, OutsidePauseLoop
<1>11. InPauseLoop'
  <2> SUFFICES ASSUME pc' = "pause" PROVE InPauseLoop' BY DEF InPauseLoop
  <2>1. isPause' BY <1>2
  <2>2. row' = 1 /\ row' <= TeamSize + 1 BY <1>1, TeamAssumption
  <2>3. \A r \in 1..TeamSize : ~(r < row') BY <2>2
  <2>4. \A r \in 1..MAX_NUM_ROBOTS : ~(r < row' - 1) BY <2>2
  <2> QED BY <1>1, <1>9, <2>1, <2>2, <2>3, <2>4 DEF InPauseLoop
<1>12. RulesObeyed'
  <2> SUFFICES ASSUME ~lossy, pc' = "idle", NEW r \in 1..TeamSize
               PROVE  Standing(r)' = Commanded(r, RulesDone)'
    BY <1>1, <1>2 DEF RulesObeyed, OutsidePauseLoop
  <2>1. Standing(r) = Commanded(r, RulesDone)
    BY <1>1 DEF IInv, RulesObeyed, OutsidePauseLoop
  <2>2. RulesDone' = RULE_AMOUNT + 1 /\ RulesDone = RULE_AMOUNT + 1
    BY <1>1, <1>4 DEF RulesDone
  <2>3. pausedBefore' = pausedBefore OBVIOUS
  <2>4. \A n : Commanded(r, n)' = Commanded(r, n)
    BY <1>1, <2>3 DEF Commanded, Fired, RulesFor, Greatest
  <2> QED BY <1>3, <2>1, <2>2, <2>4
<1>13. FormObeyed'
  <2> SUFFICES ASSUME ~lossy, pc' = "idle", ~isPause', ~pausedBefore,
                      NEW r \in 1..MAX_NUM_ROBOTS,
                      Fired(r, RULE_AMOUNT + 1) # {}
               PROVE  simulated'[r] = Form(Rules[Greatest(Fired(r, RULE_AMOUNT + 1))])
    BY <1>1, <1>2 DEF FormObeyed, OutsidePauseLoop, RulesDone, Fired, RulesFor
  <2>1. ~isPause BY <1>1 DEF IInv, InRules
  <2>2. RulesDone = RULE_AMOUNT + 1 BY <1>1, <1>4 DEF RulesDone
  <2>3. simulated[r] = Form(Rules[Greatest(Fired(r, RULE_AMOUNT + 1))])
    BY <1>1, <2>1, <2>2 DEF IInv, FormObeyed, OutsidePauseLoop
  <2> QED BY <1>1, <2>3
<1> QED BY <1>6, <1>7, <1>8, <1>10, <1>11, <1>12, <1>13 DEF IInv

LEMMA SameSecondKeepsInv == IInv /\ WithinSameSecond => IInv'
<1> SUFFICES ASSUME IInv, WithinSameSecond PROVE IInv' OBVIOUS
<1>1. isPause' = isPause /\ label' = label /\ isPause \in BOOLEAN /\ label \in Labels
  BY DEF WithinSameSecond, IInv, Types
<1>2. LabelTellsPause' BY <1>1 DEF IInv, LabelTellsPause
<1>3. AllRulesSent /\ EnterPauseLoop(isPause')
  BY <1>1 DEF WithinSameSecond
<1>4. UNCHANGED <<Rules, queue, robots, simulated, lossy, before, pausedBefore>>
  BY DEF WithinSameSecond
<1> QED BY <1>1, <1>2, <1>3, <1>4, RulesEnd

LEMMA OnceASecondKeepsInv == IInv /\ OnceASecond => IInv'
<1> SUFFICES ASSUME IInv, OnceASecond PROVE IInv' OBVIOUS
<1>1. label' \in Labels /\ isPause' = (label' # "WORK")
  BY DEF OnceASecond, PausedBy
<1>2. LabelTellsPause' /\ isPause' \in BOOLEAN BY <1>1 DEF LabelTellsPause
<1>3. AllRulesSent /\ EnterPauseLoop(isPause') BY DEF OnceASecond
<1>4. UNCHANGED <<Rules, queue, robots, simulated, lossy, before, pausedBefore>>
  BY DEF OnceASecond
<1> QED BY <1>1, <1>2, <1>3, <1>4, RulesEnd

LEMMA PauseKeepsInv == IInv /\ PauseRobot => IInv'
<1> SUFFICES ASSUME IInv, PauseRobot PROVE IInv' OBVIOUS
<1> DEFINE s == ToConnector(row, Still)
<1>1. /\ pc = "pause" /\ pc' = "pause" /\ row <= TeamSize /\ row' = row + 1
      /\ queue' = Append(queue, s)
      /\ simulated' = [simulated EXCEPT ![row - 1] = SimulatedStill]
      /\ UNCHANGED <<Rules, label, robots, lossy, before>>
  BY DEF PauseRobot, StopAll
<1>2. (isPause' <=> isPause) /\ isPause /\ isPause' \in BOOLEAN /\ pausedBefore' \in BOOLEAN
  BY <1>1 DEF PauseRobot, IInv, Types, InPauseLoop
<1>3. row \in 1..TeamSize /\ row - 1 \in 0..TeamSize
  BY <1>1, TeamAssumption DEF IInv, Types
<1>4. queue \in Seq(Signals) /\ simulated \in [0..TeamSize -> Displays]
      /\ Still \in Commands /\ SimulatedStill \in Displays
  BY StillIsStill DEF IInv, Types
<1>5. s \in Signals /\ s.robot = row /\ s.command = Still
  BY <1>3, <1>4 DEF ToConnector, Signals
<1>6. \A r \in 1..TeamSize : Standing(r)' = IF r = row THEN Still ELSE Standing(r)
  <2> TAKE r \in 1..TeamSize
  <2> HIDE DEF s
  <2>1. Standing(r) = StandingWith(queue, robots, r)
        /\ Standing(r)' = StandingWith(queue', robots, r)
    BY <1>1 DEF Standing, StandingWith, For
  <2>2. StandingWith(Append(queue, s), robots, r) =
          IF s.robot = r THEN s.command ELSE StandingWith(queue, robots, r)
    BY <1>4, <1>5, StandingAfterSignal
  <2> QED BY <1>1, <1>5, <2>1, <2>2
<1>7. \A r \in 1..MAX_NUM_ROBOTS :
        simulated'[r] = IF r = row - 1 THEN SimulatedStill ELSE simulated[r]
  <2>1. \A r \in 1..MAX_NUM_ROBOTS : r \in 0..TeamSize BY TeamAssumption
  <2> QED BY <1>1, <1>4, <2>1
<1>8. Types'
  <2>1. queue' \in Seq(Signals)
    <3> HIDE DEF s
    <3> QED BY <1>1, <1>4, <1>5
  <2>2. simulated' \in [0..TeamSize -> Displays] BY <1>1, <1>4
  <2>3. row' \in Nat \ {0} BY <1>1, <1>3, TeamAssumption
  <2> QED BY <1>1, <1>2, <2>1, <2>2, <2>3 DEF IInv, Types
<1>9. InPauseLoop'
  <2>1. row' <= TeamSize + 1 BY <1>1, <1>3, TeamAssumption
  <2> SUFFICES ASSUME ~lossy
               PROVE  /\ \A r \in 1..TeamSize : r < row' => Standing(r)' = Still
                      /\ \A r \in 1..MAX_NUM_ROBOTS :
                           /\ r >= row' => Shows(simulated'[r], Standing(r)')
                           /\ r < row' - 1 => simulated'[r] = SimulatedStill
    BY <1>1, <1>2, <2>1 DEF InPauseLoop
  <2>2. /\ \A r \in 1..TeamSize : r < row => Standing(r) = Still
        /\ \A r \in 1..MAX_NUM_ROBOTS :
             /\ r >= row => Shows(simulated[r], Standing(r))
             /\ r < row - 1 => simulated[r] = SimulatedStill
    BY <1>1 DEF IInv, InPauseLoop
  <2>3. ASSUME NEW r \in 1..TeamSize, r < row' PROVE Standing(r)' = Still
    <3>1. r < row \/ r = row BY <1>1, <1>3, <2>3, TeamAssumption
    <3> QED BY <1>6, <2>2, <3>1
  <2>4. ASSUME NEW r \in 1..MAX_NUM_ROBOTS, r >= row' PROVE Shows(simulated'[r], Standing(r)')
    <3>1. r >= row /\ r # row /\ r # row - 1 /\ r \in 1..TeamSize
      BY <1>1, <1>3, <2>4, TeamAssumption
    <3> QED BY <1>6, <1>7, <2>2, <3>1
  <2>5. ASSUME NEW r \in 1..MAX_NUM_ROBOTS, r < row' - 1 PROVE simulated'[r] = SimulatedStill
    <3>1. r = row - 1 \/ r < row - 1 BY <1>1, <1>3, <2>5, TeamAssumption
    <3> QED BY <1>7, <2>2, <3>1
  <2> QED BY <2>3, <2>4, <2>5
<1>10. LabelTellsPause' BY <1>1, <1>2 DEF IInv, LabelTellsPause
<1>11. InRules' BY <1>1 DEF InRules
<1>12. PausedMeansStill' /\ SimulatorAgrees' /\ RulesObeyed' /\ FormObeyed'
  BY <1>1 DEF PausedMeansStill, SimulatorAgrees, RulesObeyed, FormObeyed, OutsidePauseLoop
<1> QED BY <1>8, <1>9, <1>10, <1>11, <1>12 DEF IInv

LEMMA EndPauseKeepsInv == IInv /\ EndPause => IInv'
<1> SUFFICES ASSUME IInv, EndPause PROVE IInv' OBVIOUS
<1>1. /\ pc = "pause" /\ pc' = "idle" /\ ~(row <= TeamSize) /\ row' = 1
      /\ UNCHANGED <<Rules, label, queue, robots, simulated, lossy, before>>
  BY DEF EndPause, StopAll
<1>2. (isPause' <=> isPause) /\ isPause /\ isPause' \in BOOLEAN /\ pausedBefore' \in BOOLEAN
  BY <1>1 DEF EndPause, IInv, Types, InPauseLoop
<1>3. \A r : Standing(r)' = Standing(r) BY <1>1, StandingUnchanged
<1>4. row = TeamSize + 1
  BY <1>1, TeamAssumption DEF IInv, Types, InPauseLoop
<1>5. Types'
  <2>1. row' \in Nat \ {0}
    <3>1. row' = 1 BY <1>1
    <3> QED BY <3>1
  <2>2. pc' \in {"idle", "rules", "pause"} BY <1>1
  <2> QED BY <1>1, <1>2, <2>1, <2>2 DEF IInv, Types
<1>6. ~lossy => \A r \in 1..TeamSize : Standing(r) = Still
  <2>1. \A r \in 1..TeamSize : r < row BY <1>4, TeamAssumption
  <2> QED BY <1>1, <2>1 DEF IInv, InPauseLoop
<1>7. ~lossy => \A r \in 1..MAX_NUM_ROBOTS : simulated[r] = SimulatedStill
  <2>1. \A r \in 1..MAX_NUM_ROBOTS : r < row - 1 BY <1>4, TeamAssumption
  <2> QED BY <1>1, <2>1 DEF IInv, InPauseLoop
<1>8. \A r \in 1..MAX_NUM_ROBOTS : r \in 1..TeamSize BY TeamAssumption
<1>9. PausedMeansStill' /\ SimulatorAgrees'
  BY <1>1, <1>3, <1>6, <1>7, <1>8, StillIsStill
     DEF PausedMeansStill, SimulatorAgrees, OutsidePauseLoop
<1>10. LabelTellsPause' BY <1>1, <1>2 DEF IInv, LabelTellsPause
<1>11. InRules' /\ InPauseLoop' BY <1>1 DEF InRules, InPauseLoop
<1>12. RulesObeyed' /\ FormObeyed' BY <1>1, <1>2 DEF RulesObeyed, FormObeyed
<1> QED BY <1>5, <1>9, <1>10, <1>11, <1>12 DEF IInv

(* Whatever happens to datagrams changes nothing the invariant speaks of, *)
(* if the network loses none.                                             *)
LEMMA ConnectorKeepsInv ==
    ASSUME IInv, queue' \in Seq(Signals), robots' \in [1..TeamSize -> Commands],
           UNCHANGED <<pc, Rules, row, isPause, label, simulated, lossy, before, pausedBefore>>,
           ~lossy => \A r \in 1..TeamSize : Standing(r)' = Standing(r)
    PROVE  IInv'
<1>1. /\ UNCHANGED <<pc, Rules, row, label, simulated, lossy, before>>
      /\ pausedBefore' = pausedBefore /\ isPause' = isPause
  OBVIOUS
<1>2. Types' BY <1>1 DEF IInv, Types
<1>3. \A r \in 1..MAX_NUM_ROBOTS : r \in 1..TeamSize BY TeamAssumption
<1>4. LabelTellsPause'
  <2>1. label' = label BY <1>1
  <2>2. isPause' <=> isPause BY <1>1
  <2> QED BY <2>1, <2>2 DEF IInv, LabelTellsPause
<1>5. InRules' BY <1>1 DEF IInv, InRules
<1>6. PausedMeansStill' BY <1>1 DEF IInv, PausedMeansStill, OutsidePauseLoop
<1>7. SimulatorAgrees'
  BY <1>1, <1>3 DEF IInv, SimulatorAgrees, OutsidePauseLoop
<1>8. InPauseLoop'
  <2>1. CASE lossy BY <1>1, <2>1 DEF IInv, InPauseLoop
  <2>2. CASE ~lossy BY <1>1, <1>3, <2>2 DEF IInv, InPauseLoop
  <2> QED BY <2>1, <2>2
<1>9. RulesObeyed'
  <2>1. \A r : Commanded(r, RulesDone)' = Commanded(r, RulesDone)
    BY <1>1 DEF Commanded, RulesDone, Fired, RulesFor, Greatest
  <2> QED BY <1>1, <2>1 DEF IInv, RulesObeyed, OutsidePauseLoop
<1>10. FormObeyed'
  <2>1. \A r, n : Fired(r, n)' = Fired(r, n) BY <1>1 DEF Fired, RulesFor
  <2>2. RulesDone' = RulesDone BY <1>1 DEF RulesDone
  <2> SUFFICES ASSUME OutsidePauseLoop, ~isPause, ~pausedBefore,
                      NEW r \in 1..MAX_NUM_ROBOTS, Fired(r, RulesDone) # {}
               PROVE  simulated'[r] = Form(Rules[Greatest(Fired(r, RulesDone))])
    BY <1>1, <2>1, <2>2 DEF FormObeyed, OutsidePauseLoop
  <2>3. simulated[r] = Form(Rules[Greatest(Fired(r, RulesDone))])
    BY DEF IInv, FormObeyed
  <2> QED BY <1>1, <2>3
<1> QED BY <1>2, <1>4, <1>5, <1>6, <1>7, <1>8, <1>9, <1>10 DEF IInv

LEMMA DeliverKeepsInv == IInv /\ Deliver => IInv'
<1> SUFFICES ASSUME IInv, Deliver PROVE IInv' OBVIOUS
<1>1. /\ queue # <<>> /\ queue' = Tail(queue)
      /\ robots' = [robots EXCEPT ![Head(queue).robot] = Head(queue).command]
  BY DEF Deliver
<1>2. queue \in Seq(Signals) /\ robots \in [1..TeamSize -> Commands]
  BY DEF IInv, Types
<1>3. Head(queue) \in Signals /\ Tail(queue) \in Seq(Signals) BY <1>1, <1>2
<1>4. robots' \in [1..TeamSize -> Commands] BY <1>1, <1>2, <1>3 DEF Signals
<1>5. \A r \in 1..TeamSize : Standing(r)' = Standing(r)
  <2> TAKE r \in 1..TeamSize
  <2>1. Standing(r) = StandingWith(queue, robots, r)
        /\ Standing(r)' = StandingWith(queue', robots', r)
    BY DEF Standing, StandingWith, For
  <2> QED BY <1>1, <1>2, <2>1, StandingAfterDelivery
<1>6. UNCHANGED <<pc, Rules, row, isPause, label, simulated, lossy, before, pausedBefore>>
  BY DEF Deliver
<1>7. queue' \in Seq(Signals) BY <1>1, <1>3
<1> QED BY <1>4, <1>5, <1>6, <1>7, ConnectorKeepsInv

LEMMA LoseKeepsInv == IInv /\ Lose => IInv'
<1> SUFFICES ASSUME IInv, Lose PROVE IInv' OBVIOUS
<1>1. lossy /\ queue # <<>> /\ queue' = Tail(queue) /\ robots' = robots BY DEF Lose
<1>2. queue \in Seq(Signals) /\ robots \in [1..TeamSize -> Commands]
  BY DEF IInv, Types
<1>3. queue' \in Seq(Signals) /\ robots' \in [1..TeamSize -> Commands] BY <1>1, <1>2
<1>4. UNCHANGED <<pc, Rules, row, isPause, label, simulated, lossy, before, pausedBefore>>
  BY DEF Lose
<1> QED BY <1>1, <1>3, <1>4, ConnectorKeepsInv

LEMMA StutterKeepsInv == IInv /\ UNCHANGED vars => IInv'
<1> SUFFICES ASSUME IInv, UNCHANGED vars PROVE IInv' OBVIOUS
<1>1. queue' = queue /\ robots' = robots
      /\ UNCHANGED <<pc, Rules, row, isPause, label, simulated, lossy, before, pausedBefore>>
  BY DEF vars
<1>2. queue' \in Seq(Signals) /\ robots' \in [1..TeamSize -> Commands]
  BY <1>1 DEF IInv, Types
<1>3. \A r : Standing(r)' = Standing(r) BY <1>1, StandingUnchanged
<1> QED BY <1>1, <1>2, <1>3, ConnectorKeepsInv

LEMMA Invariance == Spec => []IInv
<1>1. Init => IInv BY Initially
<1>2. IInv /\ [Next]_vars => IInv'
  BY BeginKeepsInv, SendKeepsInv, SameSecondKeepsInv, OnceASecondKeepsInv,
     PauseKeepsInv, EndPauseKeepsInv, DeliverKeepsInv, LoseKeepsInv, StutterKeepsInv
     DEF Next, MAStep
<1> QED BY <1>1, <1>2, PTL DEF Spec

-----------------------------------------------------------------------------

(* Unless the last answer was WORK, every robot of the team is, or is about *)
(* to be, standing still between runs, if the network loses nothing.        *)
THEOREM OnlyWORKMoves == Spec => []StandStillUnlessWORK
<1>1. IInv => StandStillUnlessWORK
  <2> SUFFICES ASSUME IInv, pc = "idle", ~lossy, label \notin {"", "WORK"}
               PROVE  \A r \in 1..TeamSize : Standing(r) = Still
    BY DEF StandStillUnlessWORK
  <2>1. isPause BY DEF IInv, LabelTellsPause
  <2> QED BY <2>1 DEF IInv, PausedMeansStill, OutsidePauseLoop
<1> QED BY <1>1, Invariance, PTL

(* After a run each robot is left with the command of the last rule that   *)
(* names it or everybody, or stands still if paused.                       *)
THEOREM RunsAreObeyed == Spec => []LastRuleStands
<1>1. IInv => LastRuleStands
  <2> SUFFICES ASSUME IInv, pc = "idle", ~lossy, NEW r \in 1..TeamSize
               PROVE  Standing(r) =
                        IF isPause THEN Still
                        ELSE IF RulesFor(r) = {} THEN before[r]
                        ELSE IF pausedBefore THEN Still
                        ELSE LastRule(RulesFor(r)).motion
    BY DEF LastRuleStands
  <2>1. CASE isPause BY <2>1 DEF IInv, PausedMeansStill, OutsidePauseLoop
  <2>2. CASE ~isPause
    <3>1. Standing(r) = Commanded(r, RulesDone)
      BY <2>2 DEF IInv, RulesObeyed, OutsidePauseLoop
    <3>2. RulesDone = RULE_AMOUNT + 1 BY DEF RulesDone
    <3>3. Fired(r, RULE_AMOUNT + 1) = RulesFor(r)
      BY RuleAssumption DEF Fired, RulesFor
    <3>4. Fired(r, RulesDone) = RulesFor(r) BY <3>2, <3>3
    <3> QED BY <2>2, <3>1, <3>4 DEF Commanded, Greatest, LastRule
  <2> QED BY <2>1, <2>2
<1> QED BY <1>1, Invariance, PTL

(* Between runs the simulator's robots have been told what the real ones are *)
(* left with: in the form for one robot or in that for everybody, and, where *)
(* rules of this run decided, in the form of the last of them.               *)
THEOREM SimulatorTellsTruth == Spec => []SimulatorFollowsRobots
<1>1. IInv => SimulatorFollowsRobots
  <2> SUFFICES ASSUME IInv, pc = "idle", ~lossy, NEW r \in 1..MAX_NUM_ROBOTS
               PROVE  /\ Shows(simulated[r], Standing(r))
                      /\ RulesFor(r) # {} /\ ~isPause /\ ~pausedBefore =>
                           simulated[r] = IF LastRule(RulesFor(r)).robot = 0
                                          THEN AsBroadcast(Standing(r))
                                          ELSE AsSingle(Standing(r))
    BY DEF SimulatorFollowsRobots, Shows
  <2>1. Shows(simulated[r], Standing(r))
    BY DEF IInv, SimulatorAgrees, OutsidePauseLoop
  <2>2. ASSUME RulesFor(r) # {}, ~isPause, ~pausedBefore
        PROVE  simulated[r] = IF LastRule(RulesFor(r)).robot = 0
                              THEN AsBroadcast(Standing(r)) ELSE AsSingle(Standing(r))
    <3> DEFINE last == LastRule(RulesFor(r))
    <3>1. Fired(r, RulesDone) = RulesFor(r)
      BY RuleAssumption DEF Fired, RulesFor, RulesDone
    <3>2. r \in 1..TeamSize BY TeamAssumption
    <3>3. Standing(r) = last.motion
      <4>1. Standing(r) = Commanded(r, RulesDone)
        BY <2>2, <3>2 DEF IInv, RulesObeyed, OutsidePauseLoop
      <4> QED BY <2>2, <3>1, <4>1 DEF Commanded, Greatest, LastRule
    <3>4. simulated[r] = Form(last)
      <4>1. simulated[r] = Form(Rules[Greatest(Fired(r, RulesDone))])
        BY <2>2, <3>1 DEF IInv, FormObeyed, OutsidePauseLoop
      <4> QED BY <3>1, <4>1 DEF Greatest, LastRule
    <3> QED BY <3>3, <3>4 DEF Form
  <2> QED BY <2>1, <2>2
<1> QED BY <1>1, Invariance, PTL
=============================================================================
