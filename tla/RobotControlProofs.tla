------------------------- MODULE RobotControlProofs -------------------------
(***************************************************************************)
(* What a robot is asked to do, from the keyboard or a row of Rules to the *)
(* bytes it reads.                                                         *)
(*                                                                         *)
(* The remote control, for every keyboard and every limit of the effort:   *)
(* what it asks of the robot stays in its range, the robot is stopped when *)
(* the window is gone, and the array of keys is the keyboard but for keys  *)
(* last touched elsewhere.  The windows and the keys disturb different     *)
(* parts of the state, so each invariant has a lemma of its own.           *)
(*                                                                         *)
(* The message, for every configuration file, every row and every burst of *)
(* damage: the line stored last tells how many columns there are, so that  *)
(* a row is read as it is written; and the checksum of the table is the    *)
(* remainder that the robot computes bit by bit.  That remainder is linear *)
(* in the bits fed in, so damage is accepted only if feeding it to an      *)
(* empty register leaves it empty; and damage within 32 bits never does.   *)
(***************************************************************************)
EXTENDS RemoteControl, RobotMessage, WellFoundedInduction, TLAPS

-----------------------------------------------------------------------------
(* Types, by the arithmetic of a motion. *)

LEMMA StillIsMotion == Still \in Motions
<1>1. 0 \in -MaxEffort..MaxEffort BY EffortAssumption
<1>2. 20 * 0 = 0 /\ 10 * 0 = 0
  OBVIOUS
<1>3. 0 \in Speeds(20) /\ 0 \in Speeds(10) BY <1>1, <1>2 DEF Speeds
<1>. QED BY <1>3 DEF Still, Motions

(* The speed in a direction is the effort, its opposite or nothing. *)
LEMMA VelocityIsSpeed ==
    ASSUME NEW first, NEW second, NEW step \in {10, 20}, effort \in 1..MaxEffort
    PROVE  /\ Velocity(first, second, step) \in Speeds(step)
           /\ -Velocity(first, second, step) \in Speeds(step)
<1>1. PICK e \in -MaxEffort..MaxEffort :
        Velocity(first, second, step) = step * e
  <2>1. CASE Pressed(second)
    BY <2>1, EffortAssumption DEF Velocity
  <2>2. CASE ~Pressed(second) /\ Pressed(first)
    <3>1. Velocity(first, second, step) = -(step * effort) BY <2>2 DEF Velocity
    <3>2. -(step * effort) = step * (-effort)
      <4>1. CASE step = 10 BY <4>1
      <4>2. CASE step = 20 BY <4>2
      <4>. QED BY <4>1, <4>2
    <3>3. -effort \in -MaxEffort..MaxEffort BY EffortAssumption
    <3>. QED BY <3>1, <3>2, <3>3
  <2>3. CASE ~Pressed(second) /\ ~Pressed(first)
    <3>1. Velocity(first, second, step) = 0 BY <2>3 DEF Velocity
    <3>2. 0 \in -MaxEffort..MaxEffort BY EffortAssumption
    <3>3. step * 0 = 0
      OBVIOUS
    <3>. QED BY <3>1, <3>2, <3>3
  <2>. QED BY <2>1, <2>2, <2>3
<1>2. -e \in -MaxEffort..MaxEffort BY EffortAssumption
<1>3. -(step * e) = step * (-e)
  <2>1. CASE step = 10 BY <2>1, EffortAssumption
  <2>2. CASE step = 20 BY <2>2, EffortAssumption
  <2>. QED BY <2>1, <2>2
<1>. QED BY <1>1, <1>2, <1>3 DEF Speeds

LEMMA MotionIsMotion ==
    ASSUME effort \in 1..MaxEffort
    PROVE  Motion \in Motions
<1>1. /\ Velocity(Left, Right, 20) \in Speeds(20)
      /\ -Velocity(Forward, Backward, 10) \in Speeds(10)
      /\ -Velocity({"R"}, {"F"}, 10) \in Speeds(10)
  BY VelocityIsSpeed
<1>2. Pressed({"Space"}) \in BOOLEAN BY DEF Pressed
<1>. QED BY <1>1, <1>2 DEF Motion, Motions

LEMMA SimulatorGetsMotions ==
    ASSUME NEW motion \in Motions
    PROVE  ToSimulator(motion) \in SimulatedMotions
BY DEF Motions, ToSimulator, SimulatedMotions

(* Whatever is pressed and however the effort is changed, the robot is asked *)
(* only for what RC_send can compute from an effort within its limits.       *)
THEOREM MotionsStayInRange == Spec => []TypeOK
<1>1. Init => TypeOK
  <2>. SUFFICES ASSUME Init PROVE TypeOK
    OBVIOUS
  <2>1. robot \in Motions /\ simulated \in SimulatedMotions
    BY StillIsMotion, SimulatorGetsMotions DEF Init
  <2>2. effort \in 1..MaxEffort BY EffortAssumption DEF Init
  <2>3. keys \subseteq Keys /\ held \subseteq Keys /\ astray \subseteq Keys BY DEF Init
  <2>4. shown \in BOOLEAN /\ active \in BOOLEAN /\ timer \in BOOLEAN
    BY DEF Init
  <2>. QED BY <2>1, <2>2, <2>3, <2>4 DEF TypeOK
<1>2. TypeOK /\ [Next]_vars => TypeOK'
  <2>. SUFFICES ASSUME TypeOK, [Next]_vars PROVE TypeOK'
    OBVIOUS
  <2>. USE DEF windowVars
  <2>1. CASE Open BY <2>1 DEF Open, TimerStart, TypeOK
  <2>2. CASE Close
    BY <2>2, StillIsMotion DEF Close, TimerStop, remcontrolsender, TypeOK
  <2>3. CASE SwitchWindow BY <2>3 DEF SwitchWindow, TypeOK
  <2>4. ASSUME NEW k \in Keys, Press(k) \/ Release(k) PROVE TypeOK'
    BY <2>4 DEF Press, Release, NoteKey, TypeOK
  <2>5. CASE ChangeEffort
    <3>0. effort \in 1..MaxEffort /\ MaxEffort \in Nat
      BY EffortAssumption DEF TypeOK
    <3>1. \/ effort < MaxEffort /\ effort' = effort + 1
          \/ effort' = IF effort > 1 THEN effort - 1 ELSE effort
      BY <2>5 DEF ChangeEffort, MoreEffort, LessEffort
    <3>2. effort' \in 1..MaxEffort BY <3>0, <3>1
    <3>. QED BY <2>5, <3>2 DEF ChangeEffort, TypeOK
  <2>6. CASE SendMotion
    BY <2>6, MotionIsMotion, SimulatorGetsMotions DEF SendMotion, remcontrolsender, TypeOK
  <2>7. CASE UNCHANGED vars BY <2>7 DEF vars, TypeOK
  <2>. QED BY <2>1, <2>2, <2>3, <2>4, <2>5, <2>6, <2>7 DEF Next, RC_send
<1>. QED BY <1>1, <1>2, PTL DEF Spec

-----------------------------------------------------------------------------
(* The window that is gone. *)

(* The timer runs just while the window is shown. *)
Clocked == timer = shown /\ ClosedMeansStopped

(* Once the window is closed, by its frame or by Escape, RC_send is no more *)
(* called and the last command the robot had was to stand still.            *)
THEOREM ClosingStopsTheRobot == Spec => []ClosedMeansStopped
<1>1. Init => Clocked BY DEF Init, Clocked, ClosedMeansStopped
<1>2. Clocked /\ [Next]_vars => Clocked'
  <2>. SUFFICES ASSUME Clocked, [Next]_vars PROVE Clocked'
    OBVIOUS
  <2>. USE DEF windowVars, Clocked, ClosedMeansStopped
  <2>1. CASE Open BY <2>1 DEF Open, TimerStart
  <2>2. CASE Close BY <2>2 DEF Close, TimerStop, remcontrolsender
  <2>3. CASE SwitchWindow BY <2>3 DEF SwitchWindow
  <2>4. ASSUME NEW k \in Keys, Press(k) \/ Release(k) PROVE Clocked'
    BY <2>4 DEF Press, Release
  <2>5. CASE RC_send BY <2>5 DEF RC_send, ChangeEffort, SendMotion
  <2>6. CASE UNCHANGED vars BY <2>6 DEF vars
  <2>. QED BY <2>1, <2>2, <2>3, <2>4, <2>5, <2>6 DEF Next
<1>3. Clocked => ClosedMeansStopped BY DEF Clocked
<1>. QED BY <1>1, <1>2, <1>3, PTL DEF Spec

-----------------------------------------------------------------------------
(* The keys. *)

(* Whatever windows are left and entered with keys down, the entry of a key *)
(* is right unless the key was last touched out of the window's sight: no   *)
(* press it saw is lost and no release it saw leaves the robot driving.     *)
THEOREM KeysAreTheKeyboard == Spec => []KeysFollowKeyboard
<1>1. Init => KeysFollowKeyboard BY DEF Init, KeysFollowKeyboard
<1>2. KeysFollowKeyboard /\ [Next]_vars => KeysFollowKeyboard'
  <2>. SUFFICES ASSUME KeysFollowKeyboard, [Next]_vars PROVE KeysFollowKeyboard'
    OBVIOUS
  <2>1. ASSUME UNCHANGED <<keys, held, astray>> PROVE KeysFollowKeyboard'
    BY <2>1 DEF KeysFollowKeyboard
  <2>2. CASE Open \/ Close \/ SwitchWindow
    BY <2>1, <2>2 DEF Open, Close, SwitchWindow
  <2>3. ASSUME NEW k \in Keys, Press(k) \/ Release(k), NEW l \in Keys \ astray'
        PROVE  l \in keys' <=> l \in held'
    <3>1. CASE active
      <4>1. CASE l = k BY <2>3, <3>1, <4>1 DEF Press, Release
      <4>2. CASE l # k
        <5>1. l \notin astray BY <2>3, <3>1, <4>2 DEF Press, Release, NoteKey
        <5>2. l \in keys <=> l \in held BY <5>1 DEF KeysFollowKeyboard
        <5>. QED BY <2>3, <3>1, <4>2, <5>2 DEF Press, Release
      <4>. QED BY <4>1, <4>2
    <3>2. CASE ~active
      <4>1. l # k /\ l \notin astray BY <2>3, <3>2 DEF Press, Release, NoteKey
      <4>2. l \in keys <=> l \in held BY <4>1 DEF KeysFollowKeyboard
      <4>. QED BY <2>3, <3>2, <4>1, <4>2 DEF Press, Release
    <3>. QED BY <3>1, <3>2
  <2>4. CASE RC_send \/ UNCHANGED vars
    BY <2>1, <2>4 DEF RC_send, ChangeEffort, SendMotion, vars
  <2>. QED BY <2>2, <2>3, <2>4 DEF Next, KeysFollowKeyboard
<1>. QED BY <1>1, <1>2, PTL DEF Spec

-----------------------------------------------------------------------------
(* Induction, said of sets. *)

LEMMA EveryNumber ==
    ASSUME NEW S \in SUBSET Nat, 0 \in S, \A n \in S : n + 1 \in S
    PROVE  \A n \in Nat : n \in S
<1>. SUFFICES ASSUME Nat \ S # {} PROVE FALSE
  OBVIOUS
<1>1. PICK n \in Nat \ S : \A m \in Nat \ S : ~ (<<m, n>> \in OpToRel(<, Nat))
  BY NatLessThanWellFounded, WFMin
<1>2. ASSUME NEW m \in Nat \ S PROVE ~ (m < n)
  <2>1. <<m, n>> \notin OpToRel(<, Nat) BY <1>1
  <2>. QED BY <2>1 DEF OpToRel
<1>3. n - 1 \in Nat /\ n - 1 < n OBVIOUS
<1>4. n - 1 \in S BY <1>2, <1>3
<1>5. (n - 1) + 1 = n OBVIOUS
<1>. QED BY <1>4, <1>5

(* f begins with first and goes on by step. *)
Recursion(f, first, step, m) ==
    f = [n \in 0..m |-> IF n = 0 THEN first ELSE step[<<n, f[n - 1]>>]]

LEMMA RecursionExists ==
    ASSUME NEW V, NEW first \in V, NEW m \in Nat,
           NEW step, \A n \in 1..m, v \in V : step[<<n, v>>] \in V
    PROVE  \E f \in [0..m -> V] : Recursion(f, first, step, m)
<1> DEFINE S == {k \in Nat :
                   k <= m => \E f \in [0..k -> V] : Recursion(f, first, step, k)}
<1>1. 0 \in S
  <2> DEFINE f == [n \in 0..0 |-> first]
  <2>1. f \in [0..0 -> V] /\ Recursion(f, first, step, 0) BY DEF Recursion
  <2>. QED BY <2>1
<1>2. ASSUME NEW k \in S PROVE k + 1 \in S
  <2>. SUFFICES ASSUME k + 1 <= m
                PROVE  \E g \in [0..(k + 1) -> V] : Recursion(g, first, step, k + 1)
    OBVIOUS
  <2>1. PICK f \in [0..k -> V] : Recursion(f, first, step, k) OBVIOUS
  <2>2. PICK last \in V : last = step[<<k + 1, f[k]>>] OBVIOUS
  <2> DEFINE g == [n \in 0..(k + 1) |-> IF n = k + 1 THEN last ELSE f[n]]
  <2>3. g \in [0..(k + 1) -> V]
    <3>1. ASSUME NEW n \in 0..(k + 1), n # k + 1 PROVE f[n] \in V
      <4>1. n \in 0..k BY <3>1
      <4>. QED BY <4>1
    <3>. QED BY <3>1
  <2>4. ASSUME NEW n \in 0..(k + 1)
        PROVE  g[n] = IF n = 0 THEN first ELSE step[<<n, g[n - 1]>>]
    <3>1. CASE n = k + 1
      <4>1. g[n] = last /\ n # 0 BY <3>1
      <4>2. g[n - 1] = f[k]
        <5>1. n - 1 = k /\ k \in 0..(k + 1) /\ k # k + 1 BY <3>1
        <5>. QED BY <5>1
      <4>. HIDE DEF g
      <4>. QED BY <4>1, <4>2, <3>1, <2>2
    <3>2. CASE n # k + 1
      <4>1. n \in 0..k /\ g[n] = f[n] BY <3>2
      <4>2. n # 0 => g[n - 1] = f[n - 1]
        <5>1. n # 0 => n - 1 \in 0..(k + 1) /\ n - 1 # k + 1 BY <4>1
        <5>. QED BY <5>1
      <4>3. f[n] = IF n = 0 THEN first ELSE step[<<n, f[n - 1]>>]
        BY <2>1, <4>1 DEF Recursion
      <4>. HIDE DEF g
      <4>. QED BY <4>1, <4>2, <4>3
    <3>. QED BY <3>1, <3>2
  <2>5. g = [n \in 0..(k + 1) |-> g[n]] OBVIOUS
  <2>. HIDE DEF g
  <2>6. Recursion(g, first, step, k + 1) BY <2>4, <2>5 DEF Recursion
  <2>. QED BY <2>3, <2>6
<1>. HIDE DEF S
<1>3. m \in S
  <2>1. S \in SUBSET Nat BY DEF S
  <2>. QED BY <1>1, <1>2, <2>1, EveryNumber
<1>. QED BY <1>3 DEF S


-----------------------------------------------------------------------------
(* The register of the checksum. *)

Words == SUBSET AllOnes

LEMMA XorOfWords ==
    ASSUME NEW a \in Words, NEW b \in Words
    PROVE  /\ Xor(a, b) \in Words /\ Xor(a, {}) = a /\ Xor(a, a) = {}
           /\ Xor(a, b) = {} => a = b
BY DEF Words, Xor

LEMMA ShiftRightOfWords ==
    ASSUME NEW a \in Words, NEW n \in Nat
    PROVE  /\ ShiftRight(a, n) \in Words
           /\ \A b \in Nat : b \in ShiftRight(a, n) <=> b + n \in a
           /\ ShiftRight(a, 0) = a
           /\ ShiftRight(ShiftRight(a, n), 1) = ShiftRight(a, n + 1)
<1>1. ASSUME NEW w \in Words, NEW m \in Nat
      PROVE  ShiftRight(w, m) \in Words
  BY DEF ShiftRight, Words, AllOnes
<1>2. ASSUME NEW w \in Words, NEW m \in Nat, NEW b \in Nat
      PROVE  b \in ShiftRight(w, m) <=> b + m \in w
  <2>1. ASSUME b \in ShiftRight(w, m) PROVE b + m \in w
    <3>1. PICK c \in w : c >= m /\ b = c - m BY <2>1 DEF ShiftRight
    <3>2. c \in Nat BY DEF Words, AllOnes
    <3>3. c = b + m BY <3>1, <3>2
    <3>. QED BY <3>3
  <2>2. ASSUME b + m \in w PROVE b \in ShiftRight(w, m)
    <3>1. b + m >= m /\ b = (b + m) - m OBVIOUS
    <3>. QED BY <2>2, <3>1 DEF ShiftRight
  <2>. QED BY <2>1, <2>2
<1>3. ASSUME NEW u \in Words, NEW w \in Words, \A b \in Nat : b \in u <=> b \in w
      PROVE  u = w
  <2>1. u \subseteq Nat /\ w \subseteq Nat BY DEF Words, AllOnes
  <2>. QED BY <2>1, <1>3
<1>4. ShiftRight(a, 0) = a
  <2>1. \A b \in Nat : b \in ShiftRight(a, 0) <=> b \in a BY <1>2
  <2>. QED BY <2>1, <1>1, <1>3
<1>5. ShiftRight(ShiftRight(a, n), 1) = ShiftRight(a, n + 1)
  <2>1. ShiftRight(a, n) \in Words BY <1>1
  <2>2. ASSUME NEW b \in Nat
        PROVE  b \in ShiftRight(ShiftRight(a, n), 1) <=> b \in ShiftRight(a, n + 1)
    <3>1. b + 1 \in Nat /\ n + 1 \in Nat /\ (b + 1) + n = b + (n + 1) OBVIOUS
    <3>2. b \in ShiftRight(ShiftRight(a, n), 1) <=> b + 1 \in ShiftRight(a, n)
      BY <2>1, <1>2
    <3>3. b + 1 \in ShiftRight(a, n) <=> (b + 1) + n \in a BY <3>1, <1>2
    <3>4. b \in ShiftRight(a, n + 1) <=> b + (n + 1) \in a BY <3>1, <1>2
    <3>. QED BY <3>1, <3>2, <3>3, <3>4
  <2>3. /\ ShiftRight(ShiftRight(a, n), 1) \in Words
        /\ ShiftRight(a, n + 1) \in Words
    <3>1. n + 1 \in Nat /\ 1 \in Nat OBVIOUS
    <3>. QED BY <3>1, <2>1, <1>1
  <2>. QED BY <2>2, <2>3, <1>3
<1>. QED BY <1>1, <1>2, <1>4, <1>5

(* Shifting in a bit is linear, and loses nothing. *)
LEMMA ShiftingIn ==
    ASSUME NEW u \in Words, NEW w \in Words, NEW p \in BOOLEAN, NEW q \in BOOLEAN
    PROVE  /\ ShiftedIn(u, p) \in Words
           /\ Xor(ShiftedIn(u, p), ShiftedIn(w, q)) = ShiftedIn(Xor(u, w), ~(p <=> q))
<1>1. Polynomial \in Words BY DEF Polynomial, Words, AllOnes
<1>2. PICK s \in Words : s = ShiftRight(u, 1) BY ShiftRightOfWords
<1>3. PICK t \in Words : t = ShiftRight(w, 1) BY ShiftRightOfWords
<1>4. ShiftRight(Xor(u, w), 1) = Xor(s, t)
  <2>1. Xor(u, w) \in Words BY XorOfWords
  <2>2. ASSUME NEW b \in Nat
        PROVE  b \in ShiftRight(Xor(u, w), 1) <=> b \in Xor(s, t)
    <3>1. b \in ShiftRight(Xor(u, w), 1) <=> b + 1 \in Xor(u, w)
      BY <2>1, ShiftRightOfWords
    <3>2. b \in s <=> b + 1 \in u BY <1>2, ShiftRightOfWords
    <3>3. b \in t <=> b + 1 \in w BY <1>3, ShiftRightOfWords
    <3>. QED BY <3>1, <3>2, <3>3 DEF Xor
  <2>3. ShiftRight(Xor(u, w), 1) \in Words BY <2>1, ShiftRightOfWords
  <2>4. Xor(s, t) \in Words BY XorOfWords
  <2>. QED BY <2>2, <2>3, <2>4 DEF Words, AllOnes
<1>5. 0 \in Xor(u, w) <=> ~(0 \in u <=> 0 \in w) BY DEF Xor
<1>6. ASSUME NEW P \in Words
      PROVE  /\ Xor(Xor(s, P), Xor(t, P)) = Xor(s, t)
             /\ Xor(Xor(s, P), t) = Xor(Xor(s, t), P)
             /\ Xor(s, Xor(t, P)) = Xor(Xor(s, t), P)
  BY DEF Xor
<1>7. Xor(s, Polynomial) \in Words BY <1>1, XorOfWords
<1>. QED BY <1>1, <1>2, <1>3, <1>4, <1>5, <1>6, <1>7 DEF ShiftedIn

LEMMA NothingIsLost ==
    ASSUME NEW w \in Words, ShiftedIn(w, FALSE) = {}
    PROVE  w = {}
<1>1. 31 \in Polynomial BY DEF Polynomial
<1>2. 31 \notin ShiftRight(w, 1)
  <2>1. 31 \in ShiftRight(w, 1) <=> 31 + 1 \in w BY ShiftRightOfWords
  <2>. QED BY <2>1 DEF Words, AllOnes
<1>3. ~(0 \in w) BY <1>1, <1>2 DEF ShiftedIn, Xor
<1>4. ShiftRight(w, 1) = {}
  <2>1. 0 \in w <=> FALSE BY <1>3
  <2>. QED BY <2>1 DEF ShiftedIn
<1>5. ASSUME NEW b \in w PROVE FALSE
  <2>1. b \in Nat /\ b # 0 BY <1>3 DEF Words, AllOnes
  <2>2. b - 1 \in Nat /\ (b - 1) + 1 = b BY <2>1
  <2>3. b - 1 \in ShiftRight(w, 1) BY <2>2, ShiftRightOfWords
  <2>. QED BY <2>3, <1>4
<1>. QED BY <1>5

-----------------------------------------------------------------------------
(* t is what becomes of a word while n bits are fed in, those in S set. *)
Feeds(t, w, S, n) ==
    /\ t \in [0..n -> Words] /\ t[0] = w
    /\ \A k \in 0..n-1 : t[k + 1] = ShiftedIn(t[k], k \in S)

(* The first n bits are the same. *)
Agree(S, R, n) == \A b \in 0..n-1 : b \in S <=> b \in R

(* No bit is set from k on. *)
Silent(S, k, n) == \A b \in k..n-1 : b \notin S

LEMMA FeedingExists ==
    ASSUME NEW w \in Words, NEW S, NEW n \in Nat
    PROVE  \E t : Feeds(t, w, S, n)
<1> DEFINE step == [q \in (1..n) \X Words |-> ShiftedIn(q[2], q[1] - 1 \in S)]
<1>1. ASSUME NEW k \in 1..n, NEW v \in Words
      PROVE  step[<<k, v>>] = ShiftedIn(v, k - 1 \in S) /\ step[<<k, v>>] \in Words
  <2>1. step[<<k, v>>] = ShiftedIn(v, k - 1 \in S) OBVIOUS
  <2>2. (k - 1 \in S) \in BOOLEAN OBVIOUS
  <2>. HIDE DEF step
  <2>. QED BY <2>1, <2>2, ShiftingIn, ZenonT(40)
<1>. HIDE DEF step
<1>2. PICK t \in [0..n -> Words] : Recursion(t, w, step, n)
  BY <1>1, RecursionExists
<1>3. t[0] = w
  <2>1. 0 \in 0..n OBVIOUS
  <2>. QED BY <1>2, <2>1 DEF Recursion
<1>4. ASSUME NEW k \in 0..n-1 PROVE t[k + 1] = ShiftedIn(t[k], k \in S)
  <2>1. k + 1 \in 0..n /\ k + 1 # 0 /\ (k + 1) - 1 = k /\ k \in 0..n /\ k + 1 \in 1..n
    OBVIOUS
  <2>2. t[k + 1] = step[<<k + 1, t[k]>>] BY <2>1, <1>2 DEF Recursion
  <2>3. t[k] \in Words BY <2>1
  <2>. QED BY <2>1, <2>2, <2>3, <1>1
<1>. QED BY <1>3, <1>4 DEF Feeds

(* It depends on the bits fed in alone. *)
LEMMA FeedingIsUnique ==
    ASSUME NEW w, NEW S, NEW R, NEW m \in Nat, NEW n \in Nat, NEW t, NEW u,
           Feeds(t, w, S, m), Feeds(u, w, R, n),
           NEW k \in 0..m, k \in 0..n, Agree(S, R, k)
    PROVE  t[k] = u[k]
<1> DEFINE I == {j \in Nat : j <= k => t[j] = u[j]}
<1>1. 0 \in I BY DEF Feeds
<1>2. ASSUME NEW j \in I PROVE j + 1 \in I
  <2>. SUFFICES ASSUME j + 1 <= k PROVE t[j + 1] = u[j + 1] OBVIOUS
  <2>1. j \in 0..k-1 /\ j \in 0..m-1 /\ j \in 0..n-1 /\ j <= k OBVIOUS
  <2>2. t[j] = u[j] BY <2>1
  <2>3. t[j + 1] = ShiftedIn(t[j], j \in S) BY <2>1 DEF Feeds
  <2>4. u[j + 1] = ShiftedIn(u[j], j \in R) BY <2>1 DEF Feeds
  <2>5. (j \in S) = (j \in R) BY <2>1 DEF Agree
  <2>. QED BY <2>2, <2>3, <2>4, <2>5
<1>3. I \in SUBSET Nat OBVIOUS
<1>. HIDE DEF I
<1>4. k \in I BY <1>1, <1>2, <1>3, EveryNumber
<1>. QED BY <1>4 DEF I

(* The reference definition, which recurses the other way. *)
LEMMA FedIsFeeding ==
    ASSUME NEW w \in Words, NEW S, NEW n \in Nat, NEW t, Feeds(t, w, S, n)
    PROVE  Fed(w, S, n) = t[n]
<1> DEFINE From(f) ==
             f = [at \in (SUBSET AllOnes) \X (0..n) |->
                    IF at[2] = n THEN at[1]
                    ELSE f[<<ShiftedIn(at[1], at[2] \in S), at[2] + 1>>]]
           from == CHOOSE f : From(f)
           V == [Words -> Words]
           step == [q \in (1..n) \X V |->
                      [v \in Words |-> q[2][ShiftedIn(v, n - q[1] \in S)]]]
           same == [v \in Words |-> v]
<1>1. ASSUME NEW k \in 1..n, NEW g \in V
      PROVE  /\ step[<<k, g>>] = [v \in Words |-> g[ShiftedIn(v, n - k \in S)]]
             /\ step[<<k, g>>] \in V
  <2>1. step[<<k, g>>] = [v \in Words |-> g[ShiftedIn(v, n - k \in S)]] OBVIOUS
  <2>2. ASSUME NEW v \in Words PROVE g[ShiftedIn(v, n - k \in S)] \in Words
    <3>1. (n - k \in S) \in BOOLEAN OBVIOUS
    <3>2. ShiftedIn(v, n - k \in S) \in Words BY <3>1, ShiftingIn
    <3>. QED BY <3>2
  <2>. HIDE DEF step
  <2>. QED BY <2>1, <2>2
<1>2. same \in V OBVIOUS
<1>. HIDE DEF step
<1>3. PICK g \in [0..n -> V] : Recursion(g, same, step, n)
  <2>. HIDE DEF V, same
  <2>. QED BY <1>1, <1>2, RecursionExists
<1>4. \A v \in Words : g[0][v] = v
  <2>1. 0 \in 0..n OBVIOUS
  <2>2. g[0] = same BY <2>1, <1>3 DEF Recursion
  <2>. QED BY <2>2
<1>5. ASSUME NEW k \in 1..n, NEW v \in Words
      PROVE  g[k][v] = g[k - 1][ShiftedIn(v, n - k \in S)]
  <2>1. k \in 0..n /\ k # 0 /\ k - 1 \in 0..n OBVIOUS
  <2>2. g[k] = step[<<k, g[k - 1]>>] BY <2>1, <1>3 DEF Recursion
  <2>3. g[k - 1] \in V BY <2>1
  <2>4. step[<<k, g[k - 1]>>] = [x \in Words |-> g[k - 1][ShiftedIn(x, n - k \in S)]]
    BY <2>3, <1>1
  <2>. QED BY <2>2, <2>4
<1>6. \E f : From(f)
  <2> DEFINE P == (SUBSET AllOnes) \X (0..n)
             f == [at \in P |-> g[n - at[2]][at[1]]]
  <2>1. ASSUME NEW at \in P
        PROVE  f[at] = IF at[2] = n THEN at[1]
                       ELSE f[<<ShiftedIn(at[1], at[2] \in S), at[2] + 1>>]
    <3>1. PICK v \in Words, k \in 0..n : at = <<v, k>> BY SMTT(30) DEF Words
    <3>2. f[at] = g[n - k][v] BY <3>1
    <3>3. CASE k = n
      <4>1. n - k = 0 BY <3>3
      <4>. HIDE DEF f
      <4>. QED BY <3>1, <3>2, <3>3, <4>1, <1>4
    <3>4. CASE k # n
      <4>1. /\ n - k \in 1..n /\ (n - k) - 1 = n - (k + 1) /\ n - (n - k) = k
            /\ k + 1 \in 0..n
        BY <3>4
      <4>2. (k \in S) \in BOOLEAN OBVIOUS
      <4>3. PICK x \in Words : x = ShiftedIn(v, k \in S) BY <4>2, ShiftingIn
      <4>4. <<x, k + 1>> \in P BY <4>1 DEF Words
      <4>5. f[<<x, k + 1>>] = g[n - (k + 1)][x] BY <4>4
      <4>6. g[n - k][v] = g[n - (k + 1)][x]
        <5>. HIDE DEF f, From, from
        <5>1. PICK j \in 1..n : j = n - k BY <4>1
        <5>2. j - 1 = n - (k + 1) /\ n - j = k BY <5>1, <4>1
        <5>3. g[j][v] = g[j - 1][ShiftedIn(v, n - j \in S)] BY <1>5
        <5>. QED BY <5>1, <5>2, <5>3, <4>3
      <4>. HIDE DEF f
      <4>. QED BY <3>1, <3>2, <3>4, <4>3, <4>5, <4>6
    <3>. QED BY <3>3, <3>4
  <2>2. f = [at \in P |-> f[at]] OBVIOUS
  <2>. HIDE DEF f
  <2>3. From(f) BY <2>1, <2>2
  <2>. QED BY <2>3
<1>7. From(from) BY <1>6
<1>8. Fed(w, S, n) = from[<<w, 0>>] BY DEF Fed
<1>. HIDE DEF from
<1>9. PICK f : f = from OBVIOUS
<1>10. ASSUME NEW v \in Words, NEW k \in 0..n
       PROVE  f[<<v, k>>] = IF k = n THEN v
                             ELSE f[<<ShiftedIn(v, k \in S), k + 1>>]
  <2>1. <<v, k>> \in (SUBSET AllOnes) \X (0..n) BY DEF Words
  <2>. QED BY <1>7, <1>9, <2>1
<1>11. Fed(w, S, n) = f[<<w, 0>>] BY <1>8, <1>9
<1>. HIDE DEF From
<1> DEFINE I == {k \in Nat : k <= n => f[<<w, 0>>] = f[<<t[k], k>>]}
<1>12. 0 \in I BY DEF Feeds
<1>13. ASSUME NEW k \in I PROVE k + 1 \in I
  <2>. SUFFICES ASSUME k + 1 <= n PROVE f[<<w, 0>>] = f[<<t[k + 1], k + 1>>] OBVIOUS
  <2>1. k \in 0..n /\ k # n /\ k \in 0..n-1 /\ k <= n OBVIOUS
  <2>2. f[<<w, 0>>] = f[<<t[k], k>>] BY <2>1
  <2>3. t[k] \in Words /\ t[k + 1] = ShiftedIn(t[k], k \in S) BY <2>1 DEF Feeds
  <2>. HIDE DEF I
  <2>. QED BY <2>1, <2>2, <2>3, <1>10
<1>14. I \in SUBSET Nat OBVIOUS
<1>. HIDE DEF I
<1>15. n \in I BY <1>12, <1>13, <1>14, EveryNumber
<1>16. f[<<w, 0>>] = f[<<t[n], n>>] BY <1>15 DEF I
<1>17. t[n] \in Words /\ n \in 0..n
  <2>1. n \in 0..n OBVIOUS
  <2>. QED BY <2>1 DEF Feeds
<1>. QED BY <1>10, <1>11, <1>16, <1>17

(* Feeding is linear. *)
LEMMA FeedingIsLinear ==
    ASSUME NEW n \in Nat, NEW t, NEW w, NEW S, NEW u, NEW v, NEW R,
           Feeds(t, w, S, n), Feeds(u, v, R, n)
    PROVE  Feeds([k \in 0..n |-> Xor(t[k], u[k])], Xor(w, v), Xor(S, R), n)
<1> DEFINE d == [k \in 0..n |-> Xor(t[k], u[k])]
<1>1. \A k \in 0..n : t[k] \in Words /\ u[k] \in Words BY DEF Feeds
<1>2. d \in [0..n -> Words] BY <1>1, XorOfWords
<1>3. d[0] = Xor(w, v)
  <2>1. 0 \in 0..n OBVIOUS
  <2>. QED BY <2>1 DEF Feeds
<1>4. ASSUME NEW k \in 0..n-1 PROVE d[k + 1] = ShiftedIn(d[k], k \in Xor(S, R))
  <2>1. k \in 0..n /\ k + 1 \in 0..n OBVIOUS
  <2>2. d[k + 1] = Xor(t[k + 1], u[k + 1]) /\ d[k] = Xor(t[k], u[k]) BY <2>1
  <2>3. /\ t[k + 1] = ShiftedIn(t[k], k \in S)
        /\ u[k + 1] = ShiftedIn(u[k], k \in R)
    BY DEF Feeds
  <2>4. t[k] \in Words /\ u[k] \in Words BY <2>1, <1>1
  <2>5. (k \in S) \in BOOLEAN /\ (k \in R) \in BOOLEAN OBVIOUS
  <2>6. (k \in Xor(S, R)) = ~((k \in S) <=> (k \in R)) BY DEF Xor
  <2>7. Xor(ShiftedIn(t[k], k \in S), ShiftedIn(u[k], k \in R)) =
          ShiftedIn(Xor(t[k], u[k]), ~((k \in S) <=> (k \in R)))
    <3>1. PICK p \in BOOLEAN : p = (k \in S) BY <2>5
    <3>2. PICK q \in BOOLEAN : q = (k \in R) BY <2>5
    <3>3. PICK x \in Words, y \in Words : x = t[k] /\ y = u[k] BY <2>4
    <3>4. Xor(ShiftedIn(x, p), ShiftedIn(y, q)) = ShiftedIn(Xor(x, y), ~(p <=> q))
      BY ShiftingIn
    <3>. QED BY <3>1, <3>2, <3>3, <3>4
  <2>. HIDE DEF d
  <2>. QED BY <2>2, <2>3, <2>6, <2>7
<1>. HIDE DEF d
<1>5. Feeds(d, Xor(w, v), Xor(S, R), n) BY <1>2, <1>3, <1>4 DEF Feeds
<1>. QED BY <1>5 DEF d

(* Feeding goes on from any point. *)
LEMMA FeedingGoesOn ==
    ASSUME NEW m \in Nat, NEW n \in Nat, NEW t, NEW w, NEW S, Feeds(t, w, S, m + n)
    PROVE  Feeds([k \in 0..n |-> t[m + k]], t[m], {b \in 0..n-1 : m + b \in S}, n)
<1> DEFINE u == [k \in 0..n |-> t[m + k]]
<1>1. u \in [0..n -> Words]
  <2>1. \A k \in 0..n : m + k \in 0..(m + n) OBVIOUS
  <2>. QED BY <2>1 DEF Feeds
<1>2. u[0] = t[m]
  <2>1. 0 \in 0..n /\ m + 0 = m OBVIOUS
  <2>. QED BY <2>1
<1>3. ASSUME NEW k \in 0..n-1
      PROVE  u[k + 1] = ShiftedIn(u[k], k \in {b \in 0..n-1 : m + b \in S})
  <2>1. /\ k \in 0..n /\ k + 1 \in 0..n /\ m + k \in 0..(m + n)-1
        /\ m + (k + 1) = (m + k) + 1
    OBVIOUS
  <2>2. u[k] = t[m + k] /\ u[k + 1] = t[(m + k) + 1] BY <2>1
  <2>3. t[(m + k) + 1] = ShiftedIn(t[m + k], m + k \in S) BY <2>1 DEF Feeds
  <2>4. (k \in {b \in 0..n-1 : m + b \in S}) = (m + k \in S) OBVIOUS
  <2>. HIDE DEF u
  <2>. QED BY <2>2, <2>3, <2>4
<1>. HIDE DEF u
<1>4. Feeds(u, t[m], {b \in 0..n-1 : m + b \in S}, n) BY <1>1, <1>2, <1>3 DEF Feeds
<1>. QED BY <1>4 DEF u

(* A word that is fed its own bits is shifted out. *)
LEMMA OwnBitsShiftOut ==
    ASSUME NEW w \in Words, NEW S, NEW n \in Nat, NEW t, Feeds(t, w, S, n),
           NEW m \in 0..n, Agree(S, w, m)
    PROVE  t[m] = ShiftRight(w, m)
<1> DEFINE I == {k \in Nat : k <= m => t[k] = ShiftRight(w, k)}
<1>1. 0 \in I BY ShiftRightOfWords DEF Feeds
<1>2. ASSUME NEW k \in I PROVE k + 1 \in I
  <2>. SUFFICES ASSUME k + 1 <= m PROVE t[k + 1] = ShiftRight(w, k + 1) OBVIOUS
  <2>1. k \in 0..m-1 /\ k \in 0..n-1 /\ k <= m /\ k \in Nat /\ 0 + k = k /\ 0 \in Nat
    OBVIOUS
  <2>2. t[k] = ShiftRight(w, k) BY <2>1
  <2>3. t[k + 1] = ShiftedIn(t[k], k \in S) BY <2>1 DEF Feeds
  <2>4. 0 \in t[k] <=> k \in w
    <3>1. 0 \in ShiftRight(w, k) <=> 0 + k \in w BY <2>1, ShiftRightOfWords
    <3>. QED BY <3>1, <2>1, <2>2
  <2>5. k \in S <=> k \in w BY <2>1 DEF Agree
  <2>6. t[k + 1] = ShiftRight(t[k], 1) BY <2>3, <2>4, <2>5 DEF ShiftedIn
  <2>. HIDE DEF I
  <2>. QED BY <2>1, <2>2, <2>6, ShiftRightOfWords
<1>3. I \in SUBSET Nat OBVIOUS
<1>. HIDE DEF I
<1>4. m \in I BY <1>1, <1>2, <1>3, EveryNumber
<1>. QED BY <1>4 DEF I

LEMMA OwnBitsEmpty ==
    ASSUME NEW w \in Words, NEW S, NEW n \in Nat, NEW t, Feeds(t, w, S, n),
           Agree(S, w, n)
    PROVE  t[n] = ShiftRight(w, n)
<1>1. n \in 0..n OBVIOUS
<1>. QED BY <1>1, OwnBitsShiftOut

LEMMA NothingStaysNothing ==
    ASSUME NEW S, NEW n \in Nat, NEW t, Feeds(t, {}, S, n),
           NEW m \in 0..n, Agree(S, {}, m)
    PROVE  t[m] = {}
<1>1. {} \in Words BY DEF Words
<1>2. t[m] = ShiftRight({}, m) BY <1>1, OwnBitsShiftOut
<1>. QED BY <1>2 DEF ShiftRight

(* Only nothing becomes nothing when no bit is fed in. *)
LEMMA NothingComesOfNothing ==
    ASSUME NEW w \in Words, NEW S, NEW n \in Nat, NEW t, Feeds(t, w, S, n),
           NEW k \in 0..n, Silent(S, k, n), t[n] = {}
    PROVE  t[k] = {}
<1> DEFINE I == {j \in Nat : k <= n - j => t[n - j] = {}}
<1>1. 0 \in I BY DEF Feeds
<1>2. ASSUME NEW j \in I PROVE j + 1 \in I
  <2>. SUFFICES ASSUME k <= n - (j + 1) PROVE t[n - (j + 1)] = {} OBVIOUS
  <2>1. PICK i \in k..n-1 : i = n - (j + 1) OBVIOUS
  <2>2. i + 1 = n - j /\ k <= n - j /\ i \in 0..n-1 /\ i \in 0..n BY <2>1
  <2>3. t[i + 1] = {} BY <2>2
  <2>4. t[i + 1] = ShiftedIn(t[i], i \in S) /\ t[i] \in Words BY <2>2 DEF Feeds
  <2>5. (i \in S) = FALSE BY DEF Silent
  <2>6. ShiftedIn(t[i], FALSE) = {} BY <2>3, <2>4, <2>5
  <2>7. t[i] = {} BY <2>4, <2>6, NothingIsLost
  <2>. QED BY <2>1, <2>7
<1>3. I \in SUBSET Nat OBVIOUS
<1>. HIDE DEF I
<1>4. n - k \in Nat /\ n - (n - k) = k OBVIOUS
<1>5. n - k \in I BY <1>1, <1>2, <1>3, <1>4, EveryNumber
<1>. QED BY <1>4, <1>5 DEF I

-----------------------------------------------------------------------------
(* The bits of a byte. *)

Bytes == 0..255

LEMMA WeightsOfBits ==
    /\ Weight(0) = 1 /\ Weight(1) = 2 /\ Weight(2) = 4 /\ Weight(3) = 8
    /\ Weight(4) = 16 /\ Weight(5) = 32 /\ Weight(6) = 64 /\ Weight(7) = 128
BY DEF Weight

LEMMA BitsOfByte ==
    ASSUME NEW v \in Bytes
    PROVE  /\ BitsOf(v) \subseteq 0..7
           /\ 0 \in BitsOf(v) <=> (v \div 1) % 2 = 1
           /\ 1 \in BitsOf(v) <=> (v \div 2) % 2 = 1
           /\ 2 \in BitsOf(v) <=> (v \div 4) % 2 = 1
           /\ 3 \in BitsOf(v) <=> (v \div 8) % 2 = 1
           /\ 4 \in BitsOf(v) <=> (v \div 16) % 2 = 1
           /\ 5 \in BitsOf(v) <=> (v \div 32) % 2 = 1
           /\ 6 \in BitsOf(v) <=> (v \div 64) % 2 = 1
           /\ 7 \in BitsOf(v) <=> (v \div 128) % 2 = 1
<1>1. ASSUME NEW b \in 0..7
      PROVE  b \in BitsOf(v) <=> (v \div Weight(b)) % 2 = 1
  BY DEF BitsOf
<1>2. /\ 0 \in 0..7 /\ 1 \in 0..7 /\ 2 \in 0..7 /\ 3 \in 0..7
      /\ 4 \in 0..7 /\ 5 \in 0..7 /\ 6 \in 0..7 /\ 7 \in 0..7
  OBVIOUS
<1>3. BitsOf(v) \subseteq 0..7 BY DEF BitsOf
<1>4. 0 \in BitsOf(v) <=> (v \div 1) % 2 = 1 BY <1>1, <1>2, WeightsOfBits
<1>5. 1 \in BitsOf(v) <=> (v \div 2) % 2 = 1 BY <1>1, <1>2, WeightsOfBits
<1>6. 2 \in BitsOf(v) <=> (v \div 4) % 2 = 1 BY <1>1, <1>2, WeightsOfBits
<1>7. 3 \in BitsOf(v) <=> (v \div 8) % 2 = 1 BY <1>1, <1>2, WeightsOfBits
<1>8. 4 \in BitsOf(v) <=> (v \div 16) % 2 = 1 BY <1>1, <1>2, WeightsOfBits
<1>9. 5 \in BitsOf(v) <=> (v \div 32) % 2 = 1 BY <1>1, <1>2, WeightsOfBits
<1>10. 6 \in BitsOf(v) <=> (v \div 64) % 2 = 1 BY <1>1, <1>2, WeightsOfBits
<1>11. 7 \in BitsOf(v) <=> (v \div 128) % 2 = 1 BY <1>1, <1>2, WeightsOfBits
<1>. QED BY <1>3, <1>4, <1>5, <1>6, <1>7, <1>8, <1>9, <1>10, <1>11

(* Eight bits, and the number they make. *)
Binary(v, a, b, c, d, e, f, g, h) ==
    /\ {a, b, c, d, e, f, g, h} \subseteq 0..1
    /\ v = a + 2*b + 4*c + 8*d + 16*e + 32*f + 64*g + 128*h

LEMMA DigitsOfSum ==
    ASSUME NEW v, NEW a, NEW b, NEW c, NEW d, NEW e, NEW f, NEW g, NEW h,
           Binary(v, a, b, c, d, e, f, g, h)
    PROVE  /\ v \in 0..255
           /\ (v \div 1) % 2 = a /\ (v \div 2) % 2 = b
           /\ (v \div 4) % 2 = c /\ (v \div 8) % 2 = d
           /\ (v \div 16) % 2 = e /\ (v \div 32) % 2 = f
           /\ (v \div 64) % 2 = g /\ (v \div 128) % 2 = h
<1>0. /\ a \in 0..1 /\ b \in 0..1 /\ c \in 0..1 /\ d \in 0..1
      /\ e \in 0..1 /\ f \in 0..1 /\ g \in 0..1 /\ h \in 0..1
      /\ v = a + 2*b + 4*c + 8*d + 16*e + 32*f + 64*g + 128*h
  BY DEF Binary
<1>. USE <1>0
<1>1. v \in 0..255 OBVIOUS
<1>2. (v \div 1) % 2 = a
  <2>1. v \div 1 = v OBVIOUS
  <2>2. v = 2 * (b + 2*c + 4*d + 8*e + 16*f + 32*g + 64*h) + a OBVIOUS
  <2>. QED BY <2>1, <2>2
<1>3. (v \div 2) % 2 = b
  <2>1. v \div 2 = 2 * (c + 2*d + 4*e + 8*f + 16*g + 32*h) + b OBVIOUS
  <2>. QED BY <2>1
<1>4. (v \div 4) % 2 = c
  <2>1. v \div 4 = 2 * (d + 2*e + 4*f + 8*g + 16*h) + c OBVIOUS
  <2>. QED BY <2>1
<1>5. (v \div 8) % 2 = d
  <2>1. v \div 8 = 2 * (e + 2*f + 4*g + 8*h) + d OBVIOUS
  <2>. QED BY <2>1
<1>6. (v \div 16) % 2 = e
  <2>1. v \div 16 = 2 * (f + 2*g + 4*h) + e OBVIOUS
  <2>. QED BY <2>1
<1>7. (v \div 32) % 2 = f
  <2>1. v \div 32 = 2 * (g + 2*h) + f OBVIOUS
  <2>. QED BY <2>1
<1>8. (v \div 64) % 2 = g
  <2>1. v \div 64 = 2 * h + g OBVIOUS
  <2>. QED BY <2>1
<1>9. (v \div 128) % 2 = h
  <2>1. v \div 128 = h OBVIOUS
  <2>. QED BY <2>1
<1>. QED BY <1>1, <1>2, <1>3, <1>4, <1>5, <1>6, <1>7, <1>8, <1>9

LEMMA SumOfDigits ==
    ASSUME NEW v \in Bytes
    PROVE  v = ((v \div 1) % 2) + 2 * ((v \div 2) % 2) + 4 * ((v \div 4) % 2)
               + 8 * ((v \div 8) % 2) + 16 * ((v \div 16) % 2)
               + 32 * ((v \div 32) % 2) + 64 * ((v \div 64) % 2)
               + 128 * ((v \div 128) % 2)
<1>1. v \in 0..255 BY DEF Bytes
<1>2. v \div 1 = v BY <1>1
<1>3. v \div 2 = 2 * (v \div 4) + ((v \div 2) % 2) BY <1>1
<1>4. v \div 4 = 2 * (v \div 8) + ((v \div 4) % 2) BY <1>1
<1>5. v \div 8 = 2 * (v \div 16) + ((v \div 8) % 2) BY <1>1
<1>6. v \div 16 = 2 * (v \div 32) + ((v \div 16) % 2) BY <1>1
<1>7. v \div 32 = 2 * (v \div 64) + ((v \div 32) % 2) BY <1>1
<1>8. v \div 64 = 2 * (v \div 128) + ((v \div 64) % 2) BY <1>1
<1>9. v \div 128 = (v \div 128) % 2 BY <1>1
<1>10. v = 2 * (v \div 2) + (v % 2) BY <1>1
<1>. QED BY <1>1, <1>2, <1>3, <1>4, <1>5, <1>6, <1>7, <1>8, <1>9, <1>10

(* A byte and the set of its bits say the same. *)
LEMMA BytesAreBits ==
    /\ \A S : NumberOf(S) \in Bytes
    /\ \A S \in SUBSET (0..7) : BitsOf(NumberOf(S)) = S
    /\ \A v \in Bytes : NumberOf(BitsOf(v)) = v
<1> DEFINE digit(S, b) == IF b \in S THEN 1 ELSE 0
<1>1. ASSUME NEW S
      PROVE  NumberOf(S) = digit(S, 0) + 2 * digit(S, 1) + 4 * digit(S, 2)
                           + 8 * digit(S, 3) + 16 * digit(S, 4) + 32 * digit(S, 5)
                           + 64 * digit(S, 6) + 128 * digit(S, 7)
  BY WeightsOfBits DEF NumberOf
<1>2. \A S : \A b : digit(S, b) \in 0..1 /\ (digit(S, b) = 1 <=> b \in S)
  OBVIOUS
<1>. HIDE DEF digit
<1>3. ASSUME NEW S
      PROVE  /\ NumberOf(S) \in Bytes
             /\ (NumberOf(S) \div 1) % 2 = digit(S, 0)
             /\ (NumberOf(S) \div 2) % 2 = digit(S, 1)
             /\ (NumberOf(S) \div 4) % 2 = digit(S, 2)
             /\ (NumberOf(S) \div 8) % 2 = digit(S, 3)
             /\ (NumberOf(S) \div 16) % 2 = digit(S, 4)
             /\ (NumberOf(S) \div 32) % 2 = digit(S, 5)
             /\ (NumberOf(S) \div 64) % 2 = digit(S, 6)
             /\ (NumberOf(S) \div 128) % 2 = digit(S, 7)
  <2>1. PICK a \in 0..1, b \in 0..1, c \in 0..1, d \in 0..1,
             e \in 0..1, f \in 0..1, g \in 0..1, h \in 0..1 :
          /\ a = digit(S, 0) /\ b = digit(S, 1) /\ c = digit(S, 2) /\ d = digit(S, 3)
          /\ e = digit(S, 4) /\ f = digit(S, 5) /\ g = digit(S, 6) /\ h = digit(S, 7)
    BY <1>2
  <2>2. PICK v : Binary(v, a, b, c, d, e, f, g, h)
    BY DEF Binary
  <2>3. NumberOf(S) = v BY <1>1, <2>1, <2>2 DEF Binary
  <2>4. /\ v \in 0..255
        /\ (v \div 1) % 2 = a /\ (v \div 2) % 2 = b
        /\ (v \div 4) % 2 = c /\ (v \div 8) % 2 = d
        /\ (v \div 16) % 2 = e /\ (v \div 32) % 2 = f
        /\ (v \div 64) % 2 = g /\ (v \div 128) % 2 = h
    BY <2>2, DigitsOfSum
  <2>. QED BY <2>1, <2>3, <2>4 DEF Bytes
<1>4. ASSUME NEW S \in SUBSET (0..7) PROVE BitsOf(NumberOf(S)) = S
  <2>1. PICK v \in Bytes : v = NumberOf(S) BY <1>3
  <2>2. /\ 0 \in BitsOf(v) <=> 0 \in S BY <1>2, <1>3, <2>1, BitsOfByte
  <2>3. /\ 1 \in BitsOf(v) <=> 1 \in S BY <1>2, <1>3, <2>1, BitsOfByte
  <2>4. /\ 2 \in BitsOf(v) <=> 2 \in S BY <1>2, <1>3, <2>1, BitsOfByte
  <2>5. /\ 3 \in BitsOf(v) <=> 3 \in S BY <1>2, <1>3, <2>1, BitsOfByte
  <2>6. /\ 4 \in BitsOf(v) <=> 4 \in S BY <1>2, <1>3, <2>1, BitsOfByte
  <2>7. /\ 5 \in BitsOf(v) <=> 5 \in S BY <1>2, <1>3, <2>1, BitsOfByte
  <2>8. /\ 6 \in BitsOf(v) <=> 6 \in S BY <1>2, <1>3, <2>1, BitsOfByte
  <2>9. /\ 7 \in BitsOf(v) <=> 7 \in S BY <1>2, <1>3, <2>1, BitsOfByte
  <2>10. BitsOf(v) \subseteq 0..7 BY BitsOfByte
  <2>11. \A b \in 0..7 : b \in BitsOf(v) <=> b \in S
    BY <2>2, <2>3, <2>4, <2>5, <2>6, <2>7, <2>8, <2>9
  <2>12. BitsOf(v) = S BY <2>10, <2>11
  <2>. QED BY <2>1, <2>12
<1>5. ASSUME NEW v \in Bytes PROVE NumberOf(BitsOf(v)) = v
  <2>1. PICK S : S = BitsOf(v) OBVIOUS
  <2>2. \A x \in Int : x % 2 \in 0..1 OBVIOUS
  <2>3. digit(S, 0) = (v \div 1) % 2 BY <1>2, <2>1, <2>2, BitsOfByte DEF Bytes
  <2>4. digit(S, 1) = (v \div 2) % 2 BY <1>2, <2>1, <2>2, BitsOfByte DEF Bytes
  <2>5. digit(S, 2) = (v \div 4) % 2 BY <1>2, <2>1, <2>2, BitsOfByte DEF Bytes
  <2>6. digit(S, 3) = (v \div 8) % 2 BY <1>2, <2>1, <2>2, BitsOfByte DEF Bytes
  <2>7. digit(S, 4) = (v \div 16) % 2 BY <1>2, <2>1, <2>2, BitsOfByte DEF Bytes
  <2>8. digit(S, 5) = (v \div 32) % 2 BY <1>2, <2>1, <2>2, BitsOfByte DEF Bytes
  <2>9. digit(S, 6) = (v \div 64) % 2 BY <1>2, <2>1, <2>2, BitsOfByte DEF Bytes
  <2>10. digit(S, 7) = (v \div 128) % 2 BY <1>2, <2>1, <2>2, BitsOfByte DEF Bytes
  <2>. QED BY <1>1, <2>1, <2>3, <2>4, <2>5, <2>6, <2>7, <2>8, <2>9, <2>10, SumOfDigits
<1>. QED BY <1>3, <1>4, <1>5

-----------------------------------------------------------------------------
(* The table, and a byte at a time. *)

LEMMA HalfStepsFeedNothing ==
    ASSUME NEW w \in Words, NEW n \in Nat, NEW t, Feeds(t, w, {}, n)
    PROVE  HalfSteps(w, n) = t[n]
<1> DEFINE After(f) == f = [j \in 0..n |-> IF j = 0 THEN w ELSE HalfStep(f[j - 1])]
           after == CHOOSE f : After(f)
<1>1. \A k \in 0..n : t[k] \in Words BY DEF Feeds
<1>2. ASSUME NEW v, NEW k PROVE ShiftedIn(v, k \in {}) = HalfStep(v)
  <2>1. (k \in {}) = FALSE OBVIOUS
  <2>2. CASE 0 \in v BY <2>1, <2>2 DEF ShiftedIn, HalfStep
  <2>3. CASE 0 \notin v BY <2>1, <2>3 DEF ShiftedIn, HalfStep
  <2>. QED BY <2>2, <2>3
<1>3. ASSUME NEW k \in 0..n PROVE t[k] = IF k = 0 THEN w ELSE HalfStep(t[k - 1])
  <2>1. CASE k = 0 BY <2>1 DEF Feeds
  <2>2. CASE k # 0
    <3>1. k - 1 \in 0..n-1 /\ (k - 1) + 1 = k BY <2>2
    <3>2. t[k] = ShiftedIn(t[k - 1], k - 1 \in {}) BY <3>1 DEF Feeds
    <3>. QED BY <2>2, <3>2, <1>2
  <2>. QED BY <2>1, <2>2
<1>4. t = [k \in 0..n |-> t[k]] BY DEF Feeds
<1>5. After(t) BY <1>3, <1>4
<1>6. After(after) BY <1>5
<1>7. HalfSteps(w, n) = after[n] BY DEF HalfSteps
<1>. HIDE DEF after
<1>8. PICK f : f = after OBVIOUS
<1>9. \A j \in 0..n : f[j] = IF j = 0 THEN w ELSE HalfStep(f[j - 1]) BY <1>6, <1>8
<1>. HIDE DEF After
<1> DEFINE I == {k \in Nat : k <= n => f[k] = t[k]}
<1>10. 0 \in I
  <2>1. 0 \in 0..n OBVIOUS
  <2>. QED BY <2>1, <1>3, <1>9
<1>11. ASSUME NEW k \in I PROVE k + 1 \in I
  <2>. SUFFICES ASSUME k + 1 <= n PROVE f[k + 1] = t[k + 1] OBVIOUS
  <2>1. k + 1 \in 0..n /\ k + 1 # 0 /\ (k + 1) - 1 = k /\ k <= n OBVIOUS
  <2>2. f[k + 1] = HalfStep(f[k]) BY <2>1, <1>9
  <2>3. t[k + 1] = HalfStep(t[k]) BY <2>1, <1>3
  <2>4. f[k] = t[k] BY <2>1
  <2>. QED BY <2>2, <2>3, <2>4
<1>12. I \in SUBSET Nat OBVIOUS
<1>. HIDE DEF I
<1>13. n \in I BY <1>10, <1>11, <1>12, EveryNumber
<1>14. f[n] = t[n] BY <1>13 DEF I
<1>. QED BY <1>7, <1>8, <1>14

(* The byte step of both senders feeds the byte's eight bits. *)
LEMMA NextCrcFeedsByte ==
    ASSUME NEW w \in Words, NEW v \in Bytes, NEW t, Feeds(t, w, BitsOf(v), 8)
    PROVE  NextCrc(w, v) = t[8]
<1> DEFINE x == Xor(w, BitsOf(v)) \cap 0..7
<1>1. PICK B \in SUBSET (0..7) : B = BitsOf(v) BY BitsOfByte
<1>2. B \in Words BY DEF Words, AllOnes
<1>3. x \in Words /\ x \in SUBSET (0..7) BY DEF Words, AllOnes
<1>4. crc_table[x] = HalfSteps(x, 8) BY <1>3 DEF crc_table
<1>5. PICK z : Feeds(z, x, {}, 8) BY <1>3, FeedingExists
<1>6. crc_table[x] = z[8] BY <1>3, <1>4, <1>5, HalfStepsFeedNothing
<1> DEFINE y == Xor(w, x)
<1>7. y \in Words BY <1>3, XorOfWords
<1>8. PICK u : Feeds(u, y, B, 8) BY <1>7, FeedingExists
<1>9. u[8] = ShiftRight(w, 8)
  <2>1. \A b \in 0..7 : b \in B <=> b \in y BY <1>1 DEF Xor
  <2>2. 8 \in Nat /\ 8 \in 0..8 /\ 0..8-1 = 0..7 OBVIOUS
  <2>3. \A b \in Nat : b >= 8 => (b \in y <=> b \in w)
    <3>1. \A b \in Nat : b >= 8 => b \notin 0..7 OBVIOUS
    <3>. QED BY <3>1 DEF Xor
  <2>. HIDE DEF x, y
  <2>4. u[8] = ShiftRight(y, 8)
    <3>1. PICK n \in Nat : n = 8 /\ n \in 0..n OBVIOUS
    <3>2. Feeds(u, y, B, n) /\ Agree(B, y, n) BY <3>1, <2>1, <1>8 DEF Agree
    <3>3. u[n] = ShiftRight(y, n) BY <3>1, <3>2, <1>7, OwnBitsShiftOut
    <3>. QED BY <3>1, <3>3
  <2>5. ASSUME NEW b \in Nat PROVE b \in ShiftRight(y, 8) <=> b \in ShiftRight(w, 8)
    <3>1. b + 8 \in Nat /\ b + 8 >= 8 OBVIOUS
    <3>2. b \in ShiftRight(y, 8) <=> b + 8 \in y BY <1>7, <2>2, ShiftRightOfWords
    <3>3. b \in ShiftRight(w, 8) <=> b + 8 \in w BY <2>2, ShiftRightOfWords
    <3>. QED BY <3>1, <3>2, <3>3, <2>3
  <2>6. ShiftRight(y, 8) \in Words /\ ShiftRight(w, 8) \in Words
    BY <2>2, <1>7, ShiftRightOfWords
  <2>7. ShiftRight(y, 8) \subseteq Nat /\ ShiftRight(w, 8) \subseteq Nat
    BY <2>6 DEF Words, AllOnes
  <2>. QED BY <2>4, <2>5, <2>7
<1>10. w = Xor(x, y) /\ B = Xor({}, B)
  BY DEF Xor
<1>. HIDE DEF x, y
<1> DEFINE d == [k \in 0..8 |-> Xor(z[k], u[k])]
<1>11. Feeds(d, w, B, 8)
  <2>1. 8 \in Nat OBVIOUS
  <2>. QED BY <2>1, <1>5, <1>8, <1>10, FeedingIsLinear
<1>12. d[8] = Xor(z[8], u[8])
  <2>1. 8 \in 0..8 OBVIOUS
  <2>. QED BY <2>1
<1>. HIDE DEF d
<1>13. t[8] = d[8]
  <2>1. PICK n \in Nat : n = 8 /\ n \in 0..n OBVIOUS
  <2>2. Agree(B, B, n) BY DEF Agree
  <2>3. Feeds(t, w, B, n) /\ Feeds(d, w, B, n) BY <2>1, <1>1, <1>11
  <2>4. t[n] = d[n] BY <2>1, <2>2, <2>3, FeedingIsUnique
  <2>. QED BY <2>1, <2>4
<1>. QED BY <1>6, <1>9, <1>12, <1>13 DEF NextCrc, x

-----------------------------------------------------------------------------
(* The bits of a message. *)

LEMMA BytesOfMessage ==
    ASSUME NEW bytes \in Seq(Bytes), NEW n \in Nat, Len(bytes) = n
    PROVE  DOMAIN bytes = 1..n /\ \A k \in 1..n : bytes[k] \in Bytes
OBVIOUS

LEMMA PartOfMessage ==
    ASSUME NEW bytes \in Seq(Bytes), NEW n \in Nat, Len(bytes) = n,
           NEW i \in 1..n, NEW j \in i..n, NEW m \in Nat, m = j - i + 1
    PROVE  /\ SubSeq(bytes, i, j) \in Seq(Bytes) /\ Len(SubSeq(bytes, i, j)) = m
           /\ \A k \in 1..m : SubSeq(bytes, i, j)[k] = bytes[i + k - 1]
OBVIOUS

LEMMA MessageOfBytes ==
    ASSUME NEW n \in Nat, NEW bytes \in [1..n -> Bytes]
    PROVE  bytes \in Seq(Bytes) /\ Len(bytes) = n
OBVIOUS

LEMMA SameMessage ==
    ASSUME NEW n \in Nat, NEW a \in Seq(Bytes), NEW b \in Seq(Bytes),
           Len(a) = n, Len(b) = n, \A k \in 1..n : a[k] = b[k]
    PROVE  a = b
OBVIOUS

LEMMA BitsOfMessage ==
    ASSUME NEW bytes \in Seq(Bytes), NEW n \in Nat, Len(bytes) = n
    PROVE  /\ Bits(bytes) \subseteq 0..8*n-1
           /\ \A m \in 0..n-1, b \in 0..7 :
                8*m + b \in Bits(bytes) <=> b \in BitsOf(bytes[m + 1])
<1>1. Bits(bytes) = {k \in 0..8*n-1 : k % 8 \in BitsOf(bytes[(k \div 8) + 1])}
  BY DEF Bits
<1>2. ASSUME NEW m \in 0..n-1, NEW b \in 0..7
      PROVE  8*m + b \in 0..8*n-1 /\ (8*m + b) % 8 = b /\ (8*m + b) \div 8 = m
  OBVIOUS
<1>. QED BY <1>1, <1>2

(* After each byte the checksum is that of the bits so far. *)
LEMMA ChecksumGoesOn ==
    ASSUME NEW bytes \in Seq(Bytes), NEW n \in Nat, Len(bytes) = n, NEW m \in 0..n-1
    PROVE  /\ Fed(AllOnes, Bits(bytes), 8*m) \in Words
           /\ NextCrc(Fed(AllOnes, Bits(bytes), 8*m), bytes[m + 1]) =
                Fed(AllOnes, Bits(bytes), 8*(m + 1))
<1> DEFINE S == Bits(bytes)
<1>1. AllOnes \in Words BY DEF Words
<1>2. 8*m \in Nat /\ 8*m + 8 \in Nat /\ 8*(m + 1) = 8*m + 8 /\ 8 \in Nat OBVIOUS
<1>3. PICK i \in Nat : i = 8*m BY <1>2
<1>4. i + 8 \in Nat /\ i \in 0..i /\ i <= i /\ i <= i + 8 BY <1>3
<1>. HIDE DEF S
<1>5. PICK t : Feeds(t, AllOnes, S, i) BY <1>1, FeedingExists
<1>6. PICK u : Feeds(u, AllOnes, S, i + 8) BY <1>1, <1>4, FeedingExists
<1>7. Fed(AllOnes, S, i) = t[i] BY <1>1, <1>5, FedIsFeeding
<1>8. Fed(AllOnes, S, i + 8) = u[i + 8] BY <1>1, <1>4, <1>6, FedIsFeeding
<1>9. t[i] = u[i]
  <2>1. i \in 0..i /\ i \in 0..i+8 /\ Agree(S, S, i) BY <1>4 DEF Agree
  <2>. QED BY <2>1, <1>4, <1>5, <1>6, FeedingIsUnique
<1>10. u[i] \in Words BY <1>4, <1>5, <1>9 DEF Feeds
<1> DEFINE R == {b \in 0..8-1 : i + b \in S}
           d == [k \in 0..8 |-> u[i + k]]
<1>11. Feeds(d, u[i], R, 8) BY <1>2, <1>6, FeedingGoesOn
<1>12. bytes[m + 1] \in Bytes
  <2>1. m + 1 \in 1..n OBVIOUS
  <2>. QED BY <2>1
<1>13. R = BitsOf(bytes[m + 1])
  <2>1. \A b \in 0..7 : 8*m + b \in S <=> b \in BitsOf(bytes[m + 1])
    BY BitsOfMessage DEF S
  <2>2. BitsOf(bytes[m + 1]) \subseteq 0..7 BY <1>12, BitsOfByte
  <2>. QED BY <2>1, <2>2, <1>3
<1>14. d[8] = u[i + 8]
  <2>1. 8 \in 0..8 OBVIOUS
  <2>. QED BY <2>1
<1>. HIDE DEF d, R
<1>15. NextCrc(u[i], bytes[m + 1]) = d[8]
  BY <1>10, <1>11, <1>12, <1>13, NextCrcFeedsByte
<1>. QED BY <1>2, <1>3, <1>7, <1>8, <1>9, <1>10, <1>14, <1>15 DEF S

(* The robot accepts a message whose last bits are the checksum of the others. *)
EndsWith(a, word) == \A c \in 0..31 : 224 + c \in Bits(a) <=> c \in word

LEMMA AcceptedByBits ==
    ASSUME NEW a \in Seq(Bytes), Len(a) = 32, NEW t, Feeds(t, AllOnes, Bits(a), 256)
    PROVE  Accepted(a) <=> EndsWith(a, Xor(t[224], AllOnes))
<1>1. PICK s \in Seq(Bytes) :
        s = SubSeq(a, 1, 28) /\ Len(s) = 28 /\ \A k \in 1..28 : s[k] = a[k]
  <2>1. PICK n \in Nat : n = 32 /\ 1 \in 1..n /\ 28 \in 1..n /\ Len(a) = n OBVIOUS
  <2>2. PICK m \in Nat : m = 28 /\ m = 28 - 1 + 1 /\ 28 \in Nat OBVIOUS
  <2>3. /\ SubSeq(a, 1, 28) \in Seq(Bytes) /\ Len(SubSeq(a, 1, 28)) = m
        /\ \A k \in 1..m : SubSeq(a, 1, 28)[k] = a[1 + k - 1]
    BY <2>1, <2>2, PartOfMessage, ZenonT(40)
  <2>4. \A k \in 1..28 : 1 + k - 1 = k OBVIOUS
  <2>5. \A k \in 1..28 : SubSeq(a, 1, 28)[k] = a[k]
    <3>1. PICK r : r = SubSeq(a, 1, 28) OBVIOUS
    <3>2. \A k \in 1..m : r[k] = a[1 + k - 1] BY <2>3, <3>1
    <3>. QED BY <2>2, <2>4, <3>1, <3>2
  <2>. QED BY <2>2, <2>3, <2>5, ZenonT(40)
<1>2. PICK q \in Seq(Bytes) :
        q = SubSeq(a, 29, 32) /\ Len(q) = 4 /\ \A k \in 1..4 : q[k] = a[28 + k]
  <2>1. PICK n \in Nat : n = 32 /\ 29 \in 1..n /\ 32 \in 29..n /\ Len(a) = n OBVIOUS
  <2>2. PICK m \in Nat : m = 4 /\ m = 32 - 29 + 1 OBVIOUS
  <2>3. /\ SubSeq(a, 29, 32) \in Seq(Bytes) /\ Len(SubSeq(a, 29, 32)) = m
        /\ \A k \in 1..m : SubSeq(a, 29, 32)[k] = a[29 + k - 1]
    BY <2>1, <2>2, PartOfMessage, ZenonT(40)
  <2>4. \A k \in 1..4 : 29 + k - 1 = 28 + k OBVIOUS
  <2>5. \A k \in 1..4 : SubSeq(a, 29, 32)[k] = a[28 + k]
    <3>1. PICK r : r = SubSeq(a, 29, 32) OBVIOUS
    <3>2. \A k \in 1..m : r[k] = a[29 + k - 1] BY <2>3, <3>1
    <3>. QED BY <2>2, <2>4, <3>1, <3>2
  <2>. QED BY <2>2, <2>3, <2>5
<1>3. AllOnes \in Words BY DEF Words
<1>4. PICK body \in Nat : body = 224 OBVIOUS
<1>5. PICK whole \in Nat : whole = 256 /\ body \in 0..whole /\ body \in 0..body BY <1>4
<1>6. PICK u : Feeds(u, AllOnes, Bits(s), body) BY <1>3, FeedingExists
<1>7. u[224] = t[224]
  <2>1. ASSUME NEW n \in 0..224-1 PROVE n \in Bits(s) <=> n \in Bits(a)
    <3>1. PICK m \in 0..27, b \in 0..7 : n = 8*m + b
      <4>1. n \div 8 \in 0..27 /\ n % 8 \in 0..7 /\ n = 8 * (n \div 8) + (n % 8)
        OBVIOUS
      <4>. QED BY <4>1
    <3>2. m \in 0..28-1 /\ m \in 0..32-1 /\ m + 1 \in 1..28 /\ 28 \in Nat /\ 32 \in Nat
      OBVIOUS
    <3>3. n \in Bits(s) <=> b \in BitsOf(s[m + 1])
      BY <3>1, <3>2, <1>1, BitsOfMessage, ZenonT(40)
    <3>4. n \in Bits(a) <=> b \in BitsOf(a[m + 1])
      BY <3>1, <3>2, BitsOfMessage, ZenonT(40)
    <3>. QED BY <3>2, <3>3, <3>4, <1>1
  <2>2. Agree(Bits(s), Bits(a), body) BY <2>1, <1>4 DEF Agree
  <2>3. Feeds(t, AllOnes, Bits(a), whole) BY <1>5
  <2>4. u[body] = t[body] BY <2>2, <2>3, <1>5, <1>6, FeedingIsUnique
  <2>. QED BY <2>4, <1>4
<1>8. Fed(AllOnes, Bits(s), 224) = t[224]
  <2>1. Fed(AllOnes, Bits(s), body) = u[body] BY <1>3, <1>6, FedIsFeeding
  <2>. QED BY <2>1, <1>4, <1>7
<1>9. PICK C : C = Xor(t[224], AllOnes) OBVIOUS
<1>10. C \in Words
  <2>1. 224 \in 0..body BY <1>4
  <2>2. t[224] \in Words BY <2>1, <1>6, <1>7 DEF Feeds
  <2>. QED BY <2>2, <1>3, <1>9, XorOfWords
<1>11. Crc32Of(s) = C
  <2>1. 8 * Len(s) = 224 BY <1>1
  <2>. QED BY <2>1, <1>8, <1>9 DEF Crc32Of
<1>12. Accepted(a) <=> \A k \in 1..4 : a[28 + k] = BytesOf(C)[k]
  <2>1. Accepted(a) <=> q = BytesOf(C) BY <1>1, <1>2, <1>11 DEF Accepted
  <2>2. q = [k \in 1..4 |-> q[k]] BY <1>2
  <2>3. BytesOf(C) = [k \in 1..4 |-> BytesOf(C)[k]] BY DEF BytesOf
  <2>4. q = BytesOf(C) <=> \A k \in 1..4 : q[k] = BytesOf(C)[k] BY <2>2, <2>3
  <2>. QED BY <2>1, <2>4, <1>2
<1>13. ASSUME NEW k \in 1..4
       PROVE  a[28 + k] = BytesOf(C)[k] <=>
                \A b \in 0..7 : 224 + (8*(k - 1) + b) \in Bits(a) <=> 8*(k - 1) + b \in C
  <2>1. 28 + k \in 1..32 /\ 27 + k \in 0..32-1 /\ (27 + k) + 1 = 28 + k /\ 32 \in Nat
    OBVIOUS
  <2>2. a[28 + k] \in Bytes BY <2>1, BytesOfMessage
  <2>3. PICK v \in Bytes : v = a[28 + k] BY <2>2
  <2>4. PICK i \in Nat : i = 8*(k - 1)
    <3>1. 8*(k - 1) \in Nat OBVIOUS
    <3>. QED BY <3>1
  <2>5. PICK B \in SUBSET (0..7) : B = ShiftRight(C, i) \cap 0..7 OBVIOUS
  <2>6. BytesOf(C)[k] = NumberOf(B) BY <2>4, <2>5 DEF BytesOf
  <2>7. v = NumberOf(B) <=> BitsOf(v) = B BY BytesAreBits
  <2>8. BitsOf(v) = B <=> \A b \in 0..7 : b \in BitsOf(v) <=> b \in B BY BitsOfByte
  <2>9. ASSUME NEW b \in 0..7
        PROVE  /\ b \in BitsOf(v) <=> 224 + (i + b) \in Bits(a)
               /\ b \in B <=> i + b \in C
    <3>1. 8*(27 + k) + b = 224 + (i + b) BY <2>4
    <3>2. 8*(27 + k) + b \in Bits(a) <=> b \in BitsOf(a[(27 + k) + 1])
      BY <2>1, BitsOfMessage, ZenonT(40)
    <3>3. b \in ShiftRight(C, i) <=> b + i \in C BY <1>10, ShiftRightOfWords
    <3>4. b + i = i + b OBVIOUS
    <3>. QED BY <2>1, <2>3, <2>5, <3>1, <3>2, <3>3, <3>4
  <2>. QED BY <2>3, <2>4, <2>6, <2>7, <2>8, <2>9, ZenonT(40)
<1>14. ASSUME NEW c \in 0..31
       PROVE  \E k \in 1..4, b \in 0..7 : c = 8*(k - 1) + b
  <2>1. /\ (c \div 8) + 1 \in 1..4 /\ c % 8 \in 0..7
        /\ c = 8 * (((c \div 8) + 1) - 1) + (c % 8)
    OBVIOUS
  <2>. QED BY <2>1
<1>15. \A k \in 1..4, b \in 0..7 : 8*(k - 1) + b \in 0..31 OBVIOUS
<1>16. Accepted(a) <=> \A c \in 0..31 : 224 + c \in Bits(a) <=> c \in C
  <2>1. ASSUME Accepted(a), NEW c \in 0..31 PROVE 224 + c \in Bits(a) <=> c \in C
    <3>1. PICK k \in 1..4, b \in 0..7 : c = 8*(k - 1) + b BY <1>14
    <3>. QED BY <2>1, <3>1, <1>12, <1>13
  <2>2. ASSUME \A c \in 0..31 : 224 + c \in Bits(a) <=> c \in C PROVE Accepted(a)
    BY <2>2, <1>12, <1>13, <1>15
  <2>. QED BY <2>1, <2>2
<1>. QED BY <1>9, <1>16 DEF EndsWith

(* Damage flips bits. *)
LEMMA DamageFlips ==
    ASSUME NEW a \in Seq(Bytes), Len(a) = 32, NEW burst
    PROVE  /\ Damaged(a, burst) \in Seq(Bytes) /\ Len(Damaged(a, burst)) = 32
           /\ \A n \in 0..255 :
                n \in Xor(Bits(a), Bits(Damaged(a, burst))) <=> n \in burst
           /\ burst = {} => Damaged(a, burst) = a
<1> DEFINE d == Damaged(a, burst)
           flipped(k) == {b \in 0..7 : 8 * (k - 1) + b \in burst}
<1>0. PICK len \in Nat : len = 32 OBVIOUS
<1>1. DOMAIN a = 1..32 BY <1>0, BytesOfMessage
<1>2. d = [k \in 1..32 |-> NumberOf(Xor(BitsOf(a[k]), flipped(k)))]
  BY <1>1 DEF Damaged
<1>. HIDE DEF d
<1>3. \A k \in 1..32 : a[k] \in Bytes BY <1>0, BytesOfMessage
<1>4. d \in Seq(Bytes) /\ Len(d) = 32
  <2>1. d \in [1..len -> Bytes] BY <1>0, <1>2, BytesAreBits
  <2>. QED BY <2>1, <1>0, MessageOfBytes
<1>5. ASSUME NEW n \in 0..255 PROVE n \in Xor(Bits(a), Bits(d)) <=> n \in burst
  <2>1. PICK m \in 0..31, b \in 0..7 : n = 8*m + b
    <3>1. n \div 8 \in 0..31 /\ n % 8 \in 0..7 /\ n = 8 * (n \div 8) + (n % 8)
      OBVIOUS
    <3>. QED BY <3>1
  <2>2. m \in 0..32-1 /\ m + 1 \in 1..32 /\ (m + 1) - 1 = m /\ 32 \in Nat OBVIOUS
  <2>3. n \in Bits(a) <=> b \in BitsOf(a[m + 1])
    BY <2>1, <2>2, BitsOfMessage, ZenonT(40)
  <2>4. n \in Bits(d) <=> b \in BitsOf(d[m + 1])
    BY <2>1, <2>2, <1>4, BitsOfMessage, ZenonT(40)
  <2>5. PICK A \in SUBSET (0..7) : A = BitsOf(a[m + 1])
    BY <2>2, <1>3, BitsOfByte
  <2>6. PICK F \in SUBSET (0..7) : F = flipped(m + 1) OBVIOUS
  <2>7. Xor(A, F) \in SUBSET (0..7) BY DEF Xor
  <2>8. d[m + 1] = NumberOf(Xor(A, F)) BY <1>2, <2>2, <2>5, <2>6
  <2>9. BitsOf(d[m + 1]) = Xor(A, F) BY <2>7, <2>8, BytesAreBits
  <2>10. b \in F <=> n \in burst BY <2>1, <2>2, <2>6
  <2>. QED BY <2>3, <2>4, <2>5, <2>9, <2>10 DEF Xor
<1>6. ASSUME burst = {} PROVE d = a
  <2>1. ASSUME NEW k \in 1..32 PROVE d[k] = a[k]
    <3>1. flipped(k) = {} BY <1>6
    <3>2. Xor(BitsOf(a[k]), {}) = BitsOf(a[k]) BY DEF Xor
    <3>3. d[k] = NumberOf(BitsOf(a[k])) BY <1>2, <3>1, <3>2
    <3>. QED BY <3>3, <1>3, BytesAreBits
  <2>2. a = [k \in 1..32 |-> a[k]] BY <1>1
  <2>3. d = [k \in 1..32 |-> d[k]] BY <1>2
  <2>. QED BY <2>1, <2>2, <2>3
<1>. QED BY <1>4, <1>5, <1>6 DEF d

(* Nothing is left of any word after 32 bits that are its own. *)
WordLong(m) == m = 32

LEMMA WordsAreShort ==
    ASSUME NEW w \in Words, NEW m \in Nat, WordLong(m)
    PROVE  ShiftRight(w, m) = {}
<1>1. ASSUME NEW b \in ShiftRight(w, m) PROVE FALSE
  <2>0. ShiftRight(w, m) \in Words BY ShiftRightOfWords
  <2>1. b \in Nat BY <2>0 DEF Words, AllOnes
  <2>2. b + m \in w BY <2>1, ShiftRightOfWords
  <2>3. b + m \notin 0..31 BY <2>1 DEF WordLong
  <2>. QED BY <2>2, <2>3 DEF Words, AllOnes
<1>. QED BY <1>1

LEMMA OwnBitsEmptyIt ==
    ASSUME NEW m \in Nat, WordLong(m), NEW i \in Nat, NEW z, NEW S, NEW d,
           Feeds(d, z, S, i + m), d[i] \in Words,
           \A b \in 0..m-1 : i + b \in S <=> b \in d[i]
    PROVE  d[i + m] = {}
<1>1. PICK w \in Words : w = d[i] OBVIOUS
<1>2. PICK R : R = {b \in 0..m-1 : i + b \in S} OBVIOUS
<1>3. PICK v : v = [k \in 0..m |-> d[i + k]] OBVIOUS
<1>4. Feeds(v, w, R, m) BY <1>1, <1>2, <1>3, FeedingGoesOn
<1>5. Agree(R, w, m) BY <1>1, <1>2 DEF Agree
<1>6. v[m] = ShiftRight(w, m) BY <1>1, <1>4, <1>5, OwnBitsEmpty
<1>7. m \in 0..m OBVIOUS
<1>8. v[m] = {} BY <1>6, WordsAreShort
<1>. QED BY <1>3, <1>7, <1>8

(* A burst within 32 bits, fed into nothing, leaves a rest in the register, *)
(* and no zeros after it take it out again.                                 *)
LEMMA BurstsLeaveARest ==
    ASSUME NEW m \in Nat, WordLong(m), NEW n \in Nat, NEW p \in Nat, p + m <= n,
           NEW S, Agree(S, S \cap p..(p + m)-1, n),
           NEW d, Feeds(d, {}, S, n), d[n] = {}
    PROVE  Silent(S, 0, n)
<1>1. {} \in Words BY DEF Words
<1>2. p \in 0..n /\ p + m \in 0..n /\ p + m \in Nat OBVIOUS
<1>3. d[p + m] = {}
  <2>1. \A b \in (p + m)..n-1 : b \in 0..n-1 /\ b \notin S BY <1>2 DEF Agree
  <2>2. Silent(S, p + m, n) BY <2>1 DEF Silent
  <2>. QED BY <2>2, <1>1, <1>2, NothingComesOfNothing
<1>4. d[p] = {}
  <2>1. \A b \in 0..p-1 : b \in 0..n-1 /\ b \notin S BY <1>2 DEF Agree
  <2>2. Agree(S, {}, p) BY <2>1 DEF Agree
  <2>. QED BY <2>2, <1>2, NothingStaysNothing
<1>5. Feeds(d, {}, S, n) => \E x : Feeds(x, {}, S, p + m) /\ \A k \in 0..p+m : x[k] = d[k]
  <2> DEFINE x == [k \in 0..p+m |-> d[k]]
  <2>1. \A k \in 0..p+m : k \in 0..n /\ x[k] = d[k] BY <1>2
  <2>2. \A k \in 0..n : d[k] \in Words BY DEF Feeds
  <2>3. x \in [0..p+m -> Words] BY <2>1, <2>2
  <2>4. x[0] = {}
    <3>1. 0 \in 0..p+m BY <1>2
    <3>. QED BY <3>1 DEF Feeds
  <2>5. ASSUME NEW k \in 0..(p + m)-1 PROVE x[k + 1] = ShiftedIn(x[k], k \in S)
    <3>1. k \in 0..n-1 /\ k \in 0..p+m /\ k + 1 \in 0..p+m BY <1>2
    <3>2. d[k + 1] = ShiftedIn(d[k], k \in S) BY <3>1 DEF Feeds
    <3>. QED BY <3>1, <3>2
  <2>. HIDE DEF x
  <2>6. Feeds(x, {}, S, p + m) BY <2>3, <2>4, <2>5 DEF Feeds
  <2>. QED BY <2>1, <2>6
<1>6. PICK x : Feeds(x, {}, S, p + m) /\ \A k \in 0..p+m : x[k] = d[k] BY <1>5
<1> DEFINE B == {b \in 0..m-1 : p + b \in S}
           v == [k \in 0..m |-> x[p + k]]
<1>7. B \in Words
  <2>1. \A b \in 0..m-1 : b \in 0..31 BY DEF WordLong
  <2>. QED BY <2>1 DEF Words, AllOnes
<1>8. Feeds(v, {}, B, m)
  <2>1. x[p] = {}
    <3>1. p \in 0..p+m OBVIOUS
    <3>. QED BY <3>1, <1>4, <1>6
  <2>2. Feeds(v, x[p], B, m) BY <1>6, FeedingGoesOn
  <2>. QED BY <2>1, <2>2
<1>9. v[m] = {}
  <2>1. m \in 0..m /\ p + m \in 0..p+m OBVIOUS
  <2>. QED BY <2>1, <1>3, <1>6
<1>10. m \in 0..m /\ 0 \in 0..m OBVIOUS
<1>. HIDE DEF v, B
<1>11. PICK o : Feeds(o, B, B, m) BY <1>7, FeedingExists
<1>12. o[m] = {}
  <2>0. Agree(B, B, m) BY DEF Agree
  <2>1. o[m] = ShiftRight(B, m) BY <2>0, <1>7, <1>11, OwnBitsEmpty
  <2>. QED BY <2>1, <1>7, WordsAreShort
<1> DEFINE z == [k \in 0..m |-> Xor(v[k], o[k])]
<1>13. Feeds(z, B, {}, m)
  <2>1. Xor({}, B) = B /\ Xor(B, B) = {} BY DEF Xor
  <2>2. Feeds(z, Xor({}, B), Xor(B, B), m) BY <1>8, <1>11, FeedingIsLinear
  <2>. HIDE DEF z
  <2>. QED BY <2>1, <2>2
<1>14. z[m] = {}
  <2>1. z[m] = Xor(v[m], o[m]) BY <1>10
  <2>. HIDE DEF z
  <2>. QED BY <2>1, <1>9, <1>12 DEF Xor
<1>. HIDE DEF z
<1>15. z[0] = {}
  <2>1. Silent({}, 0, m) BY DEF Silent
  <2>. QED BY <2>1, <1>7, <1>10, <1>13, <1>14, NothingComesOfNothing
<1>16. B = {} BY <1>13, <1>15 DEF Feeds
<1>17. ASSUME NEW b \in 0..n-1, b \in S PROVE FALSE
  <2>1. b \in p..(p + m)-1 BY <1>17 DEF Agree
  <2>2. b - p \in 0..m-1 /\ p + (b - p) = b BY <2>1
  <2>3. b - p \in B BY <2>2, <1>17 DEF B
  <2>. QED BY <2>3, <1>16
<1>. QED BY <1>17 DEF Silent

(* A robot that takes the message refuses it with a burst of damage. *)
LEMMA BurstsAreRefused ==
    ASSUME NEW a \in Seq(Bytes), Len(a) = 32, Accepted(a),
           NEW p \in 0..224, NEW burst, burst \subseteq p..p+31,
           Accepted(Damaged(a, burst))
    PROVE  burst = {}
<1>1. PICK e \in Seq(Bytes) : e = Damaged(a, burst) /\ Len(e) = 32 BY DamageFlips
<1>2. PICK S : S = Xor(Bits(a), Bits(e)) OBVIOUS
<1>3. \A b \in 0..255 : b \in S <=> b \in burst BY <1>1, <1>2, DamageFlips
<1>4. AllOnes \in Words BY DEF Words
<1>5. PICK m \in Nat : m = 32 OBVIOUS
<1>6. PICK body \in Nat : body = 224 OBVIOUS
<1>7. PICK n \in Nat : n = 256 /\ n = body + m BY <1>5, <1>6
<1>8. /\ body \in 0..n /\ m \in 0..m /\ p \in Nat /\ p + m <= n
      /\ 0..n-1 = 0..255 /\ 0..m-1 = 0..31 /\ p..(p + m)-1 = p..p+31
  BY <1>5, <1>6, <1>7
<1>9. PICK t : Feeds(t, AllOnes, Bits(a), n) BY <1>4, FeedingExists
<1>10. PICK u : Feeds(u, AllOnes, Bits(e), n) BY <1>4, FeedingExists
<1>11. PICK d : Feeds(d, {}, S, n) /\ d[body] = Xor(t[body], u[body])
  <2> DEFINE x == [k \in 0..n |-> Xor(t[k], u[k])]
  <2>1. Xor(AllOnes, AllOnes) = {} BY DEF Xor
  <2>2. Feeds(x, Xor(AllOnes, AllOnes), Xor(Bits(a), Bits(e)), n)
    BY <1>9, <1>10, FeedingIsLinear
  <2>3. x[body] = Xor(t[body], u[body]) BY <1>8
  <2>. HIDE DEF x
  <2>. QED BY <2>1, <2>2, <2>3, <1>2
<1>12. Feeds(d, {}, S, body + m) BY <1>7, <1>11
<1>13. ASSUME NEW b \in 0..m-1 PROVE body + b \in S <=> b \in d[body]
  <2>1. b \in 0..31 /\ b \in AllOnes BY <1>8 DEF AllOnes
  <2>2. 224 + b \in Bits(a) <=> b \in Xor(t[224], AllOnes)
    <3>1. Feeds(t, AllOnes, Bits(a), 256) BY <1>7, <1>9
    <3>2. EndsWith(a, Xor(t[224], AllOnes))
      BY <3>1, AcceptedByBits
    <3>. QED BY <3>2, <2>1 DEF EndsWith
  <2>3. 224 + b \in Bits(e) <=> b \in Xor(u[224], AllOnes)
    <3>1. Feeds(u, AllOnes, Bits(e), 256) BY <1>7, <1>10
    <3>2. Accepted(e) BY <1>1
    <3>3. EndsWith(e, Xor(u[224], AllOnes))
      BY <3>1, <3>2, <1>1, AcceptedByBits
    <3>. QED BY <3>3, <2>1 DEF EndsWith
  <2>4. d[body] = Xor(t[224], u[224]) BY <1>6, <1>11
  <2>. QED BY <2>1, <2>2, <2>3, <2>4, <1>2, <1>6 DEF Xor
<1>14. d[body] \in Words BY <1>8, <1>11 DEF Feeds
<1>15. d[n] = {}
  <2>1. WordLong(m) BY <1>5 DEF WordLong
  <2>. QED BY <2>1, <1>6, <1>7, <1>12, <1>13, <1>14, OwnBitsEmptyIt
<1>16. Agree(S, S \cap p..(p + m)-1, n) BY <1>3, <1>8, ZenonT(40) DEF Agree
<1>17. Silent(S, 0, n)
  <2>1. WordLong(m) BY <1>5 DEF WordLong
  <2>. QED BY <2>1, <1>8, <1>11, <1>15, <1>16, BurstsLeaveARest, ZenonT(40)
<1>18. ASSUME NEW b \in burst PROVE FALSE
  <2>1. b \in 0..255 OBVIOUS
  <2>2. b \notin S BY <2>1, <1>8, <1>17 DEF Silent
  <2>. QED BY <2>1, <2>2, <1>3
<1>. QED BY <1>18

-----------------------------------------------------------------------------
(* The bytes of a message. *)

LEMMA Appending ==
    ASSUME NEW p \in Seq(Bytes), NEW q \in Seq(Bytes)
    PROVE  /\ p \o q \in Seq(Bytes) /\ Len(p \o q) = Len(p) + Len(q)
           /\ \A k \in 1..Len(p) : (p \o q)[k] = p[k]
           /\ \A k \in 1..Len(q) : (p \o q)[Len(p) + k] = q[k]
<1>1. PICK m \in Nat, n \in Nat : m = Len(p) /\ n = Len(q)
  <2>1. Len(p) \in Nat /\ Len(q) \in Nat OBVIOUS
  <2>. QED BY <2>1
<1>2. PICK r \in Seq(Bytes) : r = p \o q
  <2>1. p \o q \in Seq(Bytes) OBVIOUS
  <2>. QED BY <2>1
<1>3. Len(r) = m + n BY <1>1, <1>2
<1>4. \A k \in 1..m : r[k] = p[k] BY <1>1, <1>2
<1>5. ASSUME NEW k \in 1..n PROVE r[m + k] = q[k]
  <2>1. m + k \in 1..(m + n) /\ m + k > m /\ (m + k) - m = k OBVIOUS
  <2>. QED BY <2>1, <1>1, <1>2
<1>. QED BY <1>1, <1>2, <1>3, <1>4, <1>5

(* r is p followed by q. *)
Joins(r, p, m, q, n) ==
    /\ r \in Seq(Bytes) /\ Len(r) = m + n
    /\ \A k \in 1..m : r[k] = p[k]
    /\ \A k \in 1..n : r[m + k] = q[k]

LEMMA Joined ==
    ASSUME NEW m \in Nat, NEW n \in Nat,
           NEW p \in Seq(Bytes), Len(p) = m, NEW q \in Seq(Bytes), Len(q) = n
    PROVE  Joins(p \o q, p, m, q, n)
BY Appending DEF Joins

LEMMA WordIsBytes ==
    ASSUME NEW v \in Int
    PROVE  LittleEndian(v) \in Seq(Bytes) /\ Len(LittleEndian(v)) = 4
<1>1. /\ v % 256 \in Bytes /\ (v \div 256) % 256 \in Bytes
      /\ (v \div 65536) % 256 \in Bytes /\ (v \div 16777216) % 256 \in Bytes
  BY DEF Bytes
<1>. QED BY <1>1 DEF LittleEndian

(* A number that was a char comes back with its sign. *)
LEMMA WordIsRead ==
    ASSUME NEW v \in -128..127, NEW bytes, NEW m \in Nat,
           \A k \in 1..4 : bytes[m + k] = LittleEndian(v)[k]
    PROVE  Word(bytes, m + 1) = v
<1>1. /\ bytes[m + 1] = v % 256 /\ bytes[m + 2] = (v \div 256) % 256
      /\ bytes[m + 3] = (v \div 65536) % 256 /\ bytes[m + 4] = (v \div 16777216) % 256
  BY DEF LittleEndian
<1>2. m + 1 + 1 = m + 2 /\ m + 1 + 2 = m + 3 /\ m + 1 + 3 = m + 4 OBVIOUS
<1>3. CASE v >= 0
  <2>1. v % 256 = v /\ v \div 256 = 0 /\ v \div 65536 = 0 /\ v \div 16777216 = 0
    BY <1>3
  <2>2. bytes[m + 1] = v /\ bytes[m + 2] = 0 /\ bytes[m + 3] = 0 /\ bytes[m + 4] = 0
    BY <1>1, <2>1
  <2>. QED BY <1>2, <2>2 DEF Word
<1>4. CASE v < 0
  <2>1. v % 256 = v + 256 /\ v \div 256 = -1 /\ v \div 65536 = -1 /\ v \div 16777216 = -1
    BY <1>4
  <2>2. (-1) % 256 = 255
    <3>1. ASSUME NEW w \in -128..127, w < 0 PROVE w % 256 = w + 256 BY <3>1
    <3>2. -1 \in -128..127 /\ -1 < 0 /\ -1 + 256 = 255 OBVIOUS
    <3>. QED BY <3>1, <3>2
  <2>3. /\ bytes[m + 1] = v + 256 /\ bytes[m + 2] = 255
        /\ bytes[m + 3] = 255 /\ bytes[m + 4] = 255
    BY <1>1, <2>1, <2>2
  <2>. QED BY <1>2, <2>3 DEF Word
<1>. QED BY <1>3, <1>4

(* Both senders write the words of the speeds to the same places. *)
Layout(bytes, a, b, c, last) ==
    /\ bytes \in Seq(Bytes) /\ Len(bytes) = 28
    /\ \A k \in 1..4 : /\ bytes[4 + k] = LittleEndian(a)[k]
                       /\ bytes[8 + k] = LittleEndian(b)[k]
                       /\ bytes[12 + k] = LittleEndian(c)[k]
    /\ bytes[28] = last

LEMMA MessagesAreLaidOut ==
    ASSUME NEW a \in Int, NEW b \in Int, NEW c \in Int, NEW volts \in Int,
           NEW up \in Bytes, NEW last \in Bytes
    PROVE  Layout(sync \o LittleEndian(a) \o LittleEndian(b) \o LittleEndian(c)
                       \o LittleEndian(0) \o <<0>> \o LittleEndian(volts)
                       \o <<1, up, last>>,
                  a, b, c, last)
<1>1. /\ \A v \in Int : LittleEndian(v) \in Seq(Bytes) /\ Len(LittleEndian(v)) = 4
      /\ 0 \in Int
  BY WordIsBytes
<1>2. /\ sync \in Seq(Bytes) /\ Len(sync) = 4
      /\ <<0>> \in Seq(Bytes) /\ Len(<<0>>) = 1
      /\ <<1, up, last>> \in Seq(Bytes) /\ Len(<<1, up, last>>) = 3
      /\ <<1, up, last>>[3] = last
  <2>1. 170 \in Bytes /\ 0 \in Bytes /\ 1 \in Bytes BY DEF Bytes
  <2>. QED BY <2>1 DEF sync
<1>3. PICK p1 : p1 = sync \o LittleEndian(a) OBVIOUS
<1>4. Joins(p1, sync, 4, LittleEndian(a), 4)
  <2>1. sync \in Seq(Bytes) /\ Len(sync) = 4 BY <1>2
  <2>2. LittleEndian(a) \in Seq(Bytes) /\ Len(LittleEndian(a)) = 4 BY <1>1, <1>2
  <2>. QED BY <2>1, <2>2, <1>3, Joined
<1>5. PICK p2 : p2 = p1 \o LittleEndian(b) OBVIOUS
<1>6. Joins(p2, p1, 8, LittleEndian(b), 4)
  <2>1. p1 \in Seq(Bytes) /\ Len(p1) = 8 BY <1>4 DEF Joins
  <2>2. LittleEndian(b) \in Seq(Bytes) /\ Len(LittleEndian(b)) = 4 BY <1>1, <1>2
  <2>. QED BY <2>1, <2>2, <1>5, Joined
<1>7. PICK p3 : p3 = p2 \o LittleEndian(c) OBVIOUS
<1>8. Joins(p3, p2, 12, LittleEndian(c), 4)
  <2>1. p2 \in Seq(Bytes) /\ Len(p2) = 12 BY <1>6 DEF Joins
  <2>2. LittleEndian(c) \in Seq(Bytes) /\ Len(LittleEndian(c)) = 4 BY <1>1, <1>2
  <2>. QED BY <2>1, <2>2, <1>7, Joined
<1>9. PICK p4 : p4 = p3 \o LittleEndian(0) OBVIOUS
<1>10. Joins(p4, p3, 16, LittleEndian(0), 4)
  <2>1. p3 \in Seq(Bytes) /\ Len(p3) = 16 BY <1>8 DEF Joins
  <2>2. LittleEndian(0) \in Seq(Bytes) /\ Len(LittleEndian(0)) = 4 BY <1>1, <1>2
  <2>. QED BY <2>1, <2>2, <1>9, Joined
<1>11. PICK p5 : p5 = p4 \o <<0>> OBVIOUS
<1>12. Joins(p5, p4, 20, <<0>>, 1)
  <2>1. p4 \in Seq(Bytes) /\ Len(p4) = 20 BY <1>10 DEF Joins
  <2>2. <<0>> \in Seq(Bytes) /\ Len(<<0>>) = 1 BY <1>1, <1>2
  <2>. QED BY <2>1, <2>2, <1>11, Joined
<1>13. PICK p6 : p6 = p5 \o LittleEndian(volts) OBVIOUS
<1>14. Joins(p6, p5, 21, LittleEndian(volts), 4)
  <2>1. p5 \in Seq(Bytes) /\ Len(p5) = 21 BY <1>12 DEF Joins
  <2>2. LittleEndian(volts) \in Seq(Bytes) /\ Len(LittleEndian(volts)) = 4 BY <1>1, <1>2
  <2>. QED BY <2>1, <2>2, <1>13, Joined
<1>15. PICK p7 : p7 = p6 \o <<1, up, last>> OBVIOUS
<1>16. Joins(p7, p6, 25, <<1, up, last>>, 3)
  <2>1. p6 \in Seq(Bytes) /\ Len(p6) = 25 BY <1>14 DEF Joins
  <2>2. <<1, up, last>> \in Seq(Bytes) /\ Len(<<1, up, last>>) = 3 BY <1>1, <1>2
  <2>. QED BY <2>1, <2>2, <1>15, Joined
<1>17. p7[28] = last
  <2>1. 3 \in 1..3 /\ 25 + 3 = 28 OBVIOUS
  <2>2. p7[25 + 3] = <<1, up, last>>[3] BY <2>1, <1>16 DEF Joins
  <2>. QED BY <2>1, <2>2, <1>2
<1>18. ASSUME NEW k \in 1..4
       PROVE  /\ p7[4 + k] = LittleEndian(a)[k] /\ p7[8 + k] = LittleEndian(b)[k]
              /\ p7[12 + k] = LittleEndian(c)[k]
  <2>1. ASSUME NEW n \in 1..16 PROVE p7[n] = p3[n]
    <3>1. n \in 1..25 /\ n \in 1..21 /\ n \in 1..20 OBVIOUS
    <3>2. p7[n] = p6[n] BY <3>1, <1>16 DEF Joins
    <3>3. p6[n] = p5[n] BY <3>1, <1>14 DEF Joins
    <3>4. p5[n] = p4[n] BY <3>1, <1>12 DEF Joins
    <3>5. p4[n] = p3[n] BY <3>1, <1>10 DEF Joins
    <3>. QED BY <3>2, <3>3, <3>4, <3>5
  <2>2. 4 + k \in 1..8 /\ 8 + k \in 1..12 /\ 12 + k \in 1..16 OBVIOUS
  <2>3. 4 + k \in 1..12 /\ 4 + k \in 1..16 /\ 8 + k \in 1..16 OBVIOUS
  <2>4. p1[4 + k] = LittleEndian(a)[k] BY <1>4 DEF Joins
  <2>5. p2[8 + k] = LittleEndian(b)[k] BY <1>6 DEF Joins
  <2>6. p3[12 + k] = LittleEndian(c)[k] BY <1>8 DEF Joins
  <2>7. p2[4 + k] = p1[4 + k] BY <2>2, <1>6 DEF Joins
  <2>8. p3[4 + k] = p2[4 + k] /\ p3[8 + k] = p2[8 + k] BY <2>2, <2>3, <1>8 DEF Joins
  <2>9. p7[4 + k] = p3[4 + k] /\ p7[8 + k] = p3[8 + k] /\ p7[12 + k] = p3[12 + k]
    BY <2>1, <2>2, <2>3
  <2>. QED BY <2>4, <2>5, <2>6, <2>7, <2>8, <2>9
<1>19. p7 \in Seq(Bytes) /\ Len(p7) = 28 BY <1>16 DEF Joins
<1>20. Layout(p7, a, b, c, last) BY <1>19, <1>17, <1>18 DEF Layout
<1>. QED BY <1>3, <1>5, <1>7, <1>9, <1>11, <1>13, <1>15, <1>20

-----------------------------------------------------------------------------
(* The configuration: what was stored last stands. *)

Key == "RULE_LENGTH"

(* Of the lines read so far, the last that names the length has set it. *)
LengthRead ==
    \/ \A k \in 1..line-1 : file[k].key # Key
    \/ \E k \in 1..line-1 : /\ file[k].key = Key
                            /\ \A m \in k+1..line-1 : file[m].key # Key
                            /\ config[Key] = file[k].value

(* The configuration, while the file is read and after. *)
Reading ==
    /\ opened \in BOOLEAN
    /\ DOMAIN config = {"RULE_AMOUNT", "RULE_LENGTH", "file_of_matlab"}
    /\ ~opened /\ pc # "config" => config[Key] = 7
    /\ opened => /\ file \in Files /\ line \in 1..Len(file)+1
                 /\ pc # "config" => line = Len(file) + 1
                 /\ LengthRead

LEMMA LengthIsConfigured ==
    ASSUME Reading, pc # "config", WellConfigured
    PROVE  config.RULE_LENGTH \in 6..100
<1>1. config.RULE_LENGTH = config[Key] BY DEF Key
<1>2. CASE ~opened BY <1>1, <1>2 DEF Reading
<1>3. CASE opened
  <2> DEFINE mine == {k \in DOMAIN file : file[k].key = Key}
             last == CHOOSE k \in mine : \A m \in mine : m <= k
  <2>1. PICK n \in Nat : n = Len(file) /\ DOMAIN file = 1..n /\ line = n + 1
    BY <1>3, FileAssumption DEF Reading
  <2>2. LastValue(Key) = IF mine = {} THEN 0 ELSE file[last].value BY DEF LastValue
  <2>3. LastValue(Key) \in 6..100 BY <1>3 DEF WellConfigured, Key
  <2>4. mine # {} BY <2>2, <2>3
  <2>5. LastValue(Key) = file[last].value BY <2>2, <2>4
  <2>6. PICK k \in 1..n : /\ file[k].key = Key
                          /\ \A m \in k+1..n : file[m].key # Key
                          /\ config[Key] = file[k].value
    <3>1. line - 1 = n BY <2>1
    <3>2. ~(\A k \in 1..line-1 : file[k].key # Key) BY <3>1, <2>1, <2>4
    <3>. QED BY <3>1, <3>2, <1>3 DEF Reading, LengthRead
  <2>7. k \in mine BY <2>1, <2>6
  <2>8. ASSUME NEW m \in mine PROVE m <= k
    <3>1. m \in 1..n /\ file[m].key = Key BY <2>1
    <3>. QED BY <3>1, <2>6
  <2>9. last \in mine /\ \A m \in mine : m <= last BY <2>7, <2>8
  <2>10. last \in 1..n BY <2>1, <2>9
  <2>. HIDE DEF last, mine
  <2>11. last = k BY <2>7, <2>8, <2>9, <2>10
  <2>. QED BY <1>1, <2>3, <2>5, <2>6, <2>11
<1>. QED BY <1>2, <1>3 DEF Reading

LEMMA InitiallyReading ==
    ASSUME MessageInit
    PROVE  Reading /\ pc = "config"
<1>1. DOMAIN config = {"RULE_AMOUNT", "RULE_LENGTH", "file_of_matlab"}
  BY DEF MessageInit
<1>2. ASSUME opened PROVE file \in Files /\ line \in 1..Len(file)+1 /\ LengthRead
  <2>1. file \in Files /\ line = 1 BY <1>2 DEF MessageInit
  <2>2. Len(file) \in Nat BY <2>1, FileAssumption
  <2>3. LengthRead BY <2>1 DEF LengthRead
  <2>. QED BY <2>1, <2>2, <2>3
<1>. QED BY <1>1, <1>2 DEF MessageInit, Reading

LEMMA ReadingALine ==
    ASSUME Reading, ReadLine
    PROVE  Reading' /\ pc' = "config"
<1>1. PICK n \in Nat : n = Len(file) /\ line \in 1..n /\ file \in Files
  <2>1. opened /\ file \in Files /\ line \in 1..Len(file)+1 /\ line <= Len(file)
    BY DEF ReadLine, Reading
  <2>2. Len(file) \in Nat BY <2>1, FileAssumption
  <2>. QED BY <2>1, <2>2
<1>2. line' = line + 1 /\ file' = file /\ opened' = opened /\ pc' = pc /\ pc = "config"
  BY DEF ReadLine
<1>3. PICK l : l = file[line] OBVIOUS
<1>4. config' = IF l.key \in DOMAIN config THEN [config EXCEPT ![l.key] = l.value]
                ELSE config
  BY <1>3 DEF ReadLine, Store
<1>5. DOMAIN config' = DOMAIN config BY <1>4
<1>6. Key \in DOMAIN config BY DEF Reading, Key
<1>7. l.key = Key => config'[Key] = l.value BY <1>4, <1>6
<1>8. l.key # Key => config'[Key] = config[Key] BY <1>4, <1>6
<1>9. LengthRead'
  <2>1. line - 1 \in Nat /\ line' - 1 = line /\ line \in 1..line BY <1>1, <1>2
  <2>2. CASE l.key = Key
    <3>1. \A m \in line+1..line : file[m].key # Key BY <2>1
    <3>2. file[line].key = Key /\ config'[Key] = file[line].value
      BY <2>2, <1>3, <1>7
    <3>. QED BY <2>1, <3>1, <3>2, <1>2 DEF LengthRead, Key
  <2>3. CASE l.key # Key
    <3>1. LengthRead BY DEF Reading, ReadLine
    <3>2. CASE \A k \in 1..line-1 : file[k].key # Key
      <4>1. ASSUME NEW k \in 1..line PROVE file[k].key # Key
        <5>1. k = line \/ k \in 1..line-1 BY <2>1
        <5>. QED BY <5>1, <3>2, <2>3, <1>3
      <4>. QED BY <4>1, <2>1, <1>2 DEF LengthRead, Key
    <3>3. CASE \E k \in 1..line-1 : /\ file[k].key = Key
                                    /\ \A m \in k+1..line-1 : file[m].key # Key
                                    /\ config[Key] = file[k].value
      <4>1. PICK k \in 1..line-1 : /\ file[k].key = Key
                                   /\ \A m \in k+1..line-1 : file[m].key # Key
                                   /\ config[Key] = file[k].value
        BY <3>3
      <4>2. ASSUME NEW m \in k+1..line PROVE file[m].key # Key
        <5>1. m = line \/ m \in k+1..line-1 BY <2>1
        <5>. QED BY <5>1, <4>1, <2>3, <1>3
      <4>3. k \in 1..line BY <2>1
      <4>4. config'[Key] = file[k].value BY <4>1, <2>3, <1>8
      <4>. QED BY <4>1, <4>2, <4>3, <4>4, <2>1, <1>2 DEF LengthRead, Key
    <3>. QED BY <3>1, <3>2, <3>3 DEF LengthRead
  <2>. QED BY <2>2, <2>3
<1>10. line' \in 1..Len(file)+1 BY <1>1, <1>2
<1>. QED BY <1>1, <1>2, <1>5, <1>9, <1>10 DEF Reading

LEMMA LengthReadStays ==
    ASSUME LengthRead, UNCHANGED <<file, line, config>>
    PROVE  LengthRead'
BY DEF LengthRead, Key

LEMMA ReadingIsKept ==
    ASSUME Reading, [MessageNext]_programVars
    PROVE  Reading'
<1>1. CASE ReadLine BY <1>1, ReadingALine
<1>2. CASE EndOfFile
  <2>1. UNCHANGED <<opened, file, line, config>> BY <1>2 DEF EndOfFile, configVars
  <2>2. opened /\ line = Len(file) + 1
    <3>1. opened /\ line > Len(file) /\ file \in Files /\ line \in 1..Len(file)+1
      BY <1>2 DEF EndOfFile, Reading
    <3>2. Len(file) \in Nat BY <3>1, FileAssumption
    <3>. QED BY <3>1, <3>2
  <2>3. LengthRead' BY <2>1, <2>2, LengthReadStays DEF Reading
  <2>. QED BY <2>1, <2>2, <2>3 DEF Reading
<1>3. CASE NoFile
  <2>1. config' = [RULE_AMOUNT |-> 5, RULE_LENGTH |-> 7, file_of_matlab |-> "Robofootball"]
    BY <1>3 DEF NoFile
  <2>2. DOMAIN config' = {"RULE_AMOUNT", "RULE_LENGTH", "file_of_matlab"} BY <2>1
  <2>3. config'[Key] = 7 BY <2>1 DEF Key
  <2>. QED BY <1>3, <2>2, <2>3 DEF NoFile, Reading, Key
<1>4. ASSUME UNCHANGED configVars, pc = "config" => pc' = pc PROVE Reading'
  <2>1. UNCHANGED <<opened, file, line, config>> BY <1>4 DEF configVars
  <2>2. opened => LengthRead' BY <2>1, LengthReadStays DEF Reading
  <2>. QED BY <1>4, <2>1, <2>2 DEF Reading
<1>5. CASE SendRule BY <1>4, <1>5 DEF SendRule
<1>6. CASE WritePastNewmess BY <1>4, <1>6 DEF WritePastNewmess
<1>7. CASE SendRemoteCommand BY <1>4, <1>7 DEF SendRemoteCommand
<1>8. CASE CrcStep BY <1>4, <1>8 DEF CrcStep
<1>9. CASE AppendCrc BY <1>4, <1>9 DEF AppendCrc
<1>10. CASE Arrive BY <1>4, <1>10 DEF Arrive
<1>11. CASE Finish BY <1>4, <1>11 DEF Finish
<1>12. CASE UNCHANGED programVars BY <1>4, <1>12 DEF programVars
<1>. QED BY <1>1, <1>2, <1>3, <1>5, <1>6, <1>7, <1>8, <1>9, <1>10, <1>11, <1>12
     DEF MessageNext

-----------------------------------------------------------------------------
(* A message: what it says, and its checksum. *)

(* The words of a message are a, b, c and its last field is last. *)
Says(bytes, a, b, c, last) ==
    Word(bytes, 5) = a /\ Word(bytes, 9) = b /\ Word(bytes, 13) = c /\ bytes[28] = last

SaysRule(bytes, row, isPause) ==
    IF isPause THEN Says(bytes, 0, 0, 0, 0)
    ELSE Says(bytes, Truncated(row[2]), Truncated(row[3]), Truncated(row[5]),
              Truncated(row[4]) % 256)

(* A rule that can be said is said. *)
RuleWritten ==
    IsRule /\ WellConfigured /\ InRange(asked.rule) =>
      to = Truncated(asked.rule[1]) /\ SaysRule(ba, asked.rule, asked.isPause)

(* The checksum under way is that of the bits so far; at its end the robot *)
(* would accept the message, and what arrives is it or a damaged copy.     *)
Checked ==
    /\ pc = "crc" =>
         /\ ba \in Seq(Bytes) /\ Len(ba) = 28
         /\ vsp \in 0..28 /\ crc = Fed(AllOnes, Bits(ba), 8*vsp)
    /\ pc \in {"sent", "kept", "arrived"} =>
         ba \in Seq(Bytes) /\ Len(ba) = 32 /\ Accepted(ba)
    /\ pc = "arrived" => \E burst \in Bursts : arrived = Damaged(ba, burst)

(* The message still says what its rule says when it is sent. *)
Written ==
    /\ pc \in {"crc", "sent"} => RuleWritten
    /\ pc = "sent" => to \in 0..MAX_NUM_ROBOTS

(* What the file says, and what was asked, is the same once they are the same. *)
LEMMA FileStays ==
    ASSUME UNCHANGED <<opened, file>>
    PROVE  WellConfigured' <=> WellConfigured
<1>1. ASSUME NEW key PROVE LastValue(key)' = LastValue(key)
  BY DEF LastValue
<1>. QED BY <1>1 DEF WellConfigured

LEMMA RuleStays ==
    ASSUME RuleWritten, UNCHANGED <<opened, file, asked, to>>,
           IsRule => (SaysRule(ba', asked.rule, asked.isPause) <=>
                      SaysRule(ba, asked.rule, asked.isPause))
    PROVE  RuleWritten'
<1>1. WellConfigured' <=> WellConfigured BY FileStays
<1>2. IsRule' <=> IsRule BY DEF IsRule
<1>. QED BY <1>1, <1>2 DEF RuleWritten

LEMMA LayoutIsRead ==
    ASSUME NEW a \in -128..127, NEW b \in -128..127, NEW c \in -128..127, NEW last,
           NEW bytes, Layout(bytes, a, b, c, last)
    PROVE  Says(bytes, a, b, c, last)
<1>1. \A k \in 1..4 : /\ bytes[4 + k] = LittleEndian(a)[k]
                      /\ bytes[8 + k] = LittleEndian(b)[k]
                      /\ bytes[12 + k] = LittleEndian(c)[k]
  BY DEF Layout
<1>2. PICK i \in Nat : i = 4 OBVIOUS
<1>3. PICK j \in Nat : j = 8 OBVIOUS
<1>4. PICK m \in Nat : m = 12 OBVIOUS
<1>5. Word(bytes, i + 1) = a
  <2>1. \A k \in 1..4 : bytes[i + k] = LittleEndian(a)[k] BY <1>1, <1>2
  <2>. QED BY <2>1, <1>2, WordIsRead
<1>6. Word(bytes, j + 1) = b
  <2>1. \A k \in 1..4 : bytes[j + k] = LittleEndian(b)[k] BY <1>1, <1>3
  <2>. QED BY <2>1, <1>3, WordIsRead
<1>7. Word(bytes, m + 1) = c
  <2>1. \A k \in 1..4 : bytes[m + k] = LittleEndian(c)[k] BY <1>1, <1>4
  <2>. QED BY <2>1, <1>4, WordIsRead
<1>8. i + 1 = 5 /\ j + 1 = 9 /\ m + 1 = 13 BY <1>2, <1>3, <1>4
<1>. QED BY <1>5, <1>6, <1>7, <1>8 DEF Says, Layout

(* Bytes that follow change nothing. *)
LEMMA SayingGoesOn ==
    ASSUME NEW bytes, NEW more, NEW row, NEW isPause,
           \A k \in 1..28 : more[k] = bytes[k]
    PROVE  SaysRule(more, row, isPause) <=> SaysRule(bytes, row, isPause)
<1>1. /\ more[5] = bytes[5] /\ more[6] = bytes[6] /\ more[7] = bytes[7]
      /\ more[8] = bytes[8] /\ more[9] = bytes[9] /\ more[10] = bytes[10]
      /\ more[11] = bytes[11] /\ more[12] = bytes[12] /\ more[13] = bytes[13]
      /\ more[14] = bytes[14] /\ more[15] = bytes[15] /\ more[16] = bytes[16]
      /\ more[28] = bytes[28]
  OBVIOUS
<1>2. Word(more, 5) = Word(bytes, 5)
  <2>1. 5 + 1 = 6 /\ 5 + 2 = 7 /\ 5 + 3 = 8 OBVIOUS
  <2>. QED BY <1>1, <2>1 DEF Word
<1>3. Word(more, 9) = Word(bytes, 9)
  <2>1. 9 + 1 = 10 /\ 9 + 2 = 11 /\ 9 + 3 = 12 OBVIOUS
  <2>. QED BY <1>1, <2>1 DEF Word
<1>4. Word(more, 13) = Word(bytes, 13)
  <2>1. 13 + 1 = 14 /\ 13 + 2 = 15 /\ 13 + 3 = 16 OBVIOUS
  <2>. QED BY <1>1, <2>1 DEF Word
<1>. QED BY <1>1, <1>2, <1>3, <1>4 DEF Says, SaysRule

LEMMA NarrowedIsChar ==
    ASSUME NEW row, NEW j, NEW junk \in Junk
    PROVE  Narrowed(row, j, junk) \in -128..127
<1>1. junk \in -128..127 BY JunkAssumption
<1>. QED BY <1>1 DEF Narrowed, IsChar

LEMMA RuleIsLaidOut ==
    ASSUME NEW x \in -128..127, NEW y \in -128..127, NEW r \in -128..127,
           NEW kick \in -128..127
    PROVE  Layout(generateByteArray([x |-> x, y |-> y, r |-> r, kick |-> kick]),
                  x, y, r, kick % 256)
<1>1. kick % 256 \in Bytes BY DEF Bytes
<1>2. PICK last \in Bytes : last = kick % 256 BY <1>1
<1>3. PICK volts \in Int : volts = 12 OBVIOUS
<1>4. PICK up \in Bytes : up = 0 BY DEF Bytes
<1>5. Layout(sync \o LittleEndian(x) \o LittleEndian(y) \o LittleEndian(r)
                  \o LittleEndian(0) \o <<0>> \o LittleEndian(volts)
                  \o <<1, up, last>>,
             x, y, r, last)
  BY MessagesAreLaidOut
<1>. QED BY <1>2, <1>3, <1>4, <1>5 DEF generateByteArray

LEMMA CommandIsLaidOut ==
    ASSUME NEW w \in Windows
    PROVE  Layout(serializeCommand(w), w.x, w.y, w.r, 0)
<1>1. w.x \in Int /\ w.y \in Int /\ w.r \in Int BY WindowAssumption
<1>2. PICK last \in Bytes : last = 0 BY DEF Bytes
<1>3. PICK volts \in Int : volts = 4 OBVIOUS
<1>4. PICK up \in Bytes : up = IF w.kickUp THEN 1 ELSE 0 BY DEF Bytes
<1>5. Layout(sync \o LittleEndian(w.x) \o LittleEndian(w.y) \o LittleEndian(w.r)
                  \o LittleEndian(0) \o <<0>> \o LittleEndian(volts)
                  \o <<1, up, last>>,
             w.x, w.y, w.r, last)
  BY <1>1, MessagesAreLaidOut
<1>. QED BY <1>2, <1>3, <1>4, <1>5 DEF serializeCommand

(* A new message has no checksum yet. *)
LEMMA BeginningToCheck ==
    ASSUME NEW bytes, NEW a, NEW b, NEW c, NEW last, Layout(bytes, a, b, c, last),
           Begin(bytes)
    PROVE  Checked'
<1>1. /\ ba' = bytes /\ crc' = AllOnes /\ vsp' = 0 /\ pc' = "crc"
      /\ bytes \in Seq(Bytes) /\ Len(bytes) = 28
  BY DEF Begin, Layout
<1>2. Fed(AllOnes, Bits(bytes), 8*0) = AllOnes
  <2>1. PICK n \in Nat : n = 0 /\ n = 8*0 OBVIOUS
  <2>2. AllOnes \in Words BY DEF Words
  <2>3. PICK t : Feeds(t, AllOnes, Bits(bytes), n) BY <2>1, <2>2, FeedingExists
  <2>4. Fed(AllOnes, Bits(bytes), n) = t[n] BY <2>1, <2>2, <2>3, FedIsFeeding
  <2>5. t[0] = AllOnes BY <2>3 DEF Feeds
  <2>. QED BY <2>1, <2>4, <2>5
<1>3. 0 \in 0..28 OBVIOUS
<1>. QED BY <1>1, <1>2, <1>3 DEF Checked

(* Squeezed through chars, a rule in range is the message. *)
LEMMA SendingARule ==
    ASSUME Reading, SendRule
    PROVE  Checked' /\ Written'
<1>1. PICK row \in Rows, isPause \in BOOLEAN, junk \in Junk :
        LET newmess == [j \in 0..5 |-> Narrowed(row, j, junk)] IN
        /\ asked' = [rule |-> row, isPause |-> isPause]
        /\ to' = newmess[1]
        /\ Begin(generateByteArray(
               IF isPause THEN [x |-> 0, y |-> 0, r |-> 0, kick |-> 0]
               ELSE [x |-> newmess[2], y |-> newmess[3], r |-> newmess[5],
                     kick |-> newmess[4]]))
  BY DEF SendRule
<1>2. PICK x \in -128..127, y \in -128..127, r \in -128..127, kick \in -128..127 :
        /\ x = IF isPause THEN 0 ELSE Narrowed(row, 2, junk)
        /\ y = IF isPause THEN 0 ELSE Narrowed(row, 3, junk)
        /\ r = IF isPause THEN 0 ELSE Narrowed(row, 5, junk)
        /\ kick = IF isPause THEN 0 ELSE Narrowed(row, 4, junk)
  <2>1. PICK v \in -128..127 : v = 0 OBVIOUS
  <2>2. PICK x \in -128..127 : x = IF isPause THEN v ELSE Narrowed(row, 2, junk)
    BY NarrowedIsChar
  <2>3. PICK y \in -128..127 : y = IF isPause THEN v ELSE Narrowed(row, 3, junk)
    BY NarrowedIsChar
  <2>4. PICK r \in -128..127 : r = IF isPause THEN v ELSE Narrowed(row, 5, junk)
    BY NarrowedIsChar
  <2>5. PICK kick \in -128..127 : kick = IF isPause THEN v ELSE Narrowed(row, 4, junk)
    BY NarrowedIsChar
  <2>. QED BY <2>1, <2>2, <2>3, <2>4, <2>5
<1>3. PICK bytes : bytes = generateByteArray([x |-> x, y |-> y, r |-> r, kick |-> kick])
  OBVIOUS
<1>4. Begin(bytes) BY <1>1, <1>2, <1>3
<1>5. Layout(bytes, x, y, r, kick % 256) BY <1>3, RuleIsLaidOut, ZenonT(40)
<1>6. Checked' BY <1>4, <1>5, BeginningToCheck
<1>7. ASSUME WellConfigured', InRange(row)
      PROVE  to' = Truncated(row[1]) /\ SaysRule(ba', row, isPause)
  <2>1. pc = "idle" /\ UNCHANGED <<opened, file, line, config>>
    BY DEF SendRule, configVars
  <2>2. WellConfigured BY <1>7, <2>1, FileStays
  <2>3. config.RULE_LENGTH \in 6..100 BY <2>1, <2>2, LengthIsConfigured
  <2>4. \A j \in 0..5 : Narrowed(row, j, junk) = Truncated(row[j])
    BY <2>3, <1>7 DEF Narrowed, InRange
  <2>5. to' = Truncated(row[1]) BY <1>1, <2>4
  <2>6. ba' = bytes BY <1>4 DEF Begin
  <2>7. Says(bytes, x, y, r, kick % 256) BY <1>5, LayoutIsRead
  <2>8. CASE isPause
    <3>1. x = 0 /\ y = 0 /\ r = 0 /\ kick = 0 /\ 0 % 256 = 0 BY <1>2, <2>8
    <3>. QED BY <2>5, <2>6, <2>7, <2>8, <3>1 DEF SaysRule
  <2>9. CASE ~isPause
    <3>1. /\ x = Truncated(row[2]) /\ y = Truncated(row[3])
          /\ r = Truncated(row[5]) /\ kick = Truncated(row[4])
      BY <1>2, <2>4, <2>9
    <3>. QED BY <2>5, <2>6, <2>7, <2>9, <3>1 DEF SaysRule
  <2>. QED BY <2>8, <2>9
<1>8. asked'.rule = row /\ asked'.isPause = isPause BY <1>1
<1>9. RuleWritten' BY <1>7, <1>8 DEF RuleWritten
<1>10. pc' = "crc" BY <1>4 DEF Begin
<1>. QED BY <1>6, <1>9, <1>10 DEF Written

LEMMA SendingACommand ==
    ASSUME SendRemoteCommand
    PROVE  Checked' /\ Written'
<1>1. PICK w \in Windows : asked' = [window |-> w] /\ Begin(serializeCommand(w))
  BY DEF SendRemoteCommand
<1>2. Checked' BY <1>1, CommandIsLaidOut, BeginningToCheck
<1>3. ~IsRule' BY <1>1 DEF IsRule
<1>4. pc' = "crc" BY <1>1 DEF Begin
<1>. QED BY <1>2, <1>3, <1>4 DEF Written, RuleWritten

LEMMA CheckingAByte ==
    ASSUME Checked, Written, CrcStep
    PROVE  Checked' /\ Written'
<1>1. /\ pc = "crc" /\ vsp < 28 /\ pc' = "crc" /\ ba' = ba
      /\ crc' = NextCrc(crc, ba[vsp + 1]) /\ vsp' = vsp + 1
      /\ UNCHANGED <<opened, file, line, config, asked, to>>
  BY DEF CrcStep, configVars
<1>2. /\ ba \in Seq(Bytes) /\ Len(ba) = 28 /\ vsp \in 0..28
      /\ crc = Fed(AllOnes, Bits(ba), 8*vsp)
  BY <1>1 DEF Checked
<1>3. PICK n \in Nat : n = 28 OBVIOUS
<1>4. vsp \in 0..n-1 /\ Len(ba) = n BY <1>1, <1>2, <1>3
<1>5. crc' = Fed(AllOnes, Bits(ba), 8*(vsp + 1))
  BY <1>1, <1>2, <1>3, <1>4, ChecksumGoesOn
<1>6. vsp' \in 0..28 BY <1>1, <1>2
<1>7. Checked' BY <1>1, <1>2, <1>5, <1>6 DEF Checked
<1>8. Written' 
  <2>1. RuleWritten BY <1>1 DEF Written
  <2>2. RuleWritten' BY <2>1, <1>1, RuleStays
  <2>. QED BY <1>1, <2>2 DEF Written
<1>. QED BY <1>7, <1>8

(* With the checksum appended the robot accepts the message. *)
LEMMA AppendingTheChecksum ==
    ASSUME Checked, Written, AppendCrc
    PROVE  Checked' /\ Written'
<1>1. /\ pc = "crc" /\ vsp = 28 /\ ba' = ba \o BytesOf(Xor(crc, AllOnes))
      /\ pc' = IF IsSent THEN "sent" ELSE "kept"
      /\ UNCHANGED <<opened, file, line, config, asked, to>>
  BY DEF AppendCrc, configVars
<1>2. /\ ba \in Seq(Bytes) /\ Len(ba) = 28
      /\ crc = Fed(AllOnes, Bits(ba), 8*28)
  BY <1>1 DEF Checked
<1>3. PICK tail \in Seq(Bytes) : tail = BytesOf(Xor(crc, AllOnes)) /\ Len(tail) = 4
  <2>1. PICK n \in Nat : n = 4 OBVIOUS
  <2>2. BytesOf(Xor(crc, AllOnes)) \in [1..n -> Bytes]
    BY <2>1, BytesAreBits DEF BytesOf
  <2>. QED BY <2>1, <2>2, MessageOfBytes
<1>4. PICK m \in Nat : m = 28 OBVIOUS
<1>5. PICK n \in Nat : n = 4 OBVIOUS
<1>6. Joins(ba', ba, m, tail, n) BY <1>1, <1>2, <1>3, <1>4, <1>5, Joined
<1>7. /\ ba' \in Seq(Bytes) /\ Len(ba') = 32
      /\ \A k \in 1..28 : ba'[k] = ba[k]
      /\ \A k \in 1..4 : ba'[28 + k] = tail[k]
  BY <1>4, <1>5, <1>6 DEF Joins
<1>8. SubSeq(ba', 1, 28) = ba
  <2>1. PICK len \in Nat : len = 32 /\ 1 \in 1..len /\ 28 \in 1..len /\ Len(ba') = len
    BY <1>7
  <2>2. m = 28 - 1 + 1 BY <1>4
  <2>3. /\ SubSeq(ba', 1, 28) \in Seq(Bytes) /\ Len(SubSeq(ba', 1, 28)) = m
        /\ \A k \in 1..m : SubSeq(ba', 1, 28)[k] = ba'[1 + k - 1]
    <3>1. PICK all \in Seq(Bytes) : all = ba' /\ Len(all) = len BY <1>7, <2>1
    <3>. QED BY <3>1, <2>1, <2>2, <1>4, PartOfMessage, ZenonT(40)
  <2>4. PICK s \in Seq(Bytes) : s = SubSeq(ba', 1, 28) BY <2>3
  <2>5. \A k \in 1..m : 1 + k - 1 = k OBVIOUS
  <2>6. \A k \in 1..m : s[k] = ba[k] BY <2>3, <2>4, <2>5, <1>4, <1>7, ZenonT(40)
  <2>7. Len(s) = m /\ Len(ba) = m BY <2>3, <2>4, <1>2, <1>4
  <2>. QED BY <2>4, <2>6, <2>7, <1>2, <1>4, SameMessage
<1>9. SubSeq(ba', 29, 32) = tail
  <2>1. PICK len \in Nat : len = 32 /\ 29 \in 1..len /\ 32 \in 29..len /\ Len(ba') = len
    BY <1>7
  <2>2. n = 32 - 29 + 1 BY <1>5
  <2>3. /\ SubSeq(ba', 29, 32) \in Seq(Bytes) /\ Len(SubSeq(ba', 29, 32)) = n
        /\ \A k \in 1..n : SubSeq(ba', 29, 32)[k] = ba'[29 + k - 1]
    <3>1. PICK all \in Seq(Bytes) : all = ba' /\ Len(all) = len BY <1>7, <2>1
    <3>. QED BY <3>1, <2>1, <2>2, <1>5, PartOfMessage, ZenonT(40)
  <2>4. PICK s \in Seq(Bytes) : s = SubSeq(ba', 29, 32) BY <2>3
  <2>5. \A k \in 1..n : 29 + k - 1 = 28 + k OBVIOUS
  <2>6. \A k \in 1..n : s[k] = tail[k] BY <2>3, <2>4, <2>5, <1>5, <1>7, ZenonT(40)
  <2>7. Len(s) = n /\ Len(tail) = n BY <2>3, <2>4, <1>3, <1>5
  <2>. QED BY <2>4, <2>6, <2>7, <1>3, <1>5, SameMessage
<1>10. Crc32Of(ba) = Xor(crc, AllOnes)
  <2>1. 8 * Len(ba) = 8*28 BY <1>2
  <2>. QED BY <2>1, <1>2 DEF Crc32Of
<1>11. Accepted(ba') BY <1>3, <1>8, <1>9, <1>10 DEF Accepted
<1>12. Checked' BY <1>1, <1>7, <1>11 DEF Checked
<1>13. RuleWritten'
  <2>1. RuleWritten BY <1>1 DEF Written
  <2>2. SaysRule(ba, asked.rule, asked.isPause) <=>
          SaysRule(ba', asked.rule, asked.isPause)
    BY <1>7, SayingGoesOn
  <2>. QED BY <2>1, <2>2, <1>1, RuleStays
<1>14. pc' = "sent" => to' \in 0..MAX_NUM_ROBOTS BY <1>1 DEF IsSent
<1>. QED BY <1>1, <1>12, <1>13, <1>14 DEF Written

LEMMA MessagesAreKept ==
    ASSUME Reading, Checked, Written, [MessageNext]_programVars
    PROVE  Checked' /\ Written'
<1>1. ASSUME pc' \in {"config", "idle", "crashed"} PROVE Checked' /\ Written'
  BY <1>1 DEF Checked, Written
<1>2. CASE ReadLine BY <1>1, <1>2 DEF ReadLine
<1>3. CASE EndOfFile BY <1>1, <1>3 DEF EndOfFile
<1>4. CASE NoFile BY <1>1, <1>4 DEF NoFile
<1>5. CASE SendRule BY <1>5, SendingARule
<1>6. CASE WritePastNewmess BY <1>1, <1>6 DEF WritePastNewmess
<1>7. CASE SendRemoteCommand BY <1>7, SendingACommand
<1>8. CASE CrcStep BY <1>8, CheckingAByte
<1>9. CASE AppendCrc BY <1>9, AppendingTheChecksum
<1>10. CASE Arrive
  <2>1. /\ pc = "sent" /\ pc' = "arrived" /\ ba' = ba
        /\ \E burst \in Bursts : arrived' = Damaged(ba, burst)
    BY <1>10 DEF Arrive
  <2>. QED BY <2>1 DEF Checked, Written
<1>11. CASE Finish BY <1>1, <1>11 DEF Finish
<1>12. CASE UNCHANGED programVars
  <2>1. UNCHANGED <<pc, opened, file, line, config, asked, to, ba, crc, vsp, arrived>>
    BY <1>12 DEF programVars, configVars, messageVars
  <2>2. Checked' BY <2>1 DEF Checked
  <2>3. RuleWritten => RuleWritten' BY <2>1, RuleStays
  <2>. QED BY <2>1, <2>2, <2>3 DEF Written
<1>. QED BY <1>2, <1>3, <1>4, <1>5, <1>6, <1>7, <1>8, <1>9, <1>10, <1>11, <1>12
     DEF MessageNext

LEMMA MessagesAreSound ==
    MessageSpec => [](Reading /\ Checked /\ Written)
<1>1. MessageInit => Reading /\ Checked /\ Written
  <2>. SUFFICES ASSUME MessageInit PROVE Reading /\ Checked /\ Written OBVIOUS
  <2>. QED BY InitiallyReading DEF Checked, Written
<1>2. Reading /\ Checked /\ Written /\ [MessageNext]_programVars
        => Reading' /\ Checked' /\ Written'
  BY ReadingIsKept, MessagesAreKept
<1>. QED BY <1>1, <1>2, PTL DEF MessageSpec

(* A rule, its columns read as the configuration says, reaches the robot    *)
(* with the signs of its speeds.                                            *)
THEOREM RulesAreObeyedAsWritten == MessageSpec => []RulesReachTheRobot
<1>1. Written => RulesReachTheRobot
  <2>. SUFFICES ASSUME Written, pc = "sent", WellConfigured, IsRule, InRange(asked.rule)
                PROVE  /\ to = Truncated(asked.rule[1]) /\ to \in 0..MAX_NUM_ROBOTS
                       /\ <<Word(ba, 5), Word(ba, 9), Word(ba, 13), ba[28]>> =
                            IF asked.isPause THEN <<0, 0, 0, 0>>
                            ELSE <<Truncated(asked.rule[2]), Truncated(asked.rule[3]),
                                   Truncated(asked.rule[5]),
                                   Truncated(asked.rule[4]) % 256>>
    BY DEF RulesReachTheRobot
  <2>1. RuleWritten /\ to \in 0..MAX_NUM_ROBOTS BY DEF Written
  <2>2. to = Truncated(asked.rule[1]) /\ SaysRule(ba, asked.rule, asked.isPause)
    BY <2>1 DEF RuleWritten
  <2>. QED BY <2>1, <2>2 DEF SaysRule, Says
<1>. QED BY <1>1, MessagesAreSound, PTL

(* What arrives is taken just when it is what was sent: no burst of damage *)
(* within 32 bits, wherever it falls, leaves a message that is accepted.   *)
THEOREM DamageIsAlwaysNoticed == MessageSpec => []DamageIsNoticed
<1>1. Checked => DamageIsNoticed
  <2>. SUFFICES ASSUME Checked, pc = "arrived"
                PROVE  Accepted(arrived) <=> arrived = ba
    BY DEF DamageIsNoticed
  <2>1. ba \in Seq(Bytes) /\ Len(ba) = 32 /\ Accepted(ba) BY DEF Checked
  <2>2. PICK burst \in Bursts : arrived = Damaged(ba, burst) BY DEF Checked
  <2>3. PICK p \in 0..224 : burst \subseteq p..p+31 BY BurstAssumption
  <2>4. Accepted(arrived) => burst = {} BY <2>1, <2>2, <2>3, BurstsAreRefused
  <2>5. burst = {} => arrived = ba BY <2>1, <2>2, DamageFlips
  <2>. QED BY <2>1, <2>4, <2>5
<1>. QED BY <1>1, MessagesAreSound, PTL

=============================================================================
