---------------------------- MODULE RobotMessage ----------------------------
(***************************************************************************)
(* The datagram a robot is sent, from the numbers of a rule or of the      *)
(* remote control to the bytes that arrive.  MainAlgWorker reads the shape *)
(* of the Rules matrix from LARCmaCS.cnf, squeezes a row through an array  *)
(* of chars into a Message, and Message appends a checksum; the window     *)
(* does the same for the remote control, with code of its own.             *)
(*                                                                         *)
(* A number of the script is given in tenths, to show what becomes of      *)
(* fractions.  A byte is a number, the checksum the set of its one bits,   *)
(* so that exclusive or is the symmetric difference.                       *)
(***************************************************************************)
EXTENDS Integers, Sequences

CONSTANTS
    MAX_NUM_ROBOTS,
    Files,      \* The files there may be: sequences of [key, value], numbers
                \* as atoi reads them.
    Rows,       \* Rows of Rules: functions of the column, in tenths.
    Windows,    \* What the remote control asks for: [x, y, r, kickUp].
    Junk,       \* Numbers found where none was ever stored.
    Bursts      \* Damage on the way: sets of bit positions.

ASSUME RobotAssumption == MAX_NUM_ROBOTS \in 1..127
ASSUME JunkAssumption == Junk \subseteq -128..127 /\ Junk # {}
ASSUME FileAssumption ==
    \A lines \in Files : Len(lines) \in Nat /\ DOMAIN lines = 1..Len(lines)
ASSUME RowAssumption == \A row \in Rows : DOMAIN row = 0..6
ASSUME WindowAssumption ==
    \A w \in Windows : w.x \in Int /\ w.y \in Int /\ w.r \in Int
(* Damage comes in bursts: what is flipped lies within 32 bits. *)
ASSUME BurstAssumption ==
    \A burst \in Bursts : \E p \in 0..224 : burst \subseteq p..p+31

VARIABLES
    pc,         \* Where the program is.
    opened,     \* LARCmaCS.cnf could be opened
    file,       \* and has these lines;
    line,       \* this one is next.
    config,     \* What the configuration says by now.
    asked,      \* History: what the message under way is to say.
    to,         \* The robot number it goes to.
    ba,         \* Its bytes.
    crc, vsp,   \* The checksum after vsp bytes.
    arrived     \* The bytes that arrive.

configVars == <<opened, file, line, config>>
messageVars == <<asked, to, ba, crc, vsp, arrived>>
programVars == <<pc, configVars, messageVars>>

AllOnes == 0..31

MessageInit ==
    /\ pc = "config"
    /\ opened \in BOOLEAN
    /\ file \in (IF opened THEN Files ELSE {<<>>}) /\ line = 1
    /\ \E junk \in Junk : config = [RULE_AMOUNT |-> junk, RULE_LENGTH |-> junk,
                                     file_of_matlab |-> "unset"]
    /\ asked = <<>> /\ to = 0 /\ ba = <<>> /\ crc = AllOnes /\ vsp = 0 /\ arrived = <<>>

-----------------------------------------------------------------------------
(* init and initConfig. *)

(* Every line that names a key stores its number, whatever stood there. *)
Store(c, l) == IF l.key \in DOMAIN c THEN [c EXCEPT ![l.key] = l.value] ELSE c

ReadLine ==
    /\ pc = "config" /\ opened /\ line <= Len(file)
    /\ config' = Store(config, file[line])
    /\ line' = line + 1
    /\ UNCHANGED <<pc, opened, file, messageVars>>

(* init prints what it has read, through a wild pointer if no line named *)
(* the script.                                                           *)
EndOfFile ==
    /\ pc = "config" /\ opened /\ line > Len(file)
    /\ pc' \in IF config.file_of_matlab = "unset" THEN {"idle", "crashed"} ELSE {"idle"}
    /\ UNCHANGED <<configVars, messageVars>>

(* "main" and the name of the program are put into the same array, one   *)
(* after the other.                                                      *)
NoFile ==
    /\ pc = "config" /\ ~opened
    /\ config' = [RULE_AMOUNT |-> 5, RULE_LENGTH |-> 7, file_of_matlab |-> "Robofootball"]
    /\ pc' = "idle"
    /\ UNCHANGED <<opened, file, line, messageVars>>

-----------------------------------------------------------------------------
(* Messages: the fields in the order they are written, with their sizes. *)

LittleEndian(v) ==
    <<v % 256, (v \div 256) % 256, (v \div 65536) % 256, (v \div 16777216) % 256>>

sync == <<170, 170, 170, 170>>

(* Dribbler, kick up and their like stay as Message() made them. *)
generateByteArray(m) ==
    sync \o LittleEndian(m.x) \o LittleEndian(m.y) \o LittleEndian(m.r)
         \o LittleEndian(0) \o <<0>> \o LittleEndian(12) \o <<1, 0, m.kick % 256>>

(* remcontrolsender, for which b is never -1. *)
serializeCommand(w) ==
    sync \o LittleEndian(w.x) \o LittleEndian(w.y) \o LittleEndian(w.r)
         \o LittleEndian(0) \o <<0>> \o LittleEndian(4)
         \o <<1, IF w.kickUp THEN 1 ELSE 0, 0>>

Truncated(tenths) == IF tenths < 0 THEN -((-tenths) \div 10) ELSE tenths \div 10

IsChar(v) == v \in -128..127

NarrowedToUnsigned(row, j, junk) ==
    IF j < config.RULE_LENGTH THEN Truncated(row[j]) % 256 ELSE junk

(* newmess[j].  A double leaves itself without its fraction in a char, and *)
(* something else if that does not fit; columns there are not leave what   *)
(* was on the stack.                                                       *)
Narrowed(row, j, junk) ==
    IF j < config.RULE_LENGTH /\ IsChar(Truncated(row[j])) THEN Truncated(row[j])
    ELSE junk

Begin(bytes) ==
    /\ ba' = bytes
    /\ crc' = AllOnes /\ vsp' = 0
    /\ arrived' = <<>>
    /\ pc' = "crc"

(* A row whose first column says so becomes a message, stopping the robot *)
(* while the pause lasts.                                                 *)
SendRule ==
    /\ pc = "idle" /\ config.RULE_AMOUNT > 0 /\ config.RULE_LENGTH <= 100
    /\ \E row \in Rows, isPause \in BOOLEAN, junk \in Junk :
         LET newmess == [j \in 0..5 |-> Narrowed(row, j, junk)] IN
         /\ newmess[0] = 1
         /\ asked' = [rule |-> row, isPause |-> isPause]
         /\ to' = newmess[1]
         /\ Begin(generateByteArray(
                IF isPause THEN [x |-> 0, y |-> 0, r |-> 0, kick |-> 0]
                ELSE [x |-> newmess[2], y |-> newmess[3], r |-> newmess[5],
                      kick |-> newmess[4]]))
    /\ UNCHANGED configVars

(* More columns than newmess has room for. *)
WritePastNewmess ==
    /\ pc = "idle" /\ config.RULE_AMOUNT > 0 /\ config.RULE_LENGTH > 100
    /\ pc' = "crashed"
    /\ UNCHANGED <<configVars, messageVars>>

SendRemoteCommand ==
    /\ pc = "idle"
    /\ \E w \in Windows :
         /\ asked' = [window |-> w]
         /\ Begin(serializeCommand(w))
    /\ to' = 0
    /\ UNCHANGED configVars

-----------------------------------------------------------------------------
(* The checksum: calculateCRC of Message, and Crc32 of the window. *)

Xor(a, b) == (a \ b) \cup (b \ a)
ShiftRight(word, n) == {b - n : b \in {c \in word : c >= n}}

Weight(b) == <<1, 2, 4, 8, 16, 32, 64, 128>>[b + 1]
BitsOf(byte) == {b \in 0..7 : (byte \div Weight(b)) % 2 = 1}

Polynomial == {5, 8, 9, 15, 19, 20, 21, 23, 24, 26, 27, 29, 30, 31} \* 0xEDB88320

HalfStep(word) ==
    IF 0 \in word THEN Xor(ShiftRight(word, 1), Polynomial) ELSE ShiftRight(word, 1)

HalfSteps(word, turns) ==
    LET after[j \in 0..turns] == IF j = 0 THEN word ELSE HalfStep(after[j - 1])
    IN after[turns]

crc_table == [byte \in SUBSET (0..7) |-> HalfSteps(byte, 8)]

NextCrcUnmasked(word, byte) ==
    Xor(crc_table[Xor(word, BitsOf(byte)) \cap 0..7], ShiftRight(word, 7))

NextCrc(word, byte) ==
    Xor(crc_table[Xor(word, BitsOf(byte)) \cap 0..7], ShiftRight(word, 8))

NumberOf(bits) ==
    LET part(b) == IF b \in bits THEN Weight(b) ELSE 0
    IN part(0) + part(1) + part(2) + part(3) + part(4) + part(5) + part(6) + part(7)
BytesOf(word) == [k \in 1..4 |-> NumberOf(ShiftRight(word, 8 * (k - 1)) \cap 0..7)]

CrcStep ==
    /\ pc = "crc" /\ vsp < 28
    /\ crc' = NextCrc(crc, ba[vsp + 1])
    /\ vsp' = vsp + 1
    /\ UNCHANGED <<pc, configVars, asked, to, ba, arrived>>

(* Rules for all robots, or one there is; the remote control has one address. *)
IsSent == to \in 0..MAX_NUM_ROBOTS

AppendCrc ==
    /\ pc = "crc" /\ vsp = 28
    /\ ba' = ba \o BytesOf(Xor(crc, AllOnes))
    /\ pc' = IF IsSent THEN "sent" ELSE "kept"
    /\ UNCHANGED <<configVars, asked, to, crc, vsp, arrived>>

-----------------------------------------------------------------------------
(* The network, and the robot's side of the format. *)

Damaged(bytes, burst) ==
    [k \in DOMAIN bytes |->
        NumberOf(Xor(BitsOf(bytes[k]),
                     {b \in 0..7 : 8 * (k - 1) + b \in burst}))]

Arrive ==
    /\ pc = "sent"
    /\ \E burst \in Bursts : arrived' = Damaged(ba, burst)
    /\ pc' = "arrived"
    /\ UNCHANGED <<configVars, asked, to, ba, crc, vsp>>

(* The next message starts from nothing. *)
Finish ==
    /\ pc \in {"arrived", "kept"}
    /\ pc' = "idle"
    /\ asked' = <<>> /\ to' = 0 /\ arrived' = <<>>
    /\ ba' = <<>> /\ crc' = AllOnes /\ vsp' = 0
    /\ UNCHANGED configVars

MessageNext ==
    \/ ReadLine \/ EndOfFile \/ NoFile
    \/ SendRule \/ WritePastNewmess \/ SendRemoteCommand
    \/ CrcStep \/ AppendCrc
    \/ Arrive \/ Finish

MessageSpec == MessageInit /\ [][MessageNext]_programVars

-----------------------------------------------------------------------------
(* The reference: CRC-32, one bit after the other, lowest bit first.  *)

ShiftedIn(word, bit) ==
    IF 0 \in word <=> bit THEN ShiftRight(word, 1)
    ELSE Xor(ShiftRight(word, 1), Polynomial)

(* What n bits, of which those in ones are set, make of a word. *)
Fed(word, ones, n) ==
    LET from[at \in (SUBSET AllOnes) \X (0..n)] ==
          IF at[2] = n THEN at[1]
          ELSE from[<<ShiftedIn(at[1], at[2] \in ones), at[2] + 1>>]
    IN from[<<word, 0>>]

(* The bits of all bytes, each byte's lowest first. *)
Bits(bytes) ==
    {n \in 0..8*Len(bytes)-1 : n % 8 \in BitsOf(bytes[(n \div 8) + 1])}

Crc32Of(bytes) == Xor(Fed(AllOnes, Bits(bytes), 8 * Len(bytes)), AllOnes)

Accepted(bytes) == SubSeq(bytes, 29, 32) = BytesOf(Crc32Of(SubSeq(bytes, 1, 28)))

Word(bytes, from) ==
    LET high == bytes[from + 3] IN
    (IF high >= 128 THEN high - 256 ELSE high) * 16777216
      + bytes[from + 2] * 65536 + bytes[from + 1] * 256 + bytes[from]

-----------------------------------------------------------------------------
(* Properties. *)

LastValue(key) ==
    LET mine == {k \in DOMAIN file : file[k].key = key} IN
    IF mine = {} THEN 0 ELSE file[CHOOSE k \in mine : \A m \in mine : m <= k].value

(* The file, read to its end, tells how many rules there are and that a   *)
(* rule has all its columns.                                              *)
WellConfigured ==
    ~opened \/ (LastValue("RULE_AMOUNT") > 0 /\ LastValue("RULE_LENGTH") \in 6..100)

IsRule == asked # <<>> /\ "rule" \in DOMAIN asked
InRange(row) == \A j \in 0..6 : IsChar(Truncated(row[j]))

(* The robot is asked to do what the rule says, fractions cut off, or to  *)
(* stand still while the program is paused; speeds keep their signs on    *)
(* the way through chars, ints and unsigned words.                        *)
RulesReachTheRobot ==
    pc = "sent" /\ WellConfigured /\ IsRule =>
      LET row == asked.rule IN
      InRange(row) =>
        /\ to = Truncated(row[1]) /\ to \in 0..MAX_NUM_ROBOTS
        /\ <<Word(ba, 5), Word(ba, 9), Word(ba, 13), ba[28]>> =
             IF asked.isPause THEN <<0, 0, 0, 0>>
             ELSE <<Truncated(row[2]), Truncated(row[3]), Truncated(row[5]),
                    Truncated(row[4]) % 256>>

(* Both senders write one format, so one robot can read both; and a robot *)
(* that computes the checksum its own way takes what arrives unharmed and *)
(* refuses what was damaged within 32 bits.                               *)
DamageIsNoticed ==
    pc = "arrived" => (Accepted(arrived) <=> arrived = ba)

=============================================================================
