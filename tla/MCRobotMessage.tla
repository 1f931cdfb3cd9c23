--------------------------- MODULE MCRobotMessage ---------------------------
(* Values of the constants of RobotMessage for model checking. *)
EXTENDS RobotMessage, TLC

Line(key, value) == [key |-> key, value |-> value]

MCFiles ==
    {<<Line("file_of_matlab", "main"), Line("RULE_AMOUNT", 5), Line("RULE_LENGTH", 7)>>,
     <<Line("RULE_LENGTH", 3), Line("RULE_AMOUNT", 5), Line("RULE_LENGTH", 7)>>,
     <<Line("RULE_LENGTH", 7), Line("RULE_AMOUNT", 5), Line("RULE_LENGTH", 101)>>,
     <<Line("name", 0), Line("file_of_matlab", "main"), Line("RULE_AMOUNT", 5)>>,  \* The length is missing,
     <<Line("RULE_LENGTH", 6)>>,     \* or the amount,
     <<>>}                           \* or everything.

Row(active, robot, x, y, kick, r) ==
    0 :> active @@ 1 :> robot @@ 2 :> x @@ 3 :> y @@ 4 :> kick @@ 5 :> r @@ 6 :> 0

MCRows ==
    {Row(10, 40, 300, 300, 0, 0),
     Row(10, 0, -1000, 1000, 10, -10),
     Row(15, 30, 999, -999, 10, 1270),
     Row(10, 10, 1280, -1290, 0, 0),     \* Beyond a char,
     Row(10, 50, 100, 100, 0, 0),        \* for a robot there is not,
     Row(0, 20, 500, 500, 10, 500)}      \* and a row not in use.

MCWindows ==
    {[x |-> -20, y |-> 0, r |-> 10, kickUp |-> FALSE],
     [x |-> 300, y |-> -150, r |-> 0, kickUp |-> TRUE]}

MCBursts ==
    {{}} \cup {{p} : p \in 0..255}
         \cup {{p, p + d} : p \in {0, 33, 191, 223}, d \in {1, 8, 31}}
         \cup {p..p+31 : p \in {0, 33, 192, 224}}
=============================================================================
