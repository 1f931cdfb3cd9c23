-------------------------- MODULE MCCommandDispatch --------------------------
(* CommandDispatch with a motion that kicks while driving: its two forms for *)
(* the simulator differ from each other and from standing still, in speed    *)
(* and in kick.                                                              *)
EXTENDS CommandDispatch

MCMotions == {[speed |-> 1, kick |-> 1]}
=============================================================================
