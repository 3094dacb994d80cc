---------------------------- MODULE MCEngineRun ----------------------------
(* Instances of EngineRun small enough for TLC: the order of the limits is *)
(* the one of the code, 2 and 2 and 5 and 10 seconds, at a smaller scale.  *)
EXTENDS EngineRun

ShortTimeouts == [summary |-> 1, standard |-> 2, deep |-> 3]
=============================================================================
