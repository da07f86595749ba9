----------------------------- MODULE MCBakeRun -----------------------------
(* Instances of BakeRun for TLC.                                            *)
EXTENDS BakeRun

MCAutoOrNone ==
  {[alg |-> "Auto", blocks |-> {}], [alg |-> "None", blocks |-> {}]}
=============================================================================
