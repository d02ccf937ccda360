--------------------------- MODULE MCNotification ---------------------------
(* Instances of Notification for TLC.  Processes and runs are model values   *)
(* that the specification only compares, so permuting them is sound.         *)
EXTENDS Notification, TLC

Symmetry == Permutations(Process) \cup Permutations(Run)
=============================================================================
