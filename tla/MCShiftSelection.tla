-------------------------- MODULE MCShiftSelection --------------------------
(* ShiftSelection for TLC: the values of its constants. *)
EXTENDS ShiftSelection

TeamRotation == [i \in 0..2 |-> <<"B", "C", "A">>[i + 1]]
MCFirstTime == -9
MCFirstDate == -1
=============================================================================
