-------------------------- MODULE MCHistoryClient --------------------------
(* HistoryClient for TLC: one call for two TAGs beside one for a single TAG. *)
EXTENDS HistoryClient

TwoAndOne == [c \in {"c1", "c2"} |-> IF c = "c1" THEN {"x", "y"} ELSE {"x"}]
=============================================================================
