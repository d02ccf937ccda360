-------------------------- MODULE PackageRegister --------------------------
(***************************************************************************)
(* What DeliveryManager.deliver promises about one run ID, whatever it     *)
(* does to directories: there is one current Result Package, it is         *)
(* replaced in a single step by a complete newer one, never when the call  *)
(* was not allowed to overwrite, and a call that reports failure has       *)
(* changed nothing.  Packages are named by the number of the call that     *)
(* generated them; 0 is "no package yet".                                  *)
(***************************************************************************)
EXTENDS Naturals

CONSTANT MaxCalls   \* bound: how many times deliver is called

VARIABLES
  current,          \* the last successful package
  calls,            \* calls made so far
  busy,             \* a call is executing
  overwrite,        \* the overwrite argument of the latest call
  outcome           \* how the latest call ended

vars == <<current, calls, busy, overwrite, outcome>>

Init ==
  /\ current = 0
  /\ calls = 0
  /\ busy = FALSE
  /\ overwrite \in BOOLEAN
  /\ outcome = "none"

\* A call is accepted, or refused at once for its arguments.
Begin ==
  /\ ~busy
  /\ calls < MaxCalls
  /\ calls' = calls + 1
  /\ overwrite' \in BOOLEAN
  /\ busy' \in BOOLEAN
  /\ outcome' = IF busy' THEN "none" ELSE "error"
  /\ UNCHANGED current

\* The new package replaces the old one; the call may still have to clean up.
Commit ==
  /\ busy
  /\ current # calls
  /\ current = 0 \/ overwrite
  /\ current' = calls
  /\ \/ UNCHANGED <<busy, outcome>>
     \/ busy' = FALSE /\ outcome' = "ok"
  /\ UNCHANGED <<calls, overwrite>>

Finish(how) ==
  /\ busy
  /\ busy' = FALSE
  /\ outcome' = how
  /\ UNCHANGED <<current, calls, overwrite>>

Succeed == current = calls /\ Finish("ok")
Fail    == current # calls /\ Finish("error")
Crash   == Finish("crashed")

Next == Begin \/ Commit \/ Succeed \/ Fail \/ Crash

Spec == Init /\ [][Next]_vars
=============================================================================
