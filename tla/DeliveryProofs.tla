--------------------------- MODULE DeliveryProofs ---------------------------
(***************************************************************************)
(* Proofs about Delivery, for any number of calls and whether or not       *)
(* directories can be removed; and about Notification, which mails what    *)
(* was delivered, for any processes, runs and calls.                       *)
(***************************************************************************)
EXTENDS Delivery, TLAPS

\* The parameters of Notification.
CONSTANTS Process, Run, Modes, MaxSends
VARIABLES file, mailPc, run, mode, doc, accepted, calls, copies, confirmed, late

Mail == INSTANCE Notification WITH MaxCalls <- MaxSends, pc <- mailPc

(***************************************************************************)
(* The inductive invariant.  TypeOK /\ TargetIsWhole /\ LastPackageKept is *)
(* not inductive: one must know what the call under way has in its         *)
(* temporary directory and which backup its local variable names.          *)
(***************************************************************************)

\* Calls are numbered in order, so packages on disk are no newer than the
\* latest call, and published ones no newer than the last published.
Ordered ==
  /\ last <= call
  /\ \A v \in backups \cup temps \cup whole : v <= call
  /\ \A v \in backups : v <= last
  /\ last \notin temps
  /\ target # NoPackage => target = last

Published ==
  /\ target # NoPackage => target \in whole
  /\ target = NoPackage /\ last # NoPackage => last \in backups \cap whole
  /\ last = NoPackage => backups = {}

\* Recovery removes leftovers only.
Recovering ==
  /\ pc = "recover" => call \notin backups \cup temps \cup whole
  /\ pc = "clean" => /\ stale \subseteq backups \cup temps
                     /\ target = last
                     /\ call \notin backups \cup temps \cup whole

\* From mkdtemp until the package is published or discarded.
Working ==
  /\ pc \in {"render", "write", "swap", "publish", "unpark", "fail"} =>
       call \in temps /\ last < call
  /\ pc \in {"swap", "publish", "unpark"} => call \in whole
  /\ pc \in {"clean", "render", "write", "swap"} => target = last /\ backup = NoPackage
  /\ pc \in {"publish", "unpark"} => target = NoPackage
  /\ pc = "publish" => backup = last
  /\ pc = "unpark" => backup = last /\ backup # NoPackage
  /\ pc \in {"fail", "fallback"} => backup \in {NoPackage, last}
  /\ pc \in {"recover"} => backup = NoPackage
  /\ pc = "drop" => backup \in backups /\ backup # last /\ target = call
  /\ pc \in {"recover", "clean", "fallback"} => last < call

IInv == TypeOK /\ Ordered /\ Published /\ Recovering /\ Working
\* A call that returns or raises without touching the disk keeps it.
LEMMA LeaveKeeps ==
  ASSUME IInv, UNCHANGED <<disk, last>>,
         NEW from, NEW how \in {"none", "ok", "error", "crashed"}, Leave(from, how)
  PROVE  IInv'
BY DEF IInv, TypeOK, Ordered, Published, Recovering, Working, Package, NoPackage,
       disk, place, Goto, Leave

\* Every step of deliver, and every crash, keeps the inductive invariant.
LEMMA InvariantStep == IInv /\ [Next]_vars => IInv'
<1> SUFFICES ASSUME IInv, [Next]_vars PROVE IInv'
  OBVIOUS
<1> USE MaxCallsAssumption
    DEF IInv, TypeOK, Ordered, Published, Recovering, Working,
        Package, NoPackage, disk, place, local, Goto, Leave
<1>1. CASE Call
  BY <1>1 DEF Call
<1>2. CASE RemoveJunk
  <2>1. junk' \in BOOLEAN
    BY <1>2, Zenon DEF RemoveJunk
  <2>2. UNCHANGED <<target, backups, temps, whole, removable, pc, call, overwrite, backup,
                    stale, outcome, last>>
    BY <1>2 DEF RemoveJunk
  <2>3. QED
    BY <2>1, <2>2
<1>3. CASE RecoverRefuses
  BY <1>3, LeaveKeeps DEF RecoverRefuses
<1>4. CASE RecoverRestores
  <2>1. PICK v \in backups :
          /\ backups = {v}
          /\ \/ /\ Goto("recover", "clean")
                /\ target' = v
                /\ backups' = {}
                /\ stale' = temps
                /\ UNCHANGED <<temps, whole, place, call, overwrite, backup, outcome>>
             \/ Leave("recover", "error") /\ UNCHANGED disk
    BY <1>4 DEF RecoverRestores
  <2>2. target = NoPackage /\ UNCHANGED last
    BY <1>4 DEF RecoverRestores
  <2>3. CASE Leave("recover", "error") /\ UNCHANGED disk
    BY <2>2, <2>3, LeaveKeeps
  <2>4. CASE Goto("recover", "clean") /\ target' = v /\ backups' = {} /\ stale' = temps
             /\ UNCHANGED <<temps, whole, place, call, overwrite, backup, outcome>>
    <3>1. v = last /\ v \in Package /\ v \in whole /\ v \notin temps
      BY <2>1, <2>2
    <3>2. TypeOK'
      BY <2>2, <2>4, <3>1
    <3>3. Ordered' /\ Published'
      BY <2>2, <2>4, <3>1
    <3>4. Recovering' /\ Working'
      BY <2>2, <2>4, <3>1
    <3>5. QED
      BY <3>2, <3>3, <3>4
  <2>5. QED
    BY <2>1, <2>3, <2>4
<1>5. CASE RecoverNothing
  BY <1>5 DEF RecoverNothing
<1>6. CASE RemoveStale
  BY <1>6 DEF RemoveStale, Remove, NextStale
<1>7. CASE RefuseOverwrite
  BY <1>7 DEF RefuseOverwrite
<1>8. CASE MakeTemporary
  <2>1. CASE Leave("clean", "error") /\ UNCHANGED disk
    BY <1>8, <2>1, LeaveKeeps DEF MakeTemporary
  <2>2. CASE Goto("clean", "render") /\ temps' = temps \cup {call}
             /\ UNCHANGED <<target, backups, whole, place, local, outcome>>
    <3>1. call \in Package /\ call # target /\ UNCHANGED last
      BY <1>8, <2>2 DEF MakeTemporary
    <3>2. TypeOK' /\ Ordered'
      BY <2>2, <3>1
    <3>3. Published' /\ Recovering' /\ Working'
      BY <2>2, <3>1
    <3>4. QED
      BY <3>2, <3>3
  <2>3. QED
    BY <1>8, <2>1, <2>2 DEF MakeTemporary
<1>9. CASE Render
  BY <1>9 DEF Render
<1>10. CASE WriteResult
  BY <1>10 DEF WriteResult
<1>11. CASE Park
  <2>1. target = last /\ target \in Package
    BY <1>11 DEF Park
  <2>2. UNCHANGED <<temps, whole, place, call, overwrite, stale, outcome, last>>
    BY <1>11 DEF Park
  <2>3. CASE Goto("swap", "publish") /\ backup' = target /\ target' = NoPackage
             /\ backups' = backups \cup {target}
    <3>1. TypeOK' /\ Ordered'
      BY <2>1, <2>2, <2>3
    <3>2. Published' /\ Recovering' /\ Working'
      BY <2>1, <2>2, <2>3
    <3>3. QED
      BY <3>1, <3>2
  <2>4. CASE Goto("swap", "fail") /\ backup' \in {target, backup}
             /\ UNCHANGED <<target, backups>>
    BY <2>1, <2>2, <2>4
  <2>5. QED
    BY <1>11, <2>3, <2>4, Zenon DEF Park
<1>12. CASE NothingToPark
  BY <1>12 DEF NothingToPark
<1>13. CASE Publish
  BY <1>13 DEF Publish
<1>14. CASE PublishFails
  BY <1>14 DEF PublishFails
<1>15. CASE Unpark
  BY <1>15 DEF Unpark
<1>16. CASE Drop
  BY <1>16 DEF Drop, Remove
<1>17. CASE DiscardTemporary
  <2>1. call \in temps /\ last < call /\ call \notin backups /\ backup \in {NoPackage, last}
    BY <1>17 DEF DiscardTemporary
  <2>2. /\ UNCHANGED <<target, backups, place, local, outcome, last>>
        /\ temps' \subseteq temps /\ whole' \subseteq whole /\ whole \ {call} \subseteq whole'
    BY <1>17, <2>1 DEF DiscardTemporary, Remove
  <2>3. pc = "fail" /\ pc' = "fallback"
    BY <1>17 DEF DiscardTemporary
  <2>4. TypeOK' /\ Ordered'
    BY <2>1, <2>2, <2>3
  <2>5. Published'
    BY <2>1, <2>2
  <2>6. Recovering' /\ Working'
    BY <2>1, <2>2, <2>3
  <2>7. QED
    BY <2>4, <2>5, <2>6
<1>18. CASE Fallback
  BY <1>18 DEF Fallback
<1>19. CASE Crash
  BY <1>19 DEF Crash, Removing, NextStale
<1>20. CASE UNCHANGED vars
  BY <1>20 DEF vars
<1>21. QED
  BY <1>1, <1>2, <1>3, <1>4, <1>5, <1>6, <1>7, <1>8, <1>9, <1>10, <1>11,
     <1>12, <1>13, <1>14, <1>15, <1>16, <1>17, <1>18, <1>19, <1>20 DEF Next

\* The inductive invariant holds of every behaviour.
THEOREM InductiveInvariant == Spec => []IInv
<1>1. Init => IInv
  BY MaxCallsAssumption DEF Init, IInv, TypeOK, Ordered, Published, Recovering,
     Working, Package, NoPackage
<1>2. QED
  BY <1>1, InvariantStep, PTL DEF Spec

-----------------------------------------------------------------------------
\* Type correctness: every directory is in one place, for any MaxCalls.
THEOREM TypeCorrect == Spec => []TypeOK
<1>1. IInv => TypeOK
  BY DEF IInv
<1>2. QED
  BY <1>1, InductiveInvariant, PTL

\* Whoever opens the formal directory finds a complete package.
THEOREM TargetAlwaysWhole == Spec => []TargetIsWhole
<1>1. IInv => TargetIsWhole
  BY DEF IInv, Published, TargetIsWhole
<1>2. QED
  BY <1>1, InductiveInvariant, PTL

\* The last published package is in the formal directory or complete in a backup.
THEOREM LastPackageNeverLost == Spec => []LastPackageKept
<1>1. IInv => LastPackageKept
  BY DEF IInv, TypeOK, Ordered, Published, LastPackageKept
<1>2. QED
  BY <1>1, InductiveInvariant, PTL

\* No call does work of its own before the last package is back in place.
THEOREM AlwaysBuildsOnLast == Spec => []BuildsOnLast
<1>1. IInv => BuildsOnLast
  BY DEF IInv, Recovering, Working, BuildsOnLast
<1>2. QED
  BY <1>1, InductiveInvariant, PTL

-----------------------------------------------------------------------------
\* A call that is past recovery replaces a package only when it may; the second
\* check of deliver (manager.py:105) repeats the first one, and with one writer
\* per run ID it can no longer refuse.
Allowed ==
  pc \in {"render", "write", "swap", "publish"} /\ last # NoPackage => overwrite = TRUE

THEOREM OverwriteAllowed == Spec => []Allowed
<1>1. Init => Allowed
  BY DEF Init, Allowed
<1>2. IInv /\ Allowed /\ [Next]_vars => Allowed'
  <2> SUFFICES ASSUME IInv, Allowed, [Next]_vars,
                      pc' \in {"render", "write", "swap", "publish"}, last' # NoPackage
               PROVE  overwrite' = TRUE
    BY DEF Allowed
  <2> USE DEF Goto, Leave, disk, place, local
  <2>1. CASE MakeTemporary
    <3>1. target = last /\ UNCHANGED <<last, overwrite>>
      BY <2>1 DEF MakeTemporary, IInv, Working
    <3>2. overwrite \in BOOLEAN /\ (target = NoPackage \/ overwrite)
      BY <2>1, Zenon DEF MakeTemporary, IInv, TypeOK
    <3>3. QED
      BY <3>1, <3>2, Zenon
  <2>2. CASE pc \in {"render", "write", "swap", "publish"} /\ UNCHANGED <<overwrite, last>>
    BY <2>2 DEF Allowed
  <2>3. CASE ~MakeTemporary
    <3>1. pc \in {"render", "write", "swap", "publish"} /\ UNCHANGED <<overwrite, last>>
      BY <2>3 DEF Next, vars, Call, RemoveJunk, RecoverRefuses, RecoverRestores,
         RecoverNothing, RemoveStale, RefuseOverwrite, Render, WriteResult, Park,
         NothingToPark, Publish, PublishFails, Unpark, Drop, DiscardTemporary,
         Fallback, Crash
    <3>2. QED
      BY <2>2, <3>1
  <2>4. QED
    BY <2>1, <2>3
<1>3. QED
  BY <1>1, <1>2, InductiveInvariant, PTL DEF Spec

-----------------------------------------------------------------------------
(***************************************************************************)
(* The refinement.  Under the invariant the refinement mapping names the   *)
(* last published package, so only Publish moves the abstract register.    *)
(***************************************************************************)

LEMMA CurrentIsLast == IInv => Current = last
<1> SUFFICES ASSUME IInv PROVE Current = last
  OBVIOUS
<1> USE DEF IInv, TypeOK, Ordered, Published, Package, NoPackage
<1>1. CASE target # NoPackage
  BY <1>1 DEF Current
<1>2. CASE target = NoPackage /\ backups = {}
  BY <1>2 DEF Current
<1>3. CASE target = NoPackage /\ backups # {}
  <2>1. last \in backups /\ \A w \in backups : w <= last
    BY <1>3
  <2>2. \A v \in backups : (\A w \in backups : w <= v) => v = last
    BY <2>1, MaxCallsAssumption
  <2>3. (CHOOSE v \in backups : \A w \in backups : w <= v) = last
    BY <2>1, <2>2, Zenon
  <2>4. QED
    BY <1>3, <2>3 DEF Current
<1>4. QED
  BY <1>1, <1>2, <1>3

LEMMA RegisterInit == Init => Register!Init
BY DEF Init, Register!Init, Current, NoPackage

\* What the abstract step sees of a concrete one.
LEMMA RegisterStep ==
  ASSUME IInv, IInv', Allowed, Current = last, Current' = last', [Next]_vars
  PROVE  [Register!Next]_Register!vars
<1> USE DEF Register!vars, Goto, Leave, disk, place, local
<1>1. /\ pc \in {"recover", "clean", "render", "write", "swap", "publish", "unpark",
                "fail", "fallback"} => last < call
      /\ pc = "drop" => last = call
      /\ last \in Nat /\ call \in Nat /\ last # call <=> (last < call \/ call < last)
  BY MaxCallsAssumption DEF IInv, TypeOK, Ordered, Working, Package, NoPackage
<1>2. CASE Call
  <2>1. Register!Begin
    BY <1>2 DEF Call, Register!Begin
  <2>2. QED
    BY <2>1 DEF Register!Next
<1>3. CASE Publish
  <2>1. /\ pc # "idle" /\ Current # call /\ Current' = call
        /\ UNCHANGED <<call, overwrite>>
        /\ Current = NoPackage \/ overwrite = TRUE
    BY <1>3, <1>1 DEF Publish, Allowed
  <2>2. \/ UNCHANGED <<pc # "idle", outcome>>
        \/ (pc # "idle")' = FALSE /\ outcome' = "ok"
    BY <1>3, <1>1 DEF Publish
  <2>3. Register!Commit
    BY <2>1, <2>2 DEF Register!Commit, NoPackage
  <2>4. QED
    BY <2>3 DEF Register!Next
<1>4. CASE Drop
  <2>1. /\ pc = "drop" /\ pc' = "idle" /\ outcome' = "ok" /\ Current = call
        /\ UNCHANGED <<last, call, overwrite>>
    BY <1>4, <1>1 DEF Drop
  <2>2. Register!Succeed
    BY <2>1 DEF Register!Succeed, Register!Finish
  <2>3. QED
    BY <2>2 DEF Register!Next
<1>5. ASSUME pc \in {"recover", "clean", "fallback"}, pc' = "idle", outcome' = "error",
             UNCHANGED <<last, call, overwrite>>
      PROVE  Register!Next
  BY <1>1, <1>5 DEF Register!Next, Register!Fail, Register!Finish
<1>6. CASE RecoverRefuses \/ RefuseOverwrite \/ Fallback
  <2>1. pc \in {"recover", "clean", "fallback"} /\ pc' = "idle" /\ outcome' = "error"
    BY <1>6 DEF RecoverRefuses, RefuseOverwrite, Fallback
  <2>2. UNCHANGED <<last, call, overwrite>>
    BY <1>6 DEF RecoverRefuses, RefuseOverwrite, Fallback
  <2>3. QED
    BY <2>1, <2>2, <1>5
<1>7. CASE Crash
  <2>1. Register!Crash
    BY <1>7 DEF Crash, Register!Crash, Register!Finish
  <2>2. QED
    BY <2>1 DEF Register!Next
<1>8. CASE RecoverRestores \/ MakeTemporary
  <2>1. UNCHANGED <<last, call, overwrite>>
    BY <1>8 DEF RecoverRestores, MakeTemporary
  <2>2. CASE pc' = "idle"
    <3>1. pc \in {"recover", "clean"} /\ outcome' = "error"
      BY <1>8, <2>2 DEF RecoverRestores, MakeTemporary
    <3>2. QED
      BY <2>1, <2>2, <3>1, <1>5
  <2>3. CASE pc' # "idle"
    <3>1. pc # "idle" /\ UNCHANGED outcome
      BY <1>8, <2>3 DEF RecoverRestores, MakeTemporary
    <3>2. QED
      BY <2>1, <2>3, <3>1
  <2>4. QED
    BY <2>2, <2>3
<1>9. CASE RemoveJunk
  BY <1>9 DEF RemoveJunk
<1>10. CASE RecoverNothing
  BY <1>10 DEF RecoverNothing
<1>11. CASE RemoveStale
  BY <1>11 DEF RemoveStale
<1>12. CASE Render
  BY <1>12 DEF Render
<1>13. CASE WriteResult
  BY <1>13 DEF WriteResult
<1>14. CASE Park
  BY <1>14 DEF Park
<1>15. CASE NothingToPark
  BY <1>15 DEF NothingToPark
<1>16. CASE PublishFails
  BY <1>16 DEF PublishFails
<1>17. CASE Unpark
  BY <1>17 DEF Unpark
<1>18. CASE DiscardTemporary
  BY <1>18 DEF DiscardTemporary
<1>19. CASE UNCHANGED vars
  BY <1>19 DEF vars
<1>20. QED
  BY <1>2, <1>3, <1>4, <1>6, <1>7, <1>8, <1>9, <1>10, <1>11, <1>12,
     <1>13, <1>14, <1>15, <1>16, <1>17, <1>18, <1>19 DEF Next

\* Delivery implements the register: to its callers deliver replaces the
\* current package in one step or, reporting failure, not at all.
THEOREM DeliveryImplementsRegister == Spec => ImplementsRegister
<1>1. IInv => Current = last
  BY CurrentIsLast
<1>2. IInv' => (Current = last)'
  BY <1>1, PTL
<1>3. IInv /\ IInv' /\ Allowed /\ [Next]_vars => [Register!Next]_Register!vars
  BY <1>1, <1>2, RegisterStep
<1>4. QED
  BY RegisterInit, InductiveInvariant, OverwriteAllowed, <1>3, PTL
     DEF Spec, ImplementsRegister, Register!Spec

-----------------------------------------------------------------------------
(***************************************************************************)
(* Where directories can be removed, recovery removes every leftover       *)
(* before new work starts, so at most one backup exists at a time.         *)
(***************************************************************************)
Tidy ==
  /\ pc # "idle" => outcome = "none"
  /\ pc = "clean" => backups \cup temps \subseteq stale
  /\ pc \in {"render", "write", "swap"} => backups = {}
  /\ pc \in {"publish", "unpark", "drop", "fail", "fallback"} => backups \subseteq {backup}
  /\ pc \in {"render", "write", "swap", "publish", "unpark", "fail"} => temps = {call}
  /\ pc \in {"drop", "fallback"} => temps = {}
  /\ OneCandidate
  /\ CleanAfterSuccess

LEMMA TidyStep ==
  ASSUME removable, IInv, Tidy, [Next]_vars
  PROVE  Tidy'
<1> USE DEF Tidy, OneCandidate, CleanAfterSuccess, Goto, Leave, disk, place, local
<1>1. CASE Call
  BY <1>1 DEF Call
<1>2. CASE RemoveJunk
  BY <1>2 DEF RemoveJunk, IInv, Working, NoPackage
<1>3. CASE RecoverRefuses
  BY <1>3 DEF RecoverRefuses, IInv, Working, NoPackage
<1>4. CASE RecoverRestores
  BY <1>4 DEF RecoverRestores, IInv, Working, NoPackage
<1>5. CASE RecoverNothing
  BY <1>5 DEF RecoverNothing, IInv, Working, NoPackage
<1>6. CASE RefuseOverwrite
  BY <1>6 DEF RefuseOverwrite, IInv, Working, NoPackage
<1>7. CASE MakeTemporary
  BY <1>7 DEF MakeTemporary, IInv, Working, NoPackage
<1>8. CASE Render
  BY <1>8 DEF Render, IInv, Working, NoPackage
<1>9. CASE WriteResult
  BY <1>9 DEF WriteResult, IInv, Working, NoPackage
<1>10. CASE Park
  BY <1>10 DEF Park, IInv, Working, NoPackage
<1>11. CASE NothingToPark
  BY <1>11 DEF NothingToPark, IInv, Working, NoPackage
<1>12. CASE Publish
  <2>1. backup = NoPackage => backups = {}
    BY <1>12 DEF Publish, IInv, TypeOK, Package, NoPackage
  <2>2. QED
    BY <1>12, <2>1 DEF Publish, IInv, Working
<1>13. CASE PublishFails
  BY <1>13 DEF PublishFails, IInv, Working, NoPackage
<1>14. CASE Unpark
  BY <1>14 DEF Unpark, IInv, Working, NoPackage
<1>15. CASE Fallback
  BY <1>15 DEF Fallback, IInv, Working, NoPackage
<1>16. CASE Crash
  BY <1>16 DEF Crash, IInv, Working, NoPackage
<1>17. CASE RemoveStale
  BY <1>17 DEF RemoveStale, Remove, NextStale, IInv, Working, NoPackage
<1>18. CASE Drop
  BY <1>18 DEF Drop, Remove, IInv, Working, NoPackage
<1>19. CASE DiscardTemporary
  BY <1>19 DEF DiscardTemporary, Remove, IInv, Working, NoPackage
<1>20. CASE UNCHANGED vars
  BY <1>20 DEF vars
<1>21. QED
  BY <1>1, <1>2, <1>3, <1>4, <1>5, <1>6, <1>7, <1>8, <1>9, <1>10, <1>11,
     <1>12, <1>13, <1>14, <1>15, <1>16, <1>17, <1>18, <1>19, <1>20 DEF Next

\* What kind of filesystem it is never changes.
LEMMA RemovableFixed == [Next]_vars => removable' = removable
BY DEF Next, vars, disk, place, Leave, Call, RemoveJunk, RecoverRefuses, RecoverRestores,
   RecoverNothing, RemoveStale, RefuseOverwrite, MakeTemporary, Render, WriteResult, Park,
   NothingToPark, Publish, PublishFails, Unpark, Drop, DiscardTemporary, Fallback, Crash

LEMMA TidyWhereRemovable == Spec => [](removable => Tidy)
<1>1. Init => Tidy
  BY DEF Init, Tidy, OneCandidate, CleanAfterSuccess
<1>2. IInv /\ (removable => Tidy) /\ [Next]_vars => (removable => Tidy)'
  BY TidyStep, RemovableFixed
<1>3. QED
  BY <1>1, <1>2, InductiveInvariant, PTL DEF Spec

\* Where directories can be removed, no history of crashes and failed renames
\* makes two backups compete for a missing formal directory.
THEOREM RecoveryNeverGuesses == Spec => []OneCandidate
<1>1. (removable => Tidy) => OneCandidate
  BY DEF Tidy, OneCandidate
<1>2. QED
  BY <1>1, TidyWhereRemovable, PTL

\* Where directories can be removed, a call that succeeds leaves nothing behind.
THEOREM SuccessIsClean == Spec => []CleanAfterSuccess
<1>1. (removable => Tidy) => CleanAfterSuccess
  BY DEF Tidy, CleanAfterSuccess
<1>2. QED
  BY <1>1, TidyWhereRemovable, PTL

-----------------------------------------------------------------------------
(***************************************************************************)
(* Notification.  MaxSends is a number by the assumption of that module.   *)
(***************************************************************************)
\* What is known to say "sent" truly: the file, every loaded document, and an
\* exchange that has just ended well.
Truthful ==
  /\ Mail!SentIsTrue
  /\ \A p \in Process, r \in Run : Mail!IsSent(doc[p], r) => copies[r] > 0
  /\ \A p \in Process : mailPc[p] = "record" /\ accepted[p] => copies[run[p]] > 0

MailInv == Mail!TypeOK /\ Truthful

-----------------------------------------------------------------------------
LEMMA MailInitially == ASSUME MaxSends \in Nat PROVE Mail!Init => MailInv
BY DEF Mail!Init, MailInv, Mail!TypeOK, Truthful, Mail!SentIsTrue, Mail!IsSent, Mail!NoRecord,
       Mail!Record

\* The document that is written back says nothing about a run that the loaded one
\* or the exchange did not.
LEMMA UpdatedRecord ==
  ASSUME Mail!TypeOK, NEW p \in Process
  PROVE  /\ Mail!NewDocument(p) \in [Run -> Mail!Record]
         /\ \A r \in Run : Mail!IsSent(Mail!NewDocument(p), r) =>
              IF r = run[p] THEN accepted[p] ELSE Mail!IsSent(doc[p], r)
<1>1. /\ doc[p] \in [Run -> Mail!Record] /\ run[p] \in Run
      /\ doc[p][run[p]].attempts + 1 \in Nat
  BY DEF Mail!TypeOK, Mail!Record
<1>2. [status |-> IF accepted[p] THEN "sent" ELSE "failed",
       attempts |-> doc[p][run[p]].attempts + 1] \in Mail!Record
  BY <1>1 DEF Mail!Record
<1>3. Mail!NewDocument(p) = [doc[p] EXCEPT ![run[p]] =
                          [status |-> IF accepted[p] THEN "sent" ELSE "failed",
                           attempts |-> doc[p][run[p]].attempts + 1]]
  BY DEF Mail!NewDocument, Mail!Updated
<1>4. Mail!NewDocument(p) \in [Run -> Mail!Record]
  BY <1>1, <1>2, <1>3
<1>5. ASSUME NEW r \in Run, Mail!IsSent(Mail!NewDocument(p), r), r = run[p]
      PROVE  accepted[p]
  <2>1. Mail!NewDocument(p)[r].status = IF accepted[p] THEN "sent" ELSE "failed"
    BY <1>1, <1>3, <1>5
  <2> QED
    BY <2>1, <1>5 DEF Mail!IsSent
<1>6. ASSUME NEW r \in Run, Mail!IsSent(Mail!NewDocument(p), r), r # run[p]
      PROVE  Mail!IsSent(doc[p], r)
  BY <1>1, <1>3, <1>6 DEF Mail!IsSent
<1> QED
  BY <1>4, <1>5, <1>6

LEMMA StartKeeps == ASSUME MailInv, NEW p \in Process, Mail!Start(p) PROVE MailInv'
<1>1. Mail!TypeOK'
  BY DEF MailInv, Mail!TypeOK, Mail!Start, Mail!Goto, Mail!mail
<1>2. Truthful'
  BY DEF MailInv, Mail!TypeOK, Truthful, Mail!SentIsTrue, Mail!IsSent, Mail!Start,
             Mail!Goto, Mail!mail
<1> QED
  BY <1>1, <1>2 DEF MailInv

LEMMA LoadKeeps == ASSUME MailInv, NEW p \in Process, Mail!Load(p) PROVE MailInv'
<1>1. Mail!TypeOK'
  BY DEF MailInv, Mail!TypeOK, Mail!Load, Mail!Goto, Mail!mail
<1>2. Truthful'
  BY DEF MailInv, Mail!TypeOK, Truthful, Mail!SentIsTrue, Mail!IsSent, Mail!Load,
             Mail!Goto, Mail!mail
<1> QED
  BY <1>1, <1>2 DEF MailInv

LEMMA SmtpKeeps == ASSUME MailInv, NEW p \in Process, Mail!Smtp(p) PROVE MailInv'
<1>1. run[p] \in Run /\ copies \in [Run -> Nat]
  BY DEF MailInv, Mail!TypeOK
<1>2. \A r \in Run : copies'[r] \in Nat /\ copies'[r] >= copies[r]
  BY <1>1 DEF Mail!Smtp
<1>3. accepted'[p] => copies'[run[p]] > 0
  BY <1>1 DEF Mail!Smtp, MailInv, Mail!TypeOK
<1>4. Mail!TypeOK'
  <2>1. copies' \in [Run -> Nat]
    BY <1>1 DEF Mail!Smtp
  <2>2. accepted' \in [Process -> BOOLEAN]
    BY Zenon DEF Mail!Smtp, MailInv, Mail!TypeOK
  <2>3. mailPc' \in [Process -> {"idle", "load", "smtp", "record"}]
    BY DEF Mail!Smtp, Mail!Goto, MailInv, Mail!TypeOK
  <2> QED
    BY <2>1, <2>2, <2>3 DEF MailInv, Mail!TypeOK, Mail!Smtp
<1>5. Truthful'
  <2>1. Mail!SentIsTrue'
    BY <1>1, <1>2 DEF MailInv, Truthful, Mail!SentIsTrue, Mail!IsSent, Mail!Smtp
  <2>2. \A o \in Process, r \in Run : Mail!IsSent(doc'[o], r) => copies'[r] > 0
    BY <1>1, <1>2 DEF MailInv, Truthful, Mail!IsSent, Mail!Smtp
  <2>3. ASSUME NEW o \in Process, mailPc'[o] = "record", accepted'[o]
        PROVE  copies'[run'[o]] > 0
    <3>1. CASE o = p
      BY <3>1, <2>3, <1>3 DEF Mail!Smtp
    <3>2. CASE o # p
      <4>1. mailPc[o] = "record" /\ accepted[o] /\ run'[o] = run[o] /\ run[o] \in Run
        BY <3>2, <2>3 DEF Mail!Smtp, Mail!Goto, MailInv, Mail!TypeOK
      <4> QED
        BY <4>1, <1>1, <1>2 DEF MailInv, Truthful
    <3> QED
      BY <3>1, <3>2
  <2>4. (\A o \in Process, r \in Run : Mail!IsSent(doc[o], r) => copies[r] > 0)'
    BY <2>2 DEF Mail!IsSent
  <2>5. (\A o \in Process : mailPc[o] = "record" /\ accepted[o] => copies[run[o]] > 0)'
    BY <2>3
  <2> QED
    BY <2>1, <2>4, <2>5 DEF Truthful
<1> QED
  BY <1>4, <1>5 DEF MailInv

LEMMA RecordKeeps == ASSUME MailInv, NEW p \in Process, Mail!RecordOutcome(p) PROVE MailInv'
<1>1. /\ Mail!NewDocument(p) \in [Run -> Mail!Record]
      /\ \A r \in Run : Mail!IsSent(Mail!NewDocument(p), r) =>
           IF r = run[p] THEN accepted[p] ELSE Mail!IsSent(doc[p], r)
  BY UpdatedRecord DEF MailInv
<1>2. mailPc[p] = "record" /\ run[p] \in Run
  BY DEF Mail!RecordOutcome, Mail!Goto, MailInv, Mail!TypeOK
<1>3. \A r \in Run : Mail!IsSent(Mail!NewDocument(p), r) => copies[r] > 0
  BY <1>1, <1>2 DEF MailInv, Truthful
<1>4. Mail!TypeOK'
  BY <1>1, <1>2 DEF MailInv, Mail!TypeOK, Mail!RecordOutcome, Mail!Goto
<1>5. Mail!SentIsTrue'
  BY <1>3 DEF Mail!RecordOutcome, MailInv, Truthful, Mail!SentIsTrue, Mail!IsSent
<1>6. (\A o \in Process, r \in Run : Mail!IsSent(doc[o], r) => copies[r] > 0)'
  BY <1>3 DEF Mail!RecordOutcome, MailInv, Mail!TypeOK, Truthful, Mail!IsSent
<1>7. (\A o \in Process : mailPc[o] = "record" /\ accepted[o] => copies[run[o]] > 0)'
  BY DEF Mail!RecordOutcome, Mail!Goto, MailInv, Mail!TypeOK, Truthful
<1> QED
  BY <1>4, <1>5, <1>6, <1>7 DEF MailInv, Truthful

LEMMA CrashKeeps == ASSUME MailInv, NEW p \in Process, Mail!Crash(p) PROVE MailInv'
BY DEF MailInv, Mail!TypeOK, Truthful, Mail!SentIsTrue, Mail!IsSent, Mail!Crash, Mail!mail

LEMMA MailStep == MailInv /\ [Mail!Next]_(Mail!vars) => MailInv'
<1> SUFFICES ASSUME MailInv, [Mail!Next]_(Mail!vars) PROVE MailInv'
  OBVIOUS
<1>1. CASE UNCHANGED Mail!vars
  BY <1>1 DEF Mail!vars, Mail!mail, MailInv, Mail!TypeOK, Truthful, Mail!SentIsTrue,
                  Mail!IsSent
<1>2. ASSUME NEW p \in Process,
             \/ Mail!Start(p) \/ Mail!Load(p) \/ Mail!Smtp(p)
             \/ Mail!RecordOutcome(p) \/ Mail!Crash(p)
      PROVE  MailInv'
  BY <1>2, StartKeeps, LoadKeeps, SmtpKeeps, RecordKeeps, CrashKeeps
<1> QED
  BY <1>1, <1>2 DEF Mail!Next

\* A run recorded as "sent" was taken by the mail server, for any number of
\* processes that overwrite each other's send-state file.
THEOREM RecordedAsSentWasSent ==
  ASSUME MaxSends \in Nat
  PROVE  Mail!Spec => []Mail!SentIsTrue
<1>1. MailInv => Mail!SentIsTrue
  BY DEF MailInv, Truthful
<1> QED
  BY <1>1, MailInitially, MailStep, PTL DEF Mail!Spec

-----------------------------------------------------------------------------
\* With one process at a time the loaded document is the file, and a run that is
\* confirmed stays recorded as sent unless a resend records its failure.
Serial ==
  /\ Mail!TypeOK
  /\ \A r \in confirmed : Mail!IsSent(file, r)
  /\ \A p \in Process : mailPc[p] \in {"smtp", "record"} =>
       /\ doc[p] = file
       /\ run[p] \notin confirmed /\ ~late[p]
  /\ \A p \in Process : late[p] => run[p] \in confirmed

LEMMA SerialStep ==
  ASSUME NEW process, Process = {process}, "resend" \notin Modes,
         Serial, Mail!TypeOK', [Mail!Next]_(Mail!vars)
  PROVE  Serial'
<1>1. CASE UNCHANGED Mail!vars
  BY <1>1 DEF Mail!vars, Mail!mail, Serial, Mail!TypeOK, Mail!IsSent
<1>2. CASE Mail!Start(process)
  <2>1. PICK r \in Run : /\ run' = [run EXCEPT ![process] = r]
                         /\ late' = [late EXCEPT ![process] = r \in confirmed]
    BY <1>2 DEF Mail!Start
  <2>2. late'[process] => run'[process] \in confirmed
    <3>1. run'[process] = r
      BY <2>1 DEF Serial, Mail!TypeOK
    <3>2. late'[process] = (r \in confirmed)
      BY <2>1, Zenon DEF Serial, Mail!TypeOK
    <3> QED
      BY <3>1, <3>2
  <2>3. (\A p \in Process : late[p] => run[p] \in confirmed)'
    BY <1>2, <2>2 DEF Mail!Start, Mail!mail
  <2>4. (\A p \in Process : mailPc[p] \notin {"smtp", "record"})'
    BY <1>2 DEF Mail!Start, Mail!Goto, Serial, Mail!TypeOK
  <2>5. (\A s \in confirmed : Mail!IsSent(file, s))'
    BY <1>2 DEF Mail!Start, Mail!mail, Serial, Mail!IsSent
  <2> QED
    BY <2>3, <2>4, <2>5 DEF Serial
<1>3. CASE Mail!Load(process)
  <2>1. mode[process] # "resend"
    BY DEF Serial, Mail!TypeOK
  <2> QED
    BY <1>3, <2>1 DEF Mail!Load, Mail!Goto, Mail!mail, Serial, Mail!TypeOK, Mail!IsSent
<1>4. CASE Mail!Smtp(process)
  BY <1>4 DEF Mail!Smtp, Mail!Goto, Serial, Mail!TypeOK, Mail!IsSent
<1>5. CASE Mail!RecordOutcome(process)
  <2>1. /\ mailPc[process] = "record" /\ doc[process] = file /\ run[process] \in Run
        /\ run[process] \notin confirmed /\ ~late[process]
    BY <1>5 DEF Mail!RecordOutcome, Mail!Goto, Serial, Mail!TypeOK
  <2>2. /\ \A r \in Run \ {run[process]} : Mail!NewDocument(process)[r] = file[r]
        /\ accepted[process] => Mail!NewDocument(process)[run[process]].status = "sent"
    BY <2>1 DEF Mail!NewDocument, Mail!Updated, Serial, Mail!TypeOK
  <2>3. (\A r \in confirmed : Mail!IsSent(file, r))'
    BY <1>5, <2>1, <2>2 DEF Mail!RecordOutcome, Serial, Mail!TypeOK, Mail!IsSent
  <2>4. mailPc' = [mailPc EXCEPT ![process] = "idle"] /\ late' = late /\ run' = run
    BY <1>5 DEF Mail!RecordOutcome, Mail!Goto
  <2> QED
    BY <2>1, <2>3, <2>4 DEF Serial, Mail!TypeOK
<1>6. CASE Mail!Crash(process)
  BY <1>6 DEF Mail!Crash, Mail!mail, Serial, Mail!TypeOK, Mail!IsSent
<1> QED
  BY <1>1, <1>2, <1>3, <1>4, <1>5, <1>6 DEF Mail!Next

\* The state file and every loaded document are documents, whoever overwrites them.
THEOREM MailTypes ==
  ASSUME MaxSends \in Nat
  PROVE  Mail!Spec => []Mail!TypeOK
<1>1. MailInv => Mail!TypeOK
  BY DEF MailInv
<1> QED
  BY <1>1, MailInitially, MailStep, PTL DEF Mail!Spec

\* A confirmed run is suppressed for ever when the processes that share the state
\* file never overlap and nobody asks for a resend.  Run NotificationResend shows what a
\* resend does; processes that overlap replace each other's records (state.py:105).
THEOREM SerialSendsAreSuppressed ==
  ASSUME MaxSends \in Nat,
         NEW CONSTANT process, Process = {process}, "resend" \notin Modes
  PROVE  Mail!Spec => []Mail!SentIsSuppressed
<1>1. Mail!Init => Serial
  BY MailInitially DEF Mail!Init, Serial, MailInv
<1>2. Serial /\ Mail!TypeOK' /\ [Mail!Next]_(Mail!vars) => Serial'
  BY SerialStep
<1>3. MailInv => Mail!TypeOK
  BY DEF MailInv
<1>4. Serial => Mail!SentIsSuppressed
  BY DEF Serial, Mail!SentIsSuppressed
<1> QED
  BY <1>1, <1>2, <1>3, <1>4, MailInitially, MailStep, PTL DEF Mail!Spec
=============================================================================
