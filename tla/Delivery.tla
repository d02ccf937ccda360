------------------------------ MODULE Delivery ------------------------------
(***************************************************************************)
(* Publication of the Result Package of one run ID (delivery/manager.py).  *)
(*                                                                         *)
(* The output root holds three kinds of directory for a run ID: the formal *)
(* one (target), parked former packages (.backup-<run_id>-<uuid>) and      *)
(* unpublished work (.tmp-<run_id>-<random>).  A directory is named here   *)
(* by the call of deliver that generated its content, so a rename moves a  *)
(* number from one place to another.  Every filesystem operation is a step *)
(* of its own that may fail, and the process may stop before any of them:  *)
(* a crash, a power cut, or an exception such as KeyboardInterrupt that    *)
(* "except Exception" does not catch.  One writer per run ID, as           *)
(* docs/result-package.md:66 requires.                                     *)
(***************************************************************************)
EXTENDS Naturals

CONSTANT MaxCalls   \* bound: how many times deliver is called

ASSUME MaxCallsAssumption == MaxCalls \in Nat

Package == 1..MaxCalls
NoPackage == 0

VARIABLES
  target,           \* the package in the formal directory, or NoPackage
  backups, temps,   \* the packages in .backup-* and .tmp-* directories
  whole,            \* packages whose tree is complete: every PNG and result.json
  junk,             \* a plain file carries the name of a backup or temporary
  removable,        \* whether rmtree always removes the whole directory here
  pc,               \* where the executing call is
  call,             \* the number of the latest call
  overwrite,        \* its argument
  backup,           \* its local variable: the package parked for an overwrite
  stale,            \* the directories its recovery still has to remove
  outcome,          \* how the latest call ended
  last              \* history: the last package put in the formal directory

place == <<junk, removable>>
disk  == <<target, backups, temps, whole, place>>
local == <<call, overwrite, backup, stale>>
vars  == <<disk, pc, local, outcome, last>>

Init ==
  /\ target = NoPackage
  /\ backups = {} /\ temps = {} /\ whole = {}
  /\ junk \in BOOLEAN /\ removable \in BOOLEAN
  /\ pc = "idle"
  /\ call = 0
  /\ overwrite \in BOOLEAN
  /\ backup = NoPackage
  /\ stale = {}
  /\ outcome = "none"
  /\ last = NoPackage

-----------------------------------------------------------------------------
Goto(from, to) == pc = from /\ pc' = to

\* The call returns or raises: its local variables are gone.
Leave(from, how) ==
  /\ Goto(from, "idle")
  /\ outcome' = how
  /\ UNCHANGED <<call, overwrite, backup, stale>>

\* shutil.rmtree(ignore_errors=True): the directory is gone, or it stays with
\* some of its files, or with all of them.
Remove(v) ==
  \/ /\ backups' = backups \ {v}
     /\ temps' = temps \ {v}
     /\ whole' = whole \ {v}
  \/ /\ ~removable
     /\ whole' \in {whole, whole \ {v}}
     /\ UNCHANGED <<backups, temps>>

-----------------------------------------------------------------------------
\* deliver is called; without a data client, or with an aware shift time, it
\* raises before it touches the disk.
Call ==
  /\ pc = "idle"
  /\ call < MaxCalls
  /\ call' = call + 1
  /\ overwrite' \in BOOLEAN
  /\ backup' = NoPackage
  /\ stale' = {}
  /\ \/ pc' = "recover" /\ outcome' = "none"
     \/ pc' = "idle" /\ outcome' = "error"
  /\ UNCHANGED <<disk, last>>

\* Somebody removes the stray file from the output root.
RemoveJunk ==
  /\ junk
  /\ junk' = FALSE
  /\ UNCHANGED <<target, backups, temps, whole, removable, pc, local, outcome, last>>

\* _recover_interrupted_delivery raises: a stray file, or no formal package
\* and more than one candidate to restore.
RecoverRefuses ==
  /\ \/ junk
     \/ target = NoPackage /\ \E v, w \in backups : v # w
  /\ Leave("recover", "error")
  /\ UNCHANGED <<disk, last>>

\* Slip: one of several backups is taken for the last package.
RecoverRestoresAny ==
  /\ ~junk
  /\ target = NoPackage
  /\ \E v \in backups :
       /\ Goto("recover", "clean")
       /\ target' = v
       /\ backups' = backups \ {v}
       /\ stale' = temps
       /\ UNCHANGED <<temps, whole, place, call, overwrite, backup, outcome, last>>

\* The formal directory is missing and there is one backup: it is restored.
RecoverRestores ==
  /\ ~junk
  /\ target = NoPackage
  /\ \E v \in backups :
       /\ backups = {v}
       /\ \/ /\ Goto("recover", "clean")
             /\ target' = v
             /\ backups' = {}
             /\ stale' = temps
             /\ UNCHANGED <<temps, whole, place, call, overwrite, backup, outcome>>
          \/ /\ Leave("recover", "error")
             /\ UNCHANGED disk
  /\ UNCHANGED last

\* Slip: leftovers are removed without looking at the formal directory.
RecoverNothingBlindly ==
  /\ ~junk
  /\ Goto("recover", "clean")
  /\ stale' = backups \cup temps
  /\ UNCHANGED <<disk, call, overwrite, backup, outcome, last>>

\* Slip: recovery removes old temporaries and leaves old backups.
RecoverNothingKeepsBackups ==
  /\ ~junk
  /\ target # NoPackage \/ backups = {}
  /\ Goto("recover", "clean")
  /\ stale' = temps
  /\ UNCHANGED <<disk, call, overwrite, backup, outcome, last>>

RecoverNothing ==
  /\ ~junk
  /\ target # NoPackage \/ backups = {}
  /\ Goto("recover", "clean")
  /\ stale' = backups \cup temps
  /\ UNCHANGED <<disk, call, overwrite, backup, outcome, last>>

\* The directories left over by former calls are removed, backups first.
NextStale == IF stale \cap backups # {} THEN stale \cap backups ELSE stale

RemoveStale ==
  /\ pc = "clean"
  /\ \E v \in NextStale :
       /\ Remove(v)
       /\ stale' = stale \ {v}
  /\ UNCHANGED <<target, place, pc, call, overwrite, backup, outcome, last>>

\* Recovery is over: the call refuses to overwrite, or tempfile.mkdtemp makes
\* its own temporary directory, or fails to.
RefuseOverwrite ==
  /\ stale = {}
  /\ target # NoPackage /\ ~overwrite
  /\ Leave("clean", "error")
  /\ UNCHANGED <<disk, last>>

MakeTemporary ==
  /\ stale = {}
  /\ target = NoPackage \/ overwrite
  /\ \/ /\ Goto("clean", "render")
        /\ temps' = temps \cup {call}
        /\ UNCHANGED <<target, backups, whole, place, local, outcome>>
     \/ /\ Leave("clean", "error")
        /\ UNCHANGED disk
  /\ UNCHANGED last

\* Every enabled rule is executed and every point rendered into images/.
Render ==
  /\ \/ Goto("render", "write")
     \/ Goto("render", "fail")
  /\ UNCHANGED <<disk, local, outcome, last>>

\* Slip: a failure to write result.json is logged and the package published.
WriteResultUnchecked ==
  /\ Goto("write", "swap")
  /\ whole' \in {whole, whole \cup {call}}
  /\ UNCHANGED <<target, backups, temps, place, local, outcome, last>>

\* write_result_json: only now is the tree of the temporary complete.
WriteResult ==
  /\ \/ /\ Goto("write", "swap")
        /\ whole' = whole \cup {call}
     \/ /\ Goto("write", "fail")
        /\ UNCHANGED whole
  /\ UNCHANGED <<target, backups, temps, place, local, outcome, last>>

\* Slip: the old package is copied, not renamed.
ParkByCopy ==
  /\ target # NoPackage /\ overwrite
  /\ Goto("swap", "publish")
  /\ backup' = target
  /\ backups' = backups \cup {target}
  /\ UNCHANGED <<target, temps, whole, place, call, overwrite, stale, outcome, last>>

\* The second check, and the existing package is parked under a backup name.
Park ==
  /\ target # NoPackage
  /\ IF overwrite
     THEN /\ backup' = target
          /\ \/ /\ Goto("swap", "publish")
                /\ target' = NoPackage
                /\ backups' = backups \cup {target}
             \/ /\ Goto("swap", "fail")
                /\ UNCHANGED <<target, backups>>
     ELSE /\ Goto("swap", "fail")
          /\ UNCHANGED <<target, backups, backup>>
  /\ UNCHANGED <<temps, whole, place, call, overwrite, stale, outcome, last>>

NothingToPark ==
  /\ target = NoPackage
  /\ Goto("swap", "publish")
  /\ UNCHANGED <<disk, local, outcome, last>>

\* os.replace(temporary, target) succeeds.
Publish ==
  /\ target' = call
  /\ temps' = temps \ {call}
  /\ last' = call
  /\ \/ /\ backup # NoPackage
        /\ Goto("publish", "drop")
        /\ UNCHANGED <<local, outcome>>
     \/ /\ backup = NoPackage
        /\ Leave("publish", "ok")
  /\ UNCHANGED <<backups, whole, place>>

\* It fails: the inner handler puts the parked package back, if there is one.
PublishFails ==
  /\ Goto("publish", IF backup # NoPackage /\ target = NoPackage
                     THEN "unpark" ELSE "fail")
  /\ UNCHANGED <<disk, local, outcome, last>>

Unpark ==
  /\ Goto("unpark", "fail")
  /\ \/ /\ target' = backup
        /\ backups' = backups \ {backup}
        /\ backup' = NoPackage
     \/ UNCHANGED <<target, backups, backup>>
  /\ UNCHANGED <<temps, whole, place, call, overwrite, stale, outcome, last>>

\* Slip: a backup that cannot be removed fails the call.
DropRaises ==
  /\ Remove(backup)
  /\ \/ backup \notin backups' /\ Leave("drop", "ok")
     \/ backup \in backups' /\ Leave("drop", "error")
  /\ UNCHANGED <<target, place, last>>

\* The replaced package is removed; a problem with it is ignored.
Drop ==
  /\ Remove(backup)
  /\ Leave("drop", "ok")
  /\ UNCHANGED <<target, place, last>>

\* The outer handler removes the temporary directory ...
DiscardTemporary ==
  /\ Goto("fail", "fallback")
  /\ Remove(call)
  /\ UNCHANGED <<target, place, local, outcome, last>>

\* ... and restores a parked package that is still parked.
Fallback ==
  /\ IF backup \in backups /\ target = NoPackage
     THEN \/ /\ target' = backup
             /\ backups' = backups \ {backup}
          \/ UNCHANGED <<target, backups>>
     ELSE UNCHANGED <<target, backups>>
  /\ Leave("fallback", "error")
  /\ UNCHANGED <<temps, whole, place, last>>

\* The process stops; a directory whose removal was under way loses files.
Removing ==
  CASE pc = "clean" -> NextStale
    [] pc = "drop"  -> {backup}
    [] pc = "fail"  -> {call}
    [] OTHER        -> {}

Crash ==
  /\ pc # "idle"
  /\ \E hurt \in SUBSET Removing :
       /\ \A v, w \in hurt : v = w
       /\ whole' = whole \ hurt
  /\ Leave(pc, "crashed")
  /\ UNCHANGED <<target, backups, temps, place, last>>

Next ==
  \/ Call \/ RemoveJunk
  \/ RecoverRefuses \/ RecoverRestores \/ RecoverNothing \/ RemoveStale
  \/ RefuseOverwrite \/ MakeTemporary \/ Render \/ WriteResult
  \/ Park \/ NothingToPark \/ Publish \/ PublishFails \/ Unpark \/ Drop
  \/ DiscardTemporary \/ Fallback \/ Crash

Spec == Init /\ [][Next]_vars

-----------------------------------------------------------------------------
\* Every variable has its type, and a package is in one place at a time.
TypeOK ==
  /\ target \in Package \cup {NoPackage}
  /\ backups \subseteq Package /\ temps \subseteq Package
  /\ whole \subseteq Package
  /\ junk \in BOOLEAN /\ removable \in BOOLEAN
  /\ pc \in {"idle", "recover", "clean", "render", "write", "swap", "publish",
             "unpark", "drop", "fail", "fallback"}
  /\ call \in Package \cup {0}
  /\ overwrite \in BOOLEAN
  /\ backup \in Package \cup {NoPackage}
  /\ stale \subseteq Package
  /\ outcome \in {"none", "ok", "error", "crashed"}
  /\ last \in Package \cup {NoPackage}
  /\ target \notin backups \cup temps
  /\ backups \cap temps = {}

\* Whoever opens the formal directory finds a complete package: no crash, no
\* failed rename and no half-removed backup ever puts another tree there.
TargetIsWhole == target # NoPackage => target \in whole

\* The last package that was published is never lost: it is in the formal
\* directory, or it is complete in a backup directory while an overwrite is
\* under way or was interrupted.
LastPackageKept ==
  last # NoPackage =>
    \/ target = last
    \/ target = NoPackage /\ last \in backups \cap whole

\* A call does no work of its own before recovery has put the last package
\* back: "recover the last successful package" (manager.py:324) restores that
\* one, however many calls were interrupted before.
BuildsOnLast == pc \in {"clean", "render", "write", "swap"} => target = last

\* Where directories can be removed, recovery is never left to guess: no
\* history of crashes and failed renames makes two backups compete for a
\* missing formal directory.
OneCandidate ==
  removable /\ target = NoPackage => \A v, w \in backups : v = w

\* Where directories can be removed, a call that succeeds leaves the formal
\* directory alone in the output root, whatever its predecessors left behind.
CleanAfterSuccess == removable /\ outcome = "ok" => backups = {} /\ temps = {}

\* To the callers of deliver all this is one register: the refinement maps the
\* current package to the formal directory or, while it is missing, to the
\* newest of the backups.
Current ==
  IF target # NoPackage THEN target
  ELSE IF backups = {} THEN NoPackage
  ELSE CHOOSE v \in backups : \A w \in backups : w <= v

Register == INSTANCE PackageRegister
              WITH current <- Current, calls <- call, busy <- (pc # "idle")

ImplementsRegister == Register!Spec
=============================================================================
