---------------------------- MODULE ReportUpdate ----------------------------
(***************************************************************************)
(* The monthly report (report.py in the report directory): update,         *)
(* update --force, --send-email and exempt, run by processes that share    *)
(* one workbook, one output root and one send-state file.                  *)
(*                                                                         *)
(* A command loads the whole workbook, works on its copy, in the case of   *)
(* update for as long as an assessment takes, and replaces the whole file. *)
(* The Result Packages are those of module PackageRegister, one register   *)
(* per shift: generation 0 is no package.  The user edits the workbook in  *)
(* Excel.  Exclusive says that the user and the commands wait for each     *)
(* other; nothing in the code makes them.                                  *)
(***************************************************************************)
EXTENDS Integers

CONSTANTS
  Process,          \* processes running report.py
  Shift,            \* the columns of the workbook
  MaxCommands,      \* bound: commands started, and edits made by the user
  Exclusive         \* one command or edit at a time

ASSUME MaxCommandsAssumption == MaxCommands \in Nat
ASSUME ExclusiveAssumption == Exclusive \in BOOLEAN

\* The scores in a column: the generation of the package they came from, none,
\* or what the user typed.
Blank == 0
Manual == -1
Generation == 1..MaxCommands
Column == [status : {"", "done", "exempt"}, scores : Generation \cup {Blank, Manual}]

VARIABLES
  workbook,         \* the saved report: a column per shift
  package,          \* the generation of each shift's Result Package
  generations,      \* packages generated so far
  notified,         \* the generation last emailed for each shift, 0 if none
  pc, shift, force, \* per process: where its command is, its target, --force
  snapshot,         \* per process: the workbook it loaded
  scores,           \* per process: the validated package
  commands,         \* commands and edits so far
  kept              \* history: shifts whose typed scores are in a workbook backup

local == <<shift, force, snapshot, scores>>
vars == <<workbook, package, generations, notified, pc, local, commands, kept>>

Empty == [status |-> "", scores |-> Blank]

Init ==
  /\ workbook = [s \in Shift |-> Empty]
  /\ package = [s \in Shift |-> 0]
  /\ generations = 0
  /\ notified = [s \in Shift |-> 0]
  /\ pc = [p \in Process |-> "idle"]
  /\ shift \in [Process -> Shift]
  /\ force = [p \in Process |-> FALSE]
  /\ snapshot = [p \in Process |-> workbook]
  /\ scores = [p \in Process |-> 0]
  /\ commands = 0
  /\ kept = {}

-----------------------------------------------------------------------------
Goto(p, from, to) == pc[p] = from /\ pc' = [pc EXCEPT ![p] = to]

\* A command or an edit begins.
Counted ==
  /\ commands < MaxCommands
  /\ commands' = commands + 1
  /\ Exclusive => \A p \in Process : pc[p] = "idle"

\* Slips of Update: --force reaches exempt columns; nothing is backed up first.
UpdateAs(p, forcible, next) ==
  /\ Counted
  /\ \E s \in Shift, f \in BOOLEAN :
       /\ shift' = [shift EXCEPT ![p] = s]
       /\ force' = [force EXCEPT ![p] = f]
       /\ workbook[s].status \in (IF f THEN forcible ELSE {""})
       /\ Goto(p, "idle", IF f THEN next ELSE "assess")
  /\ snapshot' = [snapshot EXCEPT ![p] = workbook]
  /\ UNCHANGED <<workbook, package, generations, notified, scores, kept>>
UpdateForcesExempt(p) == UpdateAs(p, {"", "done", "exempt"}, "backup")
UpdateWithoutBackup(p) == UpdateAs(p, {"", "done"}, "assess")

\* update_command for one shift, and exempt_command: the workbook is loaded.
\* An update leaves an exempt column alone, and a done one unless forced.
Update(p) ==
  /\ Counted
  /\ \E s \in Shift, f \in BOOLEAN :
       /\ shift' = [shift EXCEPT ![p] = s]
       /\ force' = [force EXCEPT ![p] = f]
       /\ \/ /\ workbook[s].status \in (IF f THEN {"", "done"} ELSE {""})
             /\ Goto(p, "idle", IF f THEN "backup" ELSE "assess")
          \/ Goto(p, "idle", "idle")
  /\ snapshot' = [snapshot EXCEPT ![p] = workbook]
  /\ UNCHANGED <<workbook, package, generations, notified, scores, kept>>

Exempt(p) ==
  /\ Counted
  /\ \E s \in Shift : shift' = [shift EXCEPT ![p] = s]
  /\ Goto(p, "idle", "exempt")
  /\ snapshot' = [snapshot EXCEPT ![p] = workbook]
  /\ UNCHANGED <<workbook, package, generations, notified, force, scores, kept>>

\* The user types scores into a column the program protects, or takes an
\* exemption back, and saves.
UserEdits ==
  /\ Counted
  /\ \E s \in Shift :
       \/ /\ workbook[s].status = "done"
          /\ workbook' = [workbook EXCEPT ![s].scores = Manual]
          /\ kept' = kept \ {s}
       \/ /\ workbook[s].status = "exempt"
          /\ workbook' = [workbook EXCEPT ![s] = Empty]
          /\ UNCHANGED kept
  /\ UNCHANGED <<package, generations, notified, pc, local>>

\* _backup_file copies the workbook as it is on disk.
CopyWorkbook == kept' = kept \cup {s \in Shift : workbook[s].scores = Manual}

\* --force: the workbook and the package are copied before anything is replaced.
Backup(p) ==
  /\ \/ Goto(p, "backup", "assess") /\ CopyWorkbook
     \/ Goto(p, "backup", "idle") /\ UNCHANGED kept
  /\ UNCHANGED <<workbook, package, generations, notified, local, commands>>

\* _run_assessment: an existing package is reused unless forced ...
Reuse(p) ==
  /\ package[shift[p]] # 0 /\ ~force[p]
  /\ Goto(p, "assess", "validate")
  /\ UNCHANGED <<workbook, package, generations, notified, local, commands, kept>>

RunCli(p) ==
  /\ package[shift[p]] = 0 \/ force[p]
  /\ Goto(p, "assess", "deliver")
  /\ UNCHANGED <<workbook, package, generations, notified, local, commands, kept>>

\* ... or "dcs_performance.cli run" publishes a new one, or fails; without
\* --overwrite it fails when another process published meanwhile.
Deliver(p) ==
  /\ \/ /\ package[shift[p]] = 0 \/ force[p]
        /\ Goto(p, "deliver", "validate")
        /\ generations' = generations + 1
        /\ package' = [package EXCEPT ![shift[p]] = generations']
     \/ /\ Goto(p, "deliver", "idle")
        /\ UNCHANGED <<package, generations>>
  /\ UNCHANGED <<workbook, notified, local, commands, kept>>

\* result.json is read and checked against the schedule and the mapping sheet.
Validate(p) ==
  /\ \/ /\ Goto(p, "validate", "save")
        /\ scores' = [scores EXCEPT ![p] = package[shift[p]]]
     \/ /\ Goto(p, "validate", "idle")
        /\ UNCHANGED scores
  /\ UNCHANGED <<workbook, package, generations, notified, shift, force, snapshot,
                 commands, kept>>

\* Slips of Save: the columns that are not exempt are built anew; an error in saving
\* does not stop the command.
SaveAs(p, book) ==
  /\ Goto(p, "save", "email")
  /\ workbook' = book
  /\ UNCHANGED <<package, generations, notified, local, commands, kept>>
SaveRebuilds(p) ==
  SaveAs(p, [s \in Shift |-> IF s = shift[p] THEN [status |-> "done", scores |-> scores[p]]
                             ELSE IF snapshot[p][s].status = "exempt" THEN snapshot[p][s]
                             ELSE Empty])
SaveErrorIgnored(p) == SaveAs(p, workbook)

\* The column is filled in the loaded copy, which then replaces the workbook.
Save(p) ==
  /\ \/ /\ pc[p] = "save"
        /\ \/ Goto(p, "save", "email")
           \/ Goto(p, "save", "idle")
        /\ workbook' = [snapshot[p] EXCEPT ![shift[p]] =
                          [status |-> "done", scores |-> scores[p]]]
     \/ /\ Goto(p, "save", "idle")
        /\ UNCHANGED workbook
  /\ UNCHANGED <<package, generations, notified, local, commands, kept>>

\* --send-email: the package of the directory is sent unless one was before.
Email(p) ==
  /\ Goto(p, "email", "idle")
  /\ \/ /\ notified[shift[p]] = 0
        /\ notified' = [notified EXCEPT ![shift[p]] = package[shift[p]]]
     \/ UNCHANGED notified
  /\ UNCHANGED <<workbook, package, generations, local, commands, kept>>

\* exempt_command: the workbook is backed up, and its loaded copy, with the
\* column cleared and marked, replaces it.
SaveExempt(p) ==
  /\ Goto(p, "exempt", "idle")
  /\ \/ /\ CopyWorkbook
        /\ workbook' \in {workbook, [snapshot[p] EXCEPT ![shift[p]] =
                                      [status |-> "exempt", scores |-> Blank]]}
     \/ UNCHANGED <<kept, workbook>>
  /\ UNCHANGED <<package, generations, notified, local, commands>>

\* The process stops.
Crash(p) ==
  /\ pc[p] # "idle"
  /\ pc' = [pc EXCEPT ![p] = "idle"]
  /\ UNCHANGED <<workbook, package, generations, notified, local, commands, kept>>

Run(p) ==
  \/ Backup(p) \/ Reuse(p) \/ RunCli(p) \/ Deliver(p) \/ Validate(p)
  \/ Save(p) \/ Email(p) \/ SaveExempt(p)

Next ==
  \/ UserEdits
  \/ \E p \in Process : Update(p) \/ Exempt(p) \/ Run(p) \/ Crash(p)

\* A process that is running goes on: the operating system schedules it.
Spec == Init /\ [][Next]_vars /\ \A p \in Process : WF_vars(Run(p))

-----------------------------------------------------------------------------
TypeOK ==
  /\ workbook \in [Shift -> Column]
  /\ package \in [Shift -> Generation \cup {0}]
  /\ generations \in Generation \cup {0}
  /\ notified \in [Shift -> Generation \cup {0}]
  /\ pc \in [Process -> {"idle", "backup", "assess", "deliver", "validate", "save",
                         "email", "exempt"}]
  /\ shift \in [Process -> Shift]
  /\ force \in [Process -> BOOLEAN]
  /\ snapshot \in [Process -> [Shift -> Column]]
  /\ scores \in [Process -> Generation \cup {0}]
  /\ commands \in 0..MaxCommands
  /\ kept \subseteq Shift

Saving(p) == pc[p] = "save" /\ pc'[p] # "save" /\ workbook' # workbook

\* "--force does not overwrite an exemption either" (the report manual, line
\* 62): what an update saves never replaces a column that is exempt.
ExemptionKept ==
  [][\A p \in Process : Saving(p) =>
       \A s \in Shift : workbook[s].status = "exempt" => workbook'[s] = workbook[s]]_vars

\* "This is the only ordinary-update write scope: target column" (report.py:358):
\* saving an update changes no other column.
OnlyTargetColumn ==
  [][\A p \in Process : Saving(p) =>
       \A s \in Shift \ {shift[p]} : workbook'[s] = workbook[s]]_vars

\* What the user typed into a done column is in the workbook or in a backup,
\* whichever commands run after it and wherever they stop.
TypedScoresKept ==
  [][\A s \in Shift :
       workbook[s].scores = Manual /\ workbook'[s].scores # Manual => s \in kept']_vars

\* The mail goes out after the workbook is saved and says what the column says:
\* the notified package is the one the target column was filled from.
MailMatchesReport ==
  [][\A p \in Process : pc[p] = "email" /\ notified' # notified =>
       workbook[shift[p]] = [status |-> "done", scores |-> notified'[shift[p]]]]_vars
=============================================================================
