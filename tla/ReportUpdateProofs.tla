-------------------------- MODULE ReportUpdateProofs --------------------------
(***************************************************************************)
(* The monthly report is safe while the commands and the user wait for     *)
(* each other, for any number of processes, columns and commands.          *)
(*                                                                         *)
(* The argument: at most one process is busy, and until it saves, the      *)
(* workbook it loaded is the one on the disk.  The checks made when it was *)
(* loaded, and the backup taken then, are therefore still true when it is  *)
(* replaced.  Run ReportExemptionKept shows that the assumption is needed. *)
(***************************************************************************)
EXTENDS ReportUpdate, TLAPS

\* Where an update is before its save; and before its package is published.
Updating == {"backup", "assess", "deliver", "validate", "save"}
Unpublished == {"backup", "assess", "deliver"}

\* Nobody else is busy, so what was loaded is what is on the disk.
Alone ==
  /\ \A p, q \in Process : pc[p] # "idle" /\ pc[q] # "idle" => p = q
  /\ \A p \in Process : pc[p] \in Updating \cup {"exempt"} => snapshot[p] = workbook

\* A command publishes one package at most.
Budget ==
  /\ generations <= commands
  /\ \A p \in Process : pc[p] \in Unpublished => generations < commands

\* What the user typed is in a done column, and in a backup once a forced update is on.
Typed == \A s \in Shift : workbook[s].scores = Manual => workbook[s].status = "done"

Open ==
  \A p \in Process : pc[p] \in Updating =>
    /\ workbook[shift[p]].status \in {"", "done"}
    /\ workbook[shift[p]].scores = Manual /\ pc[p] # "backup" => shift[p] \in kept

\* The package that was read is the one of the directory, and then of the column.
Read ==
  \A p \in Process :
    /\ pc[p] \in {"save", "email"} => scores[p] = package[shift[p]]
    /\ pc[p] = "email" => workbook[shift[p]] = [status |-> "done", scores |-> scores[p]]

Inv == TypeOK /\ Alone /\ Budget /\ Typed /\ Open /\ Read

-----------------------------------------------------------------------------
LEMMA NeverTyped ==
  /\ Blank # Manual
  /\ \A g \in Generation \cup {0} : g # Manual
  /\ Manual \in Generation \cup {Blank, Manual}
BY DEF Blank, Manual, Generation

LEMMA InitInv == Init => Inv
<1> SUFFICES ASSUME Init PROVE Inv
  OBVIOUS
<1>1. Empty \in Column
  BY DEF Empty, Column, Blank
<1>2. TypeOK
  BY <1>1, MaxCommandsAssumption DEF Init, TypeOK
<1>3. Alone /\ Budget /\ Open /\ Read
  BY DEF Init, Alone, Budget, Open, Read, Updating, Unpublished
<1>4. Typed
  BY NeverTyped DEF Init, Typed, Empty
<1> QED
  BY <1>2, <1>3, <1>4 DEF Inv

\* A command that begins finds everybody idle.
LEMMA BeginKeeps ==
  ASSUME Exclusive, Inv, Counted
  PROVE  /\ \A p \in Process : pc[p] = "idle"
         /\ commands' \in 0..MaxCommands /\ generations < commands'
BY MaxCommandsAssumption DEF Counted, Inv, TypeOK, Budget, Generation

LEMMA UpdateKeeps ==
  ASSUME Exclusive, Inv, NEW p \in Process, Update(p)
  PROVE  Inv'
<1>1. PICK s \in Shift, f \in BOOLEAN :
        /\ shift' = [shift EXCEPT ![p] = s] /\ force' = [force EXCEPT ![p] = f]
        /\ \/ /\ workbook[s].status \in (IF f THEN {"", "done"} ELSE {""})
              /\ Goto(p, "idle", IF f THEN "backup" ELSE "assess")
           \/ Goto(p, "idle", "idle")
  BY DEF Update
<1>2. /\ snapshot' = [snapshot EXCEPT ![p] = workbook]
      /\ UNCHANGED <<workbook, package, generations, notified, scores, kept>>
  BY DEF Update
<1>3. /\ \A q \in Process : pc[q] = "idle"
      /\ commands' \in 0..MaxCommands /\ generations < commands'
  BY BeginKeeps DEF Update
<1>4. TypeOK'
  BY <1>1, <1>2, <1>3 DEF Inv, TypeOK, Goto
<1>5. /\ \A q \in Process \ {p} : pc'[q] = "idle"
      /\ pc'[p] \in {"idle", "backup", "assess"}
      /\ pc'[p] # "idle" => workbook[s].status \in {"", "done"}
      /\ pc'[p] = "assess" => workbook[s].status = ""
  BY <1>1, <1>3 DEF Inv, TypeOK, Goto
<1>6. shift'[p] = s /\ snapshot'[p] = workbook
  BY <1>1, <1>2 DEF Inv, TypeOK
<1>7. Alone' /\ Read'
  BY <1>2, <1>5, <1>6 DEF Alone, Read, Updating
<1>8. Budget' /\ Typed'
  BY <1>2, <1>3 DEF Inv, TypeOK, Budget, Typed, Generation
<1>9. Open'
  BY <1>2, <1>5, <1>6 DEF Inv, Typed, Open, Updating
<1> QED
  BY <1>4, <1>7, <1>8, <1>9 DEF Inv

LEMMA ExemptKeeps ==
  ASSUME Exclusive, Inv, NEW p \in Process, Exempt(p)
  PROVE  Inv'
<1>1. /\ \A q \in Process : pc[q] = "idle"
      /\ commands' \in 0..MaxCommands /\ generations < commands'
  BY BeginKeeps DEF Exempt
<1>2. TypeOK'
  BY <1>1 DEF Inv, TypeOK, Exempt, Goto
<1>3. Alone' /\ Typed' /\ Open' /\ Read'
  BY <1>1 DEF Inv, TypeOK, Alone, Typed, Open, Read, Exempt, Goto, Updating
<1>4. Budget'
  BY <1>1 DEF Inv, TypeOK, Budget, Exempt, Goto, Generation, Unpublished
<1> QED
  BY <1>2, <1>3, <1>4 DEF Inv

LEMMA UserKeeps ==
  ASSUME Exclusive, Inv, UserEdits
  PROVE  Inv'
<1>1. /\ \A q \in Process : pc[q] = "idle"
      /\ commands' \in 0..MaxCommands /\ generations < commands'
  BY BeginKeeps DEF UserEdits
<1>2. UNCHANGED <<package, generations, notified, pc, shift, force, snapshot, scores>>
  BY DEF UserEdits, local
<1>3. PICK s \in Shift, c \in Column :
        /\ workbook' = [workbook EXCEPT ![s] = c]
        /\ c.scores = Manual => c.status = "done"
        /\ kept' \in SUBSET Shift
  <2>1. PICK s \in Shift :
          \/ /\ workbook[s].status = "done"
             /\ workbook' = [workbook EXCEPT ![s].scores = Manual]
             /\ kept' = kept \ {s}
          \/ /\ workbook' = [workbook EXCEPT ![s] = Empty]
             /\ UNCHANGED kept
    BY DEF UserEdits
  <2>2. CASE /\ workbook[s].status = "done"
             /\ workbook' = [workbook EXCEPT ![s].scores = Manual]
             /\ kept' = kept \ {s}
    <3> DEFINE c == [status |-> "done", scores |-> Manual]
    <3>1. workbook' = [workbook EXCEPT ![s] = c]
      <4>1. workbook[s] = [status |-> workbook[s].status, scores |-> workbook[s].scores]
        BY DEF Inv, TypeOK, Column
      <4>2. [workbook[s] EXCEPT !.scores = Manual] = c
        BY <2>2, <4>1
      <4> QED
        BY <2>2, <4>2
    <3>2. c \in Column /\ c.status = "done"
      BY NeverTyped DEF Column
    <3>3. kept' \in SUBSET Shift
      BY <2>2 DEF Inv, TypeOK
    <3> HIDE DEF c
    <3> QED
      BY <3>1, <3>2, <3>3
  <2>3. CASE /\ workbook' = [workbook EXCEPT ![s] = Empty]
             /\ UNCHANGED kept
    <3>1. Empty \in Column /\ Empty.scores # Manual
      BY NeverTyped DEF Column, Empty
    <3> QED
      BY <2>3, <3>1 DEF Inv, TypeOK
  <2> QED
    BY <2>1, <2>2, <2>3
<1>4. TypeOK'
  BY <1>1, <1>2, <1>3 DEF Inv, TypeOK
<1>5. Alone' /\ Open' /\ Read'
  BY <1>1, <1>2 DEF Alone, Open, Read, Updating
<1>6. Typed'
  BY <1>3 DEF Inv, TypeOK, Typed
<1>7. Budget'
  BY <1>1, <1>2 DEF Inv, TypeOK, Budget, Generation
<1> QED
  BY <1>4, <1>5, <1>6, <1>7 DEF Inv

\* A step of p between two places of its command; the others stay where they are.
Moves(p) ==
  /\ pc[p] # "idle"
  /\ \A q \in Process \ {p} : pc'[q] = pc[q]
  /\ UNCHANGED <<shift, force, snapshot, commands>>

LEMMA OthersIdle ==
  ASSUME Inv, NEW p \in Process, Moves(p)
  PROVE  \A q \in Process \ {p} : pc[q] = "idle" /\ pc'[q] = "idle"
BY DEF Inv, Alone, Moves

LEMMA BackupKeeps == ASSUME Inv, NEW p \in Process, Backup(p) PROVE Inv'
<1>1. Moves(p) /\ UNCHANGED <<workbook, package, generations, notified, scores>>
  BY DEF Inv, TypeOK, Backup, Goto, Moves, local
<1>2. pc[p] = "backup" /\ pc'[p] \in {"idle", "assess"}
  BY DEF Inv, TypeOK, Backup, Goto
<1>3. /\ kept' \in SUBSET Shift
      /\ pc'[p] = "assess" => \A s \in Shift : workbook[s].scores = Manual => s \in kept'
  BY DEF Inv, TypeOK, Backup, CopyWorkbook, Goto
<1>4. TypeOK'
  BY <1>1, <1>3 DEF Inv, TypeOK, Backup, Goto, Moves
<1>5. Alone' /\ Budget' /\ Typed' /\ Read'
  BY <1>1, <1>2, OthersIdle DEF Inv, Alone, Budget, Typed, Read, Moves, Updating, Unpublished
<1>6. Open'
  BY <1>1, <1>2, <1>3, OthersIdle DEF Inv, TypeOK, Open, Moves, Updating
<1> QED
  BY <1>4, <1>5, <1>6 DEF Inv

LEMMA AssessKeeps == ASSUME Inv, NEW p \in Process, Reuse(p) \/ RunCli(p) PROVE Inv'
<1>1. Moves(p) /\ UNCHANGED <<workbook, package, generations, notified, scores, kept>>
  BY DEF Inv, TypeOK, Reuse, RunCli, Goto, Moves, local
<1>2. pc[p] = "assess" /\ pc'[p] \in {"validate", "deliver"}
  BY DEF Inv, TypeOK, Reuse, RunCli, Goto
<1>3. TypeOK'
  BY <1>1 DEF Inv, TypeOK, Reuse, RunCli, Goto, Moves
<1>4. Alone' /\ Budget' /\ Typed' /\ Open' /\ Read'
  BY <1>1, <1>2, OthersIdle
     DEF Inv, Alone, Budget, Typed, Open, Read, Moves, Updating, Unpublished
<1> QED
  BY <1>3, <1>4 DEF Inv

LEMMA DeliverKeeps == ASSUME Inv, NEW p \in Process, Deliver(p) PROVE Inv'
<1>1. Moves(p) /\ UNCHANGED <<workbook, notified, scores, kept>>
  BY DEF Inv, TypeOK, Deliver, Goto, Moves, local
<1>2. pc[p] = "deliver" /\ pc'[p] \in {"validate", "idle"}
  BY DEF Inv, TypeOK, Deliver, Goto
<1>3. generations \in Nat /\ generations < commands /\ commands \in Nat /\ commands <= MaxCommands
  BY <1>2, MaxCommandsAssumption DEF Inv, TypeOK, Budget, Unpublished, Generation
<1>4. generations' \in {generations, generations + 1} /\ generations + 1 \in Generation
  BY <1>3, MaxCommandsAssumption DEF Deliver, Generation
<1>5. package' \in [Shift -> Generation \cup {0}]
  BY <1>4 DEF Inv, TypeOK, Deliver
<1>6. TypeOK'
  BY <1>1, <1>4, <1>5 DEF Inv, TypeOK, Deliver, Goto, Moves
<1>7. Alone' /\ Typed' /\ Open' /\ Read'
  BY <1>1, <1>2, OthersIdle DEF Inv, Alone, Typed, Open, Read, Moves, Updating
<1>8. Budget'
  BY <1>1, <1>2, <1>3, <1>4, OthersIdle DEF Budget, Moves, Unpublished
<1> QED
  BY <1>6, <1>7, <1>8 DEF Inv

LEMMA ValidateKeeps == ASSUME Inv, NEW p \in Process, Validate(p) PROVE Inv'
<1>1. Moves(p) /\ UNCHANGED <<workbook, package, generations, notified, kept>>
  BY DEF Inv, TypeOK, Validate, Goto, Moves
<1>2. pc[p] = "validate" /\ pc'[p] \in {"save", "idle"}
  BY DEF Inv, TypeOK, Validate, Goto
<1>3. /\ pc'[p] = "save" => scores'[p] = package[shift[p]]
      /\ scores' \in [Process -> Generation \cup {0}]
  BY DEF Inv, TypeOK, Validate, Goto
<1>4. TypeOK'
  BY <1>1, <1>3 DEF Inv, TypeOK, Validate, Goto, Moves
<1>5. Alone' /\ Budget' /\ Typed' /\ Open'
  BY <1>1, <1>2, OthersIdle DEF Inv, Alone, Budget, Typed, Open, Moves, Updating, Unpublished
<1>6. Read'
  BY <1>1, <1>2, <1>3, OthersIdle DEF Read, Moves
<1> QED
  BY <1>4, <1>5, <1>6 DEF Inv

\* What a save writes: the workbook on the disk, with another target column.
LEMMA SaveWrites ==
  ASSUME Inv, NEW p \in Process, Save(p)
  PROVE  /\ pc[p] = "save" /\ pc'[p] \in {"email", "idle"}
         /\ \/ workbook' = [workbook EXCEPT ![shift[p]] =
                              [status |-> "done", scores |-> scores[p]]]
            \/ workbook' = workbook /\ pc'[p] = "idle"
BY DEF Inv, TypeOK, Alone, Save, Goto, Updating

LEMMA SaveKeeps == ASSUME Inv, NEW p \in Process, Save(p) PROVE Inv'
<1>1. Moves(p) /\ UNCHANGED <<package, generations, notified, scores, kept>>
  BY DEF Inv, TypeOK, Save, Goto, Moves, local
<1> DEFINE c == [status |-> "done", scores |-> scores[p]]
<1>2. c \in Column /\ c.scores = scores[p] /\ c.scores # Manual
  BY NeverTyped DEF Inv, TypeOK, Column, Blank
<1>3. shift[p] \in Shift
  BY DEF Inv, TypeOK
<1>4. /\ pc[p] = "save" /\ pc'[p] \in {"email", "idle"}
      /\ \/ workbook' = [workbook EXCEPT ![shift[p]] = c]
         \/ workbook' = workbook /\ pc'[p] = "idle"
  BY SaveWrites
<1> HIDE DEF c
<1>5. TypeOK'
  <2>1. workbook' \in [Shift -> Column]
    BY <1>2, <1>3, <1>4 DEF Inv, TypeOK
  <2>2. pc' \in [Process -> {"idle", "backup", "assess", "deliver", "validate", "save",
                            "email", "exempt"}]
    BY DEF Inv, TypeOK, Save, Goto
  <2> QED
    BY <1>1, <2>1, <2>2 DEF Inv, TypeOK, Moves
<1>6. Alone' /\ Budget' /\ Open'
  BY <1>1, <1>4, OthersIdle DEF Inv, Alone, Budget, Open, Moves, Updating, Unpublished
<1>7. Typed'
  BY <1>2, <1>3, <1>4 DEF Inv, TypeOK, Typed
<1>8. Read'
  <2>1. scores'[p] = package'[shift'[p]]
    BY <1>1, <1>4 DEF Inv, Read, Moves
  <2>2. pc'[p] = "email" => workbook'[shift'[p]] = [status |-> "done", scores |-> scores'[p]]
    BY <1>1, <1>3, <1>4 DEF Inv, TypeOK, Moves, c
  <2> QED
    BY <1>1, <2>1, <2>2, OthersIdle DEF Read
<1> QED
  BY <1>5, <1>6, <1>7, <1>8 DEF Inv

LEMMA EmailKeeps == ASSUME Inv, NEW p \in Process, Email(p) PROVE Inv'
<1>1. Moves(p) /\ UNCHANGED <<workbook, package, generations, scores, kept>>
  BY DEF Inv, TypeOK, Email, Goto, Moves, local
<1>2. pc'[p] = "idle"
  BY DEF Inv, TypeOK, Email, Goto
<1>3. TypeOK'
  BY <1>1 DEF Inv, TypeOK, Email, Goto, Moves
<1>4. Alone' /\ Budget' /\ Typed' /\ Open' /\ Read'
  BY <1>1, <1>2, OthersIdle
     DEF Inv, Alone, Budget, Typed, Open, Read, Moves, Updating, Unpublished
<1> QED
  BY <1>3, <1>4 DEF Inv

LEMMA SaveExemptKeeps == ASSUME Inv, NEW p \in Process, SaveExempt(p) PROVE Inv'
<1>1. Moves(p) /\ UNCHANGED <<package, generations, notified, scores>>
  BY DEF Inv, TypeOK, SaveExempt, Goto, Moves, local
<1>2. pc[p] = "exempt" /\ pc'[p] = "idle"
  BY DEF Inv, TypeOK, SaveExempt, Goto
<1> DEFINE c == [status |-> "exempt", scores |-> Blank]
<1>3. c \in Column /\ c.scores # Manual
  BY DEF Column, Blank, Manual
<1>4. workbook' \in {workbook, [workbook EXCEPT ![shift[p]] = c]}
  BY <1>2 DEF Inv, Alone, SaveExempt, Updating
<1>5. kept' \subseteq Shift
  BY DEF Inv, TypeOK, SaveExempt, CopyWorkbook
<1> HIDE DEF c
<1>6. TypeOK'
  BY <1>1, <1>3, <1>4, <1>5 DEF Inv, TypeOK, SaveExempt, Goto, Moves
<1>7. Alone' /\ Budget' /\ Open' /\ Read'
  BY <1>1, <1>2, OthersIdle DEF Inv, Alone, Budget, Open, Read, Moves, Updating, Unpublished
<1>8. Typed'
  BY <1>3, <1>4 DEF Inv, TypeOK, Typed
<1> QED
  BY <1>6, <1>7, <1>8 DEF Inv

LEMMA CrashKeeps == ASSUME Inv, NEW p \in Process, Crash(p) PROVE Inv'
<1>1. Moves(p) /\ UNCHANGED <<workbook, package, generations, notified, scores, kept>>
  BY DEF Inv, TypeOK, Crash, Moves, local
<1>2. pc'[p] = "idle"
  BY DEF Inv, TypeOK, Crash
<1>3. TypeOK'
  BY <1>1 DEF Inv, TypeOK, Crash, Moves
<1>4. Alone' /\ Budget' /\ Typed' /\ Open' /\ Read'
  BY <1>1, <1>2, OthersIdle
     DEF Inv, Alone, Budget, Typed, Open, Read, Moves, Updating, Unpublished
<1> QED
  BY <1>3, <1>4 DEF Inv

LEMMA NextInv == Exclusive /\ Inv /\ [Next]_vars => Inv'
<1> SUFFICES ASSUME Exclusive, Inv, [Next]_vars PROVE Inv'
  OBVIOUS
<1>1. CASE UserEdits
  BY <1>1, UserKeeps
<1>2. ASSUME NEW p \in Process, Update(p) \/ Exempt(p) PROVE Inv'
  BY <1>2, UpdateKeeps, ExemptKeeps
<1>3. ASSUME NEW p \in Process, Run(p) \/ Crash(p) PROVE Inv'
  BY <1>3, BackupKeeps, AssessKeeps, DeliverKeeps, ValidateKeeps, SaveKeeps, EmailKeeps,
     SaveExemptKeeps, CrashKeeps DEF Run
<1>4. CASE UNCHANGED vars
  BY <1>4 DEF vars, local, Inv, TypeOK, Alone, Budget, Typed, Open, Read
<1> QED
  BY <1>1, <1>2, <1>3, <1>4 DEF Next

-----------------------------------------------------------------------------
\* One command at a time: the invariant holds at every moment of report.py's work.
LEMMA Invariant == Exclusive => (Spec => []Inv)
<1> SUFFICES ASSUME Exclusive PROVE Spec => []Inv
  OBVIOUS
<1>1. Inv /\ [Next]_vars => Inv'
  BY NextInv
<1> QED
  BY <1>1, InitInv, PTL DEF Spec

\* What a step of a process does while nothing but its save is in question.
LEMMA SaveSteps ==
  ASSUME Exclusive, Inv, [Next]_vars, NEW p \in Process, Saving(p)
  PROVE  Save(p)
<1>1. pc[p] = "save" /\ pc'[p] # "save" /\ workbook' # workbook
  BY DEF Saving
<1>2. \A q \in Process : pc[q] # "idle" => q = p
  BY <1>1 DEF Inv, Alone
<1>3. Next
  BY <1>1 DEF vars
<1>4. ~Counted
  BY <1>1 DEF Counted
<1>5. PICK q \in Process : Run(q) \/ Crash(q)
  BY <1>3, <1>4 DEF Next, UserEdits, Update, Exempt
<1>6. q = p
  BY <1>2, <1>5 DEF Run, Backup, Reuse, RunCli, Deliver, Validate, Save, Email, SaveExempt,
                    Crash, Goto
<1> QED
  BY <1>1, <1>5, <1>6 DEF Run, Backup, Reuse, RunCli, Deliver, Validate, Email, SaveExempt,
                          Crash, Goto

\* Types, for any number of processes, columns and commands; no package has a number
\* above that of the commands given.
THEOREM TypeCorrect == Exclusive => (Spec => []TypeOK)
<1> SUFFICES ASSUME Exclusive PROVE Spec => []TypeOK
  OBVIOUS
<1>1. Inv => TypeOK
  BY DEF Inv
<1> QED
  BY <1>1, Invariant, PTL

\* An update never replaces an exempt column, if commands and the user do not overlap
\* (report.py:334 and 371).
THEOREM ExemptionIsKept == Exclusive => (Spec => ExemptionKept)
<1> SUFFICES ASSUME Exclusive PROVE Spec => ExemptionKept
  OBVIOUS
<1>1. Inv /\ [Next]_vars =>
        [\A p \in Process : Saving(p) =>
           \A s \in Shift : workbook[s].status = "exempt" => workbook'[s] = workbook[s]]_vars
  <2> SUFFICES ASSUME Inv, [Next]_vars, NEW p \in Process, Saving(p),
                      NEW s \in Shift, workbook[s].status = "exempt"
               PROVE  workbook'[s] = workbook[s]
    OBVIOUS
  <2>1. Save(p)
    BY SaveSteps
  <2>2. s # shift[p]
    BY <2>1, SaveWrites DEF Inv, Open, Updating
  <2> QED
    BY <2>1, <2>2, SaveWrites DEF Inv, TypeOK
<1> QED
  BY <1>1, Invariant, PTL DEF ExemptionKept, Spec

\* A save changes the column of its shift and no other: "the only ordinary-update write
\* scope" (report.py:358).
THEOREM OnlyTargetChanges == Exclusive => (Spec => OnlyTargetColumn)
<1> SUFFICES ASSUME Exclusive PROVE Spec => OnlyTargetColumn
  OBVIOUS
<1>1. Inv /\ [Next]_vars =>
        [\A p \in Process : Saving(p) =>
           \A s \in Shift \ {shift[p]} : workbook'[s] = workbook[s]]_vars
  <2> SUFFICES ASSUME Inv, [Next]_vars, NEW p \in Process, Saving(p),
                      NEW s \in Shift \ {shift[p]}
               PROVE  workbook'[s] = workbook[s]
    OBVIOUS
  <2>1. Save(p)
    BY SaveSteps
  <2> QED
    BY <2>1, SaveWrites DEF Inv, TypeOK
<1> QED
  BY <1>1, Invariant, PTL DEF OnlyTargetColumn, Spec

\* Scores the user typed are in the workbook or in a backup, whatever commands follow
\* and wherever they stop: the backup of --force and of exempt comes first.
THEOREM TypedScoresAreKept == Exclusive => (Spec => TypedScoresKept)
<1> SUFFICES ASSUME Exclusive PROVE Spec => TypedScoresKept
  OBVIOUS
<1>1. Inv /\ [Next]_vars =>
        [\A s \in Shift :
           workbook[s].scores = Manual /\ workbook'[s].scores # Manual => s \in kept']_vars
  <2> SUFFICES ASSUME Inv, Next, NEW s \in Shift,
                      workbook[s].scores = Manual, workbook'[s].scores # Manual
               PROVE  s \in kept'
    BY DEF vars
  <2>1. workbook[s].status = "done"
    BY DEF Inv, Typed
  <2>2. ASSUME NEW p \in Process, Save(p)
        PROVE  s \in kept'
    <3>1. kept' = kept /\ pc[p] = "save"
      BY <2>2 DEF Save, Goto
    <3>2. s = shift[p]
      BY <2>2, SaveWrites DEF Inv, TypeOK
    <3> QED
      BY <3>1, <3>2 DEF Inv, Open, Updating
  <2>3. ASSUME NEW p \in Process, SaveExempt(p)
        PROVE  s \in kept'
    BY <2>3 DEF SaveExempt, CopyWorkbook
  <2>4. CASE UserEdits
    <3>1. PICK e \in Shift :
            \/ workbook' = [workbook EXCEPT ![e].scores = Manual]
            \/ workbook[e].status = "exempt" /\ workbook' = [workbook EXCEPT ![e] = Empty]
      BY <2>4 DEF UserEdits
    <3>2. workbook[s] = [status |-> workbook[s].status, scores |-> workbook[s].scores]
      BY DEF Inv, TypeOK, Column
    <3> QED
      BY <2>1, <3>1, <3>2 DEF Inv, TypeOK
  <2>5. UserEdits \/ \E p \in Process : Save(p) \/ SaveExempt(p)
    BY DEF Next, Update, Exempt, Run, Backup, Reuse, RunCli, Deliver, Validate, Email, Crash
  <2> QED
    BY <2>2, <2>3, <2>4, <2>5
<1> QED
  BY <1>1, Invariant, PTL DEF TypedScoresKept, Spec

\* The mail that follows an update says what its column says.
THEOREM MailSaysTheColumn == Exclusive => (Spec => MailMatchesReport)
<1> SUFFICES ASSUME Exclusive PROVE Spec => MailMatchesReport
  OBVIOUS
<1>1. Inv /\ [Next]_vars =>
        [\A p \in Process : pc[p] = "email" /\ notified' # notified =>
           workbook[shift[p]] = [status |-> "done", scores |-> notified'[shift[p]]]]_vars
  <2> SUFFICES ASSUME Inv, Next, NEW p \in Process, pc[p] = "email", notified' # notified
               PROVE  workbook[shift[p]] = [status |-> "done", scores |-> notified'[shift[p]]]
    BY DEF vars
  <2>1. PICK q \in Process : Email(q)
    BY DEF Next, UserEdits, Update, Exempt, Run, Backup, Reuse, RunCli, Deliver, Validate,
           Save, SaveExempt, Crash
  <2>2. q = p
    BY <2>1 DEF Inv, Alone, Email, Goto
  <2>3. notified'[shift[p]] = package[shift[p]]
    BY <2>1, <2>2 DEF Inv, TypeOK, Email
  <2> QED
    BY <2>3 DEF Inv, Read
<1> QED
  BY <1>1, Invariant, PTL DEF MailMatchesReport, Spec
=============================================================================
