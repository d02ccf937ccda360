---------------------------- MODULE Notification ----------------------------
(***************************************************************************)
(* Sending the email of a Result Package once (notification/sender.py) on  *)
(* top of the send-state file (notification/state.py).                     *)
(*                                                                         *)
(* Processes are invocations of "dcs-performance send-email" or of         *)
(* "report.py update --send-email" that share one state file; nothing      *)
(* locks it.  A process loads the whole document, talks to the SMTP        *)
(* server, and writes the whole document back, replacing the file          *)
(* atomically.  It may stop between any two of these.                      *)
(***************************************************************************)
EXTENDS Naturals

CONSTANTS
  Process,          \* processes that may call send_package_email
  Run,              \* run IDs of Result Packages
  Modes,            \* the ways a call is made: a subset of AllModes
  MaxCalls          \* bound: how many calls are made

\* preview and dry_run return at the same point; "preview" stands for both.
AllModes == {"send", "resend", "preview"}

ASSUME ModesAssumption == Modes \subseteq AllModes
ASSUME MaxCallsAssumption == MaxCalls \in Nat

Record == [status : {"absent", "sent", "failed"}, attempts : Nat]

VARIABLES
  file,             \* the state file: one record per run ID
  pc, run, mode,    \* per process: where its call is, and its arguments
  doc,              \* per process: the document it loaded
  accepted,         \* per process: the SMTP exchange ended without an exception
  calls,            \* calls made so far
  copies,           \* per run: times the server took the message for somebody
  confirmed,        \* history: runs for which a call returned status "sent"
  late              \* history, per process: its run was confirmed when it was called

mail == <<copies, confirmed>>
vars == <<file, pc, run, mode, doc, accepted, calls, mail, late>>

NoRecord == [status |-> "absent", attempts |-> 0]

Init ==
  /\ file = [r \in Run |-> NoRecord]
  /\ pc = [p \in Process |-> "idle"]
  /\ run \in [Process -> Run]
  /\ mode \in [Process -> Modes]
  /\ doc = [p \in Process |-> file]
  /\ accepted = [p \in Process |-> FALSE]
  /\ calls = 0
  /\ copies = [r \in Run |-> 0]
  /\ confirmed = {}
  /\ late = [p \in Process |-> FALSE]

-----------------------------------------------------------------------------
Goto(p, from, to) == pc[p] = from /\ pc' = [pc EXCEPT ![p] = to]

\* send_package_email is called; the package, the configuration and the
\* rendering are read-only and, when they fail, nothing else has happened.
Start(p) ==
  /\ calls < MaxCalls
  /\ calls' = calls + 1
  /\ Goto(p, "idle", "load")
  /\ \E r \in Run, m \in Modes :
       /\ run' = [run EXCEPT ![p] = r]
       /\ mode' = [mode EXCEPT ![p] = m]
       /\ late' = [late EXCEPT ![p] = r \in confirmed]
  /\ UNCHANGED <<file, doc, accepted, mail>>

\* A run is suppressed once its record says "sent".
IsSent(document, r) == document[r].status = "sent"

\* NotificationState.load, and the checks made on what it read: a preview, a
\* suppressed duplicate, an unreadable state file and a missing password leave.
Load(p) ==
  /\ \/ /\ mode[p] # "preview"
        /\ mode[p] = "resend" \/ ~IsSent(file, run[p])
        /\ Goto(p, "load", "smtp")
     \/ Goto(p, "load", "idle")
  /\ doc' = [doc EXCEPT ![p] = file]
  /\ UNCHANGED <<file, run, mode, accepted, calls, mail, late>>

\* Slip: an SMTP error is logged and the call goes on.
SmtpSwallowsErrors(p) ==
  /\ Goto(p, "smtp", "record")
  /\ accepted' = [accepted EXCEPT ![p] = TRUE]
  /\ copies' \in {copies, [copies EXCEPT ![run[p]] = @ + 1]}
  /\ UNCHANGED <<file, run, mode, doc, calls, confirmed, late>>

\* _send_smtp: the server takes the message and the exchange ends well; or it
\* takes it for some recipients, or its answer or QUIT is lost, and an
\* exception is raised all the same; or it takes nothing.
Smtp(p) ==
  /\ Goto(p, "smtp", "record")
  /\ \/ /\ copies' = [copies EXCEPT ![run[p]] = @ + 1]
        /\ accepted' \in {[accepted EXCEPT ![p] = TRUE], [accepted EXCEPT ![p] = FALSE]}
     \/ /\ UNCHANGED copies
        /\ accepted' = [accepted EXCEPT ![p] = FALSE]
  /\ UNCHANGED <<file, run, mode, doc, calls, confirmed, late>>

Updated(p) ==
  [doc[p] EXCEPT ![run[p]] =
     [status   |-> IF accepted[p] THEN "sent" ELSE "failed",
      attempts |-> @.attempts + 1]]

\* The document of this process with the record of its run.
NewDocument(p) == Updated(p)

\* NotificationState.record: the whole document replaces the file, or saving
\* fails and the call raises.  Only a saved success returns status "sent".
RecordOutcome(p) ==
  /\ Goto(p, "record", "idle")
  /\ doc' = [doc EXCEPT ![p] = NewDocument(p)]
  /\ \/ /\ file' = NewDocument(p)
        /\ confirmed' = IF accepted[p] THEN confirmed \cup {run[p]} ELSE confirmed
     \/ UNCHANGED <<file, confirmed>>
  /\ UNCHANGED <<run, mode, accepted, calls, copies, late>>

\* The process stops: killed, interrupted, or the machine goes down.
Crash(p) ==
  /\ pc[p] # "idle"
  /\ pc' = [pc EXCEPT ![p] = "idle"]
  /\ UNCHANGED <<file, run, mode, doc, accepted, calls, mail, late>>

Next == \E p \in Process :
  Start(p) \/ Load(p) \/ Smtp(p) \/ RecordOutcome(p) \/ Crash(p)

Spec == Init /\ [][Next]_vars

-----------------------------------------------------------------------------
TypeOK ==
  /\ file \in [Run -> Record]
  /\ pc \in [Process -> {"idle", "load", "smtp", "record"}]
  /\ run \in [Process -> Run]
  /\ mode \in [Process -> Modes]
  /\ doc \in [Process -> [Run -> Record]]
  /\ accepted \in [Process -> BOOLEAN]
  /\ calls \in Nat
  /\ copies \in [Run -> Nat]
  /\ confirmed \subseteq Run
  /\ late \in [Process -> BOOLEAN]

\* No run is ever recorded as sent, and so suppressed from then on, of which the
\* mail server took no message: whatever processes overwrite each other's state
\* file, and wherever they stop.
SentIsTrue == \A r \in Run : IsSent(file, r) => copies[r] > 0

\* "A successful send is suppressed on later calls unless resend is true"
\* (sender.py:57): once a call has returned "sent", no plain call made after it
\* gets to the mail server.
SentIsSuppressed ==
  \A p \in Process : pc[p] = "smtp" /\ mode[p] = "send" => ~late[p]
=============================================================================
