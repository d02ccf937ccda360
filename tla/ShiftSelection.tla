--------------------------- MODULE ShiftSelection ---------------------------
(***************************************************************************)
(* Which shifts "report.py update" assesses and which columns it fills:    *)
(* --last, --date with --team, and --from with --to, while time goes by.   *)
(*                                                                         *)
(* A shift is turned into a report date and a team to find its column, and *)
(* these into a shift again; the assessment is told a moment and finds the *)
(* shift by itself; the column is filled if the three agree.  What may     *)
(* fail besides, and --force, is in module ReportUpdate.                   *)
(***************************************************************************)
EXTENDS ShiftCalendar, FiniteSets, Sequences

CONSTANTS
  FirstTime, LastTime,      \* bound: the time that goes by
  FirstDate, LastDate,      \* the days of the workbook's month
  MaxCommands               \* bound: commands given

ASSUME TimeAssumption == FirstTime \in Int /\ LastTime \in Int
ASSUME MonthAssumption == FirstDate \in Int /\ LastDate \in Int
ASSUME MaxCommandsAssumption == MaxCommands \in Nat

Month == FirstDate..LastDate
Dates == (FirstDate - 1)..(LastDate + 1)  \* the dates named on the command line

VARIABLES
  now,              \* the local time
  command,          \* the arguments of the latest command, and when it was given
  todo,             \* assignments, a date and a team each, still to be worked on
  outcome,          \* how the latest command is going
  filled,           \* the columns marked done, with the shift they were filled from
  commands          \* commands so far

vars == <<now, command, todo, outcome, filled, commands>>

NoCommand == [kind |-> "none", from |-> 0, to |-> 0, at |-> 0]

Init ==
  /\ now = FirstTime
  /\ command = NoCommand
  /\ todo = <<>>
  /\ outcome = "ok"
  /\ filled = {}
  /\ commands = 0

-----------------------------------------------------------------------------
Tick ==
  /\ now < LastTime
  /\ now' = now + 1
  /\ UNCHANGED <<command, todo, outcome, filled, commands>>

\* A slip: the start of the current shift belongs to the current shift.
PreviousInclusive(time) == ShiftAt(ShiftAt(time).start)

\* _previous_completed_shift
Previous(time) == ShiftAt(ShiftAt(time).start - 1)

\* A command is given: the dates and teams it is about.
Given(kind, from, to, result, assignments) ==
  /\ todo = <<>>
  /\ commands < MaxCommands
  /\ commands' = commands + 1
  /\ command' = [kind |-> kind, from |-> from, to |-> to, at |-> now]
  /\ todo' = assignments
  /\ outcome' = result
  /\ UNCHANGED <<now, filled>>

UpdateLast ==
  LET s == Previous(now)
  IN  Given("last", ReportDate(s), ReportDate(s), "ok",
            <<[date |-> ReportDate(s), team |-> s.team]>>)

UpdateDate ==
  \E date \in Dates, team \in Team :
    Given("date", date, date, "ok", <<[date |-> date, team |-> team]>>)

\* shifts_for_date raises unless the date has two shifts.
Regular(date) == Cardinality(ShiftsOn(date)) = 2

\* The assignments of a date: its night before its day.
Nightly(date) ==
  LET Of(type) == [date |-> date,
                   team |-> (CHOOSE s \in ShiftsOn(date) : s.type = type).team]
  IN  <<Of("night"), Of("day")>>

UpdateRange ==
  \E from, to \in Dates :
    /\ from <= to
    /\ IF \A date \in from..to : Regular(date)
       THEN Given("range", from, to, "ok",
                  [i \in 1..(2 * (to - from + 1)) |->
                     Nightly(from + (i - 1) \div 2)[1 + ((i - 1) % 2)]])
       ELSE Given("range", from, to, "error", <<>>)

-----------------------------------------------------------------------------
\* Any exception ends the command, and what was not begun is not done.
Fail == todo' = <<>> /\ outcome' = "error" /\ UNCHANGED filled

Skip == todo' = Tail(todo) /\ UNCHANGED <<outcome, filled>>

\* A slip: the shifts of the calendar day, not of the report day.
AssignedByOverlap(date, team) ==
  {s \in GetShifts(date * Day, (date + 1) * Day) : s.team = team}

\* _shift_for_assignment
Assigned(date, team) == {s \in ShiftsOn(date) : s.team = team}

\* _run_assessment and "dcs_performance.cli run --at": one second into the shift.
Assessed(s) == ShiftAt(s.start + 1)

Column(date, team, s) == [date |-> date, team |-> team, start |-> s.start]

\* _write_result for one assignment.
Write ==
  /\ todo # <<>>
  /\ LET date == Head(todo).date
         team == Head(todo).team
     IN  IF ~Regular(date) THEN Fail
         ELSE IF Assigned(date, team) = {} THEN Skip       \* the team is off duty
         ELSE IF date \notin Month THEN Fail               \* no such column
         ELSE IF \E c \in filled : c.date = date /\ c.team = team THEN Skip
         ELSE \E s \in Assigned(date, team) :
                IF /\ Assessed(s) = s                      \* else no package, or another's
                   /\ ReportDate(Assessed(s)) = date
                   /\ Assessed(s).team = team
                THEN /\ filled' = filled \cup {Column(date, team, s)}
                     /\ todo' = Tail(todo)
                     /\ UNCHANGED outcome
                ELSE Fail
  /\ UNCHANGED <<now, command, commands>>

Next == Tick \/ UpdateLast \/ UpdateDate \/ UpdateRange \/ Write

Spec == Init /\ [][Next]_vars

-----------------------------------------------------------------------------
TypeOK ==
  /\ now \in Int
  /\ command \in [kind : {"none", "last", "date", "range"}, from : Int, to : Int, at : Int]
  /\ todo \in Seq([date : Int, team : Team])
  /\ outcome \in {"ok", "error"}
  /\ filled \subseteq [date : Month, team : Team, start : Int]
  /\ commands \in 0..MaxCommands

\* The checks that a shift, its column and its package agree never fail a command:
\* it fails only where it names a day of another month.
FailsOnlyOutsideMonth ==
  outcome = "error" => ~(command.from..command.to \subseteq Month)

\* --last, once done, has filled the column of the shift that had ended when the
\* command was given, and no later one had.
LastIsFilled ==
  command.kind = "last" /\ todo = <<>> /\ outcome = "ok" =>
    \E c \in filled : c.start + Duration <= command.at /\ command.at < c.start + 2 * Duration

\* --from and --to, once done, leave no moment out and count none twice: from the
\* beginning of the first night to the end of the last day, each is in the shift of
\* exactly one of the filled columns.
RangeIsCovered ==
  command.kind = "range" /\ todo = <<>> /\ outcome = "ok" =>
    LET time == Reference % Day
    IN  \A t \in (command.from * Day + time - Duration)
                  ..(command.to * Day + time + Duration - 1) :
          \E c \in filled :
            \A d \in filled : (d.start <= t /\ t < d.start + Duration) <=> d = c
=============================================================================
