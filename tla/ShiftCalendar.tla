---------------------------- MODULE ShiftCalendar ----------------------------
(***************************************************************************)
(* The production calendar (shifts/cyclic_calendar.py): 12-hour slots that *)
(* follow each other without end in both directions from a reference time, *)
(* worked by three teams in rotation; and the report day of a shift        *)
(* (report_common.py): a night is counted on the day it ends.              *)
(*                                                                         *)
(* Time is a count of ticks since the midnight of day 0.                   *)
(***************************************************************************)
EXTENDS Integers

CONSTANTS
  Duration,         \* shift_duration, twelve hours, in ticks
  Reference,        \* reference_start, when a shift of Rotation[0] begins
  Rotation          \* the team of slots 0, 1 and 2

ASSUME DurationAssumption == Duration \in Nat \ {0, 1}
ASSUME ReferenceAssumption == Reference \in Int
ASSUME RotationAssumption ==
  /\ DOMAIN Rotation = 0..2
  /\ \A i, j \in 0..2 : Rotation[i] = Rotation[j] => i = j

Team == {Rotation[i] : i \in 0..2}

Day == 2 * Duration
DateOf(time) == time \div Day

-----------------------------------------------------------------------------
\* _shift_for_slot
ShiftOf(slot) ==
  [start |-> Reference + slot * Duration,
   end   |-> Reference + (slot + 1) * Duration,
   team  |-> Rotation[slot % 3],
   type  |-> IF slot % 2 = 0 THEN "day" ELSE "night"]

SlotAt(time) == (time - Reference) \div Duration

ShiftAt(time) == ShiftOf(SlotAt(time))

\* get_shifts: the shifts that overlap from <= time < to.
GetShifts(from, to) ==
  {s \in {ShiftOf(k) : k \in SlotAt(from)..SlotAt(to)} : s.start < to /\ s.end > from}

-----------------------------------------------------------------------------
\* A slip: every shift is counted on the day it begins.
ReportDateOfStart(s) == DateOf(s.start)

\* report_date_for_shift
ReportDate(s) == IF s.type = "night" THEN DateOf(s.end) ELSE DateOf(s.start)

\* shifts_for_date
ShiftsOn(date) ==
  LET time == Reference % Day
  IN  {s \in GetShifts((date - 1) * Day + time, (date + 1) * Day + time) :
         ReportDate(s) = date}
=============================================================================
