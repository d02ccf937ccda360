---------------------------- MODULE ShiftProofs ----------------------------
(***************************************************************************)
(* Theorems about the cyclic calendar and the selection of shifts, for any *)
(* reference time, any length of a shift and any three teams.              *)
(***************************************************************************)
EXTENDS ShiftSelection, FiniteSetTheorems, TLAPS

-----------------------------------------------------------------------------
(***************************************************************************)
(* Division rounds down, on both sides of zero.                            *)
(***************************************************************************)
LEMMA Division ==
  ASSUME NEW a \in Int, NEW d \in Nat \ {0}
  PROVE  /\ a \div d \in Int
         /\ d * (a \div d) <= a
         /\ a < d * (a \div d) + d
         /\ a % d = a - d * (a \div d)
BY SMT

LEMMA Quotient ==
  ASSUME NEW a \in Int, NEW d \in Nat \ {0}, NEW q \in Int,
         d * q <= a, a < d * q + d
  PROVE  a \div d = q
BY SMT

\* The slots follow each other without a gap.
LEMMA SlotBounds ==
  ASSUME NEW t \in Int
  PROVE  /\ SlotAt(t) \in Int
         /\ Reference + SlotAt(t) * Duration <= t
         /\ t < Reference + (SlotAt(t) + 1) * Duration
<1>1. t - Reference \in Int /\ Duration \in Nat \ {0}
  BY DurationAssumption, ReferenceAssumption
<1>2. /\ SlotAt(t) \in Int
      /\ Duration * SlotAt(t) <= t - Reference
      /\ t - Reference < Duration * SlotAt(t) + Duration
  BY <1>1, Division DEF SlotAt
<1> QED
  BY <1>1, <1>2, ReferenceAssumption

LEMMA SlotUnique ==
  ASSUME NEW t \in Int, NEW k \in Int,
         Reference + k * Duration <= t, t < Reference + (k + 1) * Duration
  PROVE  SlotAt(t) = k
<1>1. t - Reference \in Int /\ Duration \in Nat \ {0}
  BY DurationAssumption, ReferenceAssumption
<1>2. Duration * k <= t - Reference /\ t - Reference < Duration * k + Duration
  BY <1>1, ReferenceAssumption
<1> QED
  BY <1>1, <1>2, Quotient DEF SlotAt

LEMMA ShiftBounds ==
  ASSUME NEW k \in Int
  PROVE  /\ ShiftOf(k).start = Reference + k * Duration
         /\ ShiftOf(k).end = Reference + (k + 1) * Duration
         /\ ShiftOf(k).start \in Int /\ ShiftOf(k).end \in Int
         /\ ShiftOf(k).team = Rotation[k % 3]
         /\ ShiftOf(k).type = IF k % 2 = 0 THEN "day" ELSE "night"
BY DurationAssumption, ReferenceAssumption DEF ShiftOf

\* Every moment, before the reference time too, is in one shift, the one that
\* shift_for_timestamp returns.
THEOREM MomentInOneShift ==
  ASSUME NEW t \in Int, NEW k \in Int
  PROVE  (ShiftOf(k).start <= t /\ t < ShiftOf(k).end) <=> ShiftAt(t) = ShiftOf(k)
<1>1. ASSUME ShiftOf(k).start <= t, t < ShiftOf(k).end PROVE ShiftAt(t) = ShiftOf(k)
  BY <1>1, ShiftBounds, SlotUnique DEF ShiftAt
<1>2. ASSUME ShiftAt(t) = ShiftOf(k) PROVE ShiftOf(k).start <= t /\ t < ShiftOf(k).end
  <2>1. /\ SlotAt(t) \in Int
        /\ ShiftAt(t).start <= t /\ t < ShiftAt(t).end
    BY SlotBounds, ShiftBounds DEF ShiftAt
  <2> QED
    BY <1>2, <2>1
<1> QED
  BY <1>1, <1>2

\* The moment report.py gives to "cli run --at", one second into the shift, makes
\* the assessment find that shift.
THEOREM AssessmentFindsShift ==
  ASSUME NEW k \in Int
  PROVE  Assessed(ShiftOf(k)) = ShiftOf(k)
<1>1. /\ k * Duration \in Int
      /\ (k + 1) * Duration = k * Duration + Duration
      /\ Duration \in Nat /\ Duration > 1
  BY DurationAssumption
<1>2. ShiftOf(k).start = Reference + k * Duration
  BY ShiftBounds
<1>3. /\ ShiftOf(k).start + 1 \in Int
      /\ Reference + k * Duration <= ShiftOf(k).start + 1
      /\ ShiftOf(k).start + 1 < Reference + (k + 1) * Duration
  BY <1>1, <1>2, ReferenceAssumption
<1> QED
  BY <1>3, SlotUnique DEF Assessed, ShiftAt

\* get_shifts returns all the shifts that overlap the queried interval, and no
\* other.
THEOREM AllOverlappingShifts ==
  ASSUME NEW from \in Int, NEW to \in Int, from < to, NEW k \in Int
  PROVE  ShiftOf(k) \in GetShifts(from, to)
           <=> ShiftOf(k).start < to /\ ShiftOf(k).end > from
<1>1. ASSUME ShiftOf(k).start < to, ShiftOf(k).end > from
      PROVE  k \in SlotAt(from)..SlotAt(to)
  <2>1. /\ SlotAt(from) \in Int /\ SlotAt(to) \in Int
        /\ Reference + SlotAt(from) * Duration <= from
        /\ to < Reference + (SlotAt(to) + 1) * Duration
    BY SlotBounds
  <2>2. /\ Reference + k * Duration < to
        /\ Reference + (k + 1) * Duration > from
    BY <1>1, ShiftBounds
  <2>3. SlotAt(from) * Duration < (k + 1) * Duration
    BY <2>1, <2>2, DurationAssumption, ReferenceAssumption
  <2>4. k * Duration < (SlotAt(to) + 1) * Duration
    BY <2>1, <2>2, DurationAssumption, ReferenceAssumption
  <2> QED
    BY <2>1, <2>3, <2>4, DurationAssumption
<1> QED
  BY <1>1 DEF GetShifts

-----------------------------------------------------------------------------
(***************************************************************************)
(* The report day of a shift.  The reference is Today days and a time of   *)
(* day after the midnight of day 0; slots 2j - 1 and 2j are the night and  *)
(* the day of report day Today + j.                                        *)
(***************************************************************************)
Today == Reference \div Day
TimeOfDay == Reference % Day

LEMMA ReferenceSplit ==
  /\ Day \in Nat \ {0} /\ Day = 2 * Duration
  /\ Today \in Int /\ TimeOfDay \in Int
  /\ Reference = Day * Today + TimeOfDay
  /\ 0 <= TimeOfDay /\ TimeOfDay < Day
<1>1. Day \in Nat \ {0} /\ Day = 2 * Duration /\ Reference \in Int
  BY DurationAssumption, ReferenceAssumption DEF Day
<1>2. /\ Today \in Int
      /\ Day * Today <= Reference /\ Reference < Day * Today + Day
      /\ TimeOfDay = Reference - Day * Today
  BY <1>1, Division DEF Today, TimeOfDay
<1>3. Day * Today \in Int
  BY <1>1, <1>2
<1> HIDE DEF Day, Today, TimeOfDay
<1> QED
  BY <1>1, <1>2, <1>3

LEMMA DateOfMultiple ==
  ASSUME NEW j \in Int
  PROVE  DateOf(Reference + (2 * j) * Duration) = Today + j
<1>1. Reference + (2 * j) * Duration = Day * (Today + j) + TimeOfDay
  BY ReferenceSplit, DurationAssumption, ReferenceAssumption
<1>2. Reference + (2 * j) * Duration \in Int /\ Today + j \in Int
  BY ReferenceSplit, DurationAssumption, ReferenceAssumption
<1>3. /\ Day * (Today + j) <= Reference + (2 * j) * Duration
      /\ Reference + (2 * j) * Duration < Day * (Today + j) + Day
  BY <1>1, <1>2, ReferenceSplit
<1> QED
  BY <1>2, <1>3, ReferenceSplit, Quotient DEF DateOf

LEMMA Parity ==
  ASSUME NEW k \in Int
  PROVE  \E j \in Int : \/ k = 2 * j /\ k % 2 = 0
                        \/ k = 2 * j - 1 /\ k % 2 = 1
<1>1. CASE k % 2 = 0
  <2>1. k = 2 * (k \div 2) /\ k \div 2 \in Int
    BY <1>1, Division
  <2> QED
    BY <1>1, <2>1
<1>2. CASE k % 2 = 1
  <2>1. k = 2 * (k \div 2 + 1) - 1 /\ k \div 2 + 1 \in Int
    BY <1>2, Division
  <2> QED
    BY <1>2, <2>1
<1> QED
  BY <1>1, <1>2

LEMMA EvenOdd ==
  ASSUME NEW j \in Int
  PROVE  (2 * j) % 2 = 0 /\ (2 * j - 1) % 2 = 1
BY SMT

LEMMA NextTeam ==
  ASSUME NEW k \in Int
  PROVE  k % 3 \in 0..2 /\ k % 3 # (k + 1) % 3
BY SMT

LEMMA ReportDates ==
  ASSUME NEW j \in Int
  PROVE  /\ ReportDate(ShiftOf(2 * j)) = Today + j
         /\ ReportDate(ShiftOf(2 * j - 1)) = Today + j
         /\ ShiftOf(2 * j).type = "day" /\ ShiftOf(2 * j - 1).type = "night"
<1>1. 2 * j \in Int /\ 2 * j - 1 \in Int /\ (2 * j - 1) + 1 = 2 * j
  OBVIOUS
<1>2. ShiftOf(2 * j).type = "day" /\ ShiftOf(2 * j).start = Reference + (2 * j) * Duration
  BY <1>1, EvenOdd, ShiftBounds
<1>3. ShiftOf(2 * j - 1).type = "night"
  BY <1>1, EvenOdd, ShiftBounds
<1>4. ShiftOf(2 * j - 1).end = Reference + (2 * j) * Duration
  BY <1>1, ShiftBounds
<1> QED
  BY <1>2, <1>3, <1>4, DateOfMultiple DEF ReportDate

\* A report day has two shifts, the night that ends on it and the day that follows,
\* of two different teams: what shifts_for_date checks never fails, and a date and
\* a team name one shift.
THEOREM TwoShiftsPerDate ==
  ASSUME NEW date \in Int
  PROVE  LET j == date - Today
         IN  /\ ShiftsOn(date) = {ShiftOf(2 * j - 1), ShiftOf(2 * j)}
             /\ ShiftOf(2 * j - 1).team # ShiftOf(2 * j).team
<1> DEFINE j == date - Today
           from == (date - 1) * Day + TimeOfDay
           to == (date + 1) * Day + TimeOfDay
<1>1. j \in Int /\ 2 * j \in Int /\ 2 * j - 1 \in Int /\ (2 * j - 1) + 1 = 2 * j /\ Today + j = date
  BY ReferenceSplit
<1>2. /\ from \in Int /\ to \in Int /\ from < to
      /\ from = Reference + (2 * j) * Duration - 2 * Duration
      /\ to = Reference + (2 * j) * Duration + 2 * Duration
  <2>1. /\ (date - 1) * Day = date * Day - Day /\ (date + 1) * Day = date * Day + Day
        /\ date * Day \in Int
    BY ReferenceSplit
  <2>2. date * Day = Day * Today + Day * j /\ Day * Today \in Int
    BY <1>1, ReferenceSplit
  <2>3. Day * j = (2 * j) * Duration /\ Day * j \in Int
    BY <1>1, ReferenceSplit, DurationAssumption
  <2> QED
    BY <2>1, <2>2, <2>3, ReferenceSplit, DurationAssumption
<1>3. ASSUME NEW k \in {2 * j - 1, 2 * j}
      PROVE  ShiftOf(k) \in GetShifts(from, to)
  <2>1. /\ k \in Int
        /\ (2 * j - 1) * Duration = (2 * j) * Duration - Duration
        /\ (2 * j + 1) * Duration = (2 * j) * Duration + Duration
        /\ (2 * j) * Duration \in Int /\ Duration \in Nat /\ Duration > 0
    BY <1>1, DurationAssumption
  <2>2. /\ ShiftOf(k).start = Reference + k * Duration
        /\ ShiftOf(k).end = Reference + (k + 1) * Duration
    BY <2>1, ShiftBounds
  <2> HIDE DEF j, from, to
  <2>3. ShiftOf(k).start < to /\ ShiftOf(k).end > from
    <3>1. CASE k = 2 * j
      BY <1>1, <1>2, <2>1, <2>2, <3>1, ReferenceAssumption
    <3>2. CASE k = 2 * j - 1
      BY <1>1, <1>2, <2>1, <2>2, <3>2, ReferenceAssumption
    <3> QED
      BY <3>1, <3>2
  <2> QED
    BY <1>2, <2>1, <2>3, AllOverlappingShifts
<1>4. ASSUME NEW s \in ShiftsOn(date)
      PROVE  s \in {ShiftOf(2 * j - 1), ShiftOf(2 * j)}
  <2>1. PICK k \in Int : s = ShiftOf(k) /\ ReportDate(s) = date
    <3>1. SlotAt(from) \in Int /\ SlotAt(to) \in Int
      BY <1>2, SlotBounds
    <3> QED
      BY <3>1 DEF ShiftsOn, GetShifts, TimeOfDay
  <2>2. PICK i \in Int : k = 2 * i \/ k = 2 * i - 1
    BY Parity
  <2>3. ReportDate(s) = Today + i
    BY <2>1, <2>2, ReportDates
  <2>4. i = j
    BY <1>1, <2>1, <2>3, ReferenceSplit
  <2> QED
    BY <2>1, <2>2, <2>4
<1>5. ShiftsOn(date) = {ShiftOf(2 * j - 1), ShiftOf(2 * j)}
  <2>1. ReportDate(ShiftOf(2 * j)) = date /\ ReportDate(ShiftOf(2 * j - 1)) = date
    BY <1>1, ReportDates
  <2>2. {ShiftOf(2 * j - 1), ShiftOf(2 * j)} \subseteq ShiftsOn(date)
    BY <1>3, <2>1 DEF ShiftsOn, TimeOfDay
  <2> QED
    BY <1>4, <2>2
<1>6. ShiftOf(2 * j - 1).team # ShiftOf(2 * j).team
  <2>1. /\ (2 * j - 1) % 3 \in 0..2 /\ (2 * j) % 3 \in 0..2
        /\ (2 * j - 1) % 3 # (2 * j) % 3
    BY <1>1, NextTeam
  <2> QED
    BY <1>1, <2>1, ShiftBounds, RotationAssumption
<1> QED
  BY <1>5, <1>6

-----------------------------------------------------------------------------
(***************************************************************************)
(* From a shift to its column and back.                                    *)
(***************************************************************************)
LEMMA RegularAlways ==
  ASSUME NEW date \in Int
  PROVE  Regular(date)
<1>1. PICK k \in Int, l \in Int : ShiftsOn(date) = {ShiftOf(k), ShiftOf(l)}
                                  /\ ShiftOf(k) # ShiftOf(l)
  <2>1. date - Today \in Int
    BY ReferenceSplit
  <2> QED
    BY <2>1, TwoShiftsPerDate
<1>2. IsFiniteSet({ShiftOf(l)}) /\ Cardinality({ShiftOf(l)}) = 1
  BY FS_Singleton
<1>3. Cardinality({ShiftOf(l)} \cup {ShiftOf(k)}) = 1 + 1
  BY <1>1, <1>2, FS_AddElement
<1>4. ShiftsOn(date) = {ShiftOf(l)} \cup {ShiftOf(k)}
  BY <1>1
<1> QED
  BY <1>3, <1>4 DEF Regular

LEMMA AssignedShift ==
  ASSUME NEW date \in Int, NEW team, NEW s \in Assigned(date, team)
  PROVE  \E k \in Int : s = ShiftOf(k) /\ ReportDate(s) = date /\ s.team = team
                        /\ Assessed(s) = s
<1>1. date - Today \in Int
  BY ReferenceSplit
<1>2. s \in ShiftsOn(date) /\ s.team = team /\ ReportDate(s) = date
  BY DEF Assigned, ShiftsOn
<1>3. PICK k \in Int : s = ShiftOf(k)
  BY <1>1, <1>2, TwoShiftsPerDate
<1> QED
  BY <1>2, <1>3, AssessmentFindsShift

\* The date and the team of a shift lead back to that shift: no other shift has the
\* same column.
THEOREM ColumnNamesShift ==
  ASSUME NEW k \in Int
  PROVE  /\ ReportDate(ShiftOf(k)) \in Int
         /\ Assigned(ReportDate(ShiftOf(k)), ShiftOf(k).team) = {ShiftOf(k)}
<1>1. PICK j \in Int : k = 2 * j \/ k = 2 * j - 1
  BY Parity
<1>2. ReportDate(ShiftOf(k)) = Today + j /\ Today + j \in Int
  <2>1. /\ ReportDate(ShiftOf(2 * j)) = Today + j
        /\ ReportDate(ShiftOf(2 * j - 1)) = Today + j
    BY ReportDates
  <2>2. Today \in Int
    BY ReferenceSplit
  <2> QED
    BY <1>1, <2>1, <2>2
<1>3. (Today + j) - Today = j
  BY ReferenceSplit
<1>4. /\ ShiftsOn(Today + j) = {ShiftOf(2 * j - 1), ShiftOf(2 * j)}
      /\ ShiftOf(2 * j - 1).team # ShiftOf(2 * j).team
  BY <1>2, <1>3, TwoShiftsPerDate
<1> QED
  BY <1>1, <1>2, <1>4 DEF Assigned

\* What --last looks for is the shift that ended last.
LEMMA PreviousShift ==
  ASSUME NEW t \in Int
  PROVE  \E k \in Int : /\ Previous(t) = ShiftOf(k)
                        /\ ShiftOf(k).start + Duration <= t
                        /\ t < ShiftOf(k).start + 2 * Duration
<1> DEFINE k == SlotAt(t)
<1>1. /\ k \in Int /\ k - 1 \in Int
      /\ Reference + k * Duration <= t
      /\ t < Reference + (k + 1) * Duration
  BY SlotBounds
<1>2. /\ k * Duration \in Int /\ Duration \in Nat /\ Duration > 1
      /\ (k + 1) * Duration = k * Duration + Duration
      /\ (k - 1) * Duration = k * Duration - Duration
  BY <1>1, DurationAssumption
<1>3. ShiftAt(t).start = Reference + k * Duration
  BY <1>1, ShiftBounds DEF ShiftAt
<1> HIDE DEF k
<1>4. /\ ShiftAt(t).start - 1 \in Int
      /\ Reference + (k - 1) * Duration <= ShiftAt(t).start - 1
      /\ ShiftAt(t).start - 1 < Reference + ((k - 1) + 1) * Duration
  BY <1>1, <1>2, <1>3, ReferenceAssumption
<1>5. SlotAt(ShiftAt(t).start - 1) = k - 1
  BY <1>1, <1>4, SlotUnique
<1>6. Previous(t) = ShiftOf(k - 1)
  BY <1>5 DEF Previous, ShiftAt
<1>7. ShiftOf(k - 1).start = Reference + (k - 1) * Duration
  BY <1>1, ShiftBounds
<1> QED
  BY <1>1, <1>2, <1>6, <1>7, ReferenceAssumption

-----------------------------------------------------------------------------
(***************************************************************************)
(* The inductive invariant of the commands.                                *)
(***************************************************************************)
ColumnOf(k) == Column(ReportDate(ShiftOf(k)), ShiftOf(k).team, ShiftOf(k))

\* What is still to be done was asked for.
Pending == \A i \in DOMAIN todo : todo[i].date \in command.from..command.to

\* Every filled column is that of the shift it was filled from.
Sound == \A c \in filled : \E k \in Int : c = ColumnOf(k)

\* After --last its shift is still to be worked on, or refused, or filled.
Completed(k) ==
  /\ ShiftOf(k).start + Duration <= command.at
  /\ command.at < ShiftOf(k).start + 2 * Duration
  /\ command.from = ReportDate(ShiftOf(k))

Handled(k) ==
  \/ todo = <<[date |-> ReportDate(ShiftOf(k)), team |-> ShiftOf(k).team]>>
  \/ todo = <<>> /\ (outcome = "error" \/ ColumnOf(k) \in filled)

LastPending == command.kind = "last" => \E k \in Int : Completed(k) /\ Handled(k)

\* After --from and --to each shift of the range is still to be worked on or filled,
\* unless the command was refused.
AssignmentOf(k) == [date |-> ReportDate(ShiftOf(k)), team |-> ShiftOf(k).team]

SlotsOf(from, to) == (2 * (from - Today) - 1)..(2 * (to - Today))

RangePending ==
  command.kind = "range" /\ outcome = "ok" =>
    \A k \in SlotsOf(command.from, command.to) :
      \/ \E i \in DOMAIN todo : todo[i] = AssignmentOf(k)
      \/ ColumnOf(k) \in filled

SelectionInv ==
  TypeOK /\ FailsOnlyOutsideMonth /\ Pending /\ Sound /\ LastPending /\ RangePending

Assignment == [date : Int, team : Team]

LEMMA TeamOfShift ==
  ASSUME NEW k \in Int
  PROVE  ShiftOf(k).team \in Team
BY ShiftBounds, NextTeam DEF Team

LEMMA NightlyTypes ==
  ASSUME NEW date \in Int
  PROVE  /\ Nightly(date)[1] \in Assignment /\ Nightly(date)[1].date = date
         /\ Nightly(date)[2] \in Assignment /\ Nightly(date)[2].date = date
         /\ Nightly(date)[1] = AssignmentOf(2 * (date - Today) - 1)
         /\ Nightly(date)[2] = AssignmentOf(2 * (date - Today))
<1> DEFINE j == date - Today
<1>1. /\ j \in Int /\ 2 * j - 1 \in Int /\ 2 * j \in Int
      /\ ShiftsOn(date) = {ShiftOf(2 * j - 1), ShiftOf(2 * j)}
  BY ReferenceSplit, TwoShiftsPerDate
<1>2. /\ ShiftOf(2 * j).type = "day" /\ ShiftOf(2 * j - 1).type = "night"
      /\ ReportDate(ShiftOf(2 * j)) = date /\ ReportDate(ShiftOf(2 * j - 1)) = date
  <2>1. Today + j = date
    BY ReferenceSplit
  <2> QED
    BY <1>1, <2>1, ReportDates
<1> HIDE DEF j
<1>3. /\ (CHOOSE s \in ShiftsOn(date) : s.type = "night") = ShiftOf(2 * j - 1)
      /\ (CHOOSE s \in ShiftsOn(date) : s.type = "day") = ShiftOf(2 * j)
  BY <1>1, <1>2
<1>4. ShiftOf(2 * j).team \in Team /\ ShiftOf(2 * j - 1).team \in Team
  BY <1>1, TeamOfShift
<1> QED
  BY <1>2, <1>3, <1>4 DEF Nightly, Assignment, AssignmentOf, j

LEMMA GivenKeeps ==
  ASSUME SelectionInv, NEW kind \in {"last", "date", "range"}, NEW from \in Int, NEW to \in Int,
         NEW assignments \in Seq(Assignment), Given(kind, from, to, "ok", assignments),
         \A i \in DOMAIN assignments : assignments[i].date \in from..to,
         kind = "last" => \E k \in Int :
           /\ ShiftOf(k).start + Duration <= now /\ now < ShiftOf(k).start + 2 * Duration
           /\ from = ReportDate(ShiftOf(k))
           /\ assignments = <<[date |-> from, team |-> ShiftOf(k).team]>>,
         kind = "range" => \A k \in SlotsOf(from, to) :
           \E i \in DOMAIN assignments : assignments[i] = AssignmentOf(k)
  PROVE  SelectionInv'
<1>1. /\ command' = [kind |-> kind, from |-> from, to |-> to, at |-> now]
      /\ todo' = assignments /\ outcome' = "ok"
      /\ filled' = filled /\ now' = now /\ commands' \in 0..MaxCommands
  BY MaxCommandsAssumption DEF Given, SelectionInv, TypeOK
<1>2. TypeOK'
  BY <1>1 DEF SelectionInv, TypeOK, Assignment
<1>3. FailsOnlyOutsideMonth' /\ Pending'
  BY <1>1 DEF FailsOnlyOutsideMonth, Pending
<1>4. Sound'
  BY <1>1 DEF SelectionInv, Sound
<1>5. LastPending'
  BY <1>1 DEF LastPending, Completed, Handled
<1>6. RangePending'
  BY <1>1 DEF RangePending
<1> QED
  BY <1>2, <1>3, <1>4, <1>5, <1>6 DEF SelectionInv

LEMMA LastKeeps == SelectionInv /\ UpdateLast => SelectionInv'
<1> SUFFICES ASSUME SelectionInv, UpdateLast PROVE SelectionInv'
  OBVIOUS
<1>1. now \in Int
  BY DEF SelectionInv, TypeOK
<1>2. PICK k \in Int : /\ Previous(now) = ShiftOf(k)
                       /\ ShiftOf(k).start + Duration <= now
                       /\ now < ShiftOf(k).start + 2 * Duration
  BY <1>1, PreviousShift
<1> DEFINE date == ReportDate(ShiftOf(k))
           assignments == <<[date |-> date, team |-> ShiftOf(k).team]>>
<1>3. date \in Int /\ ShiftOf(k).team \in Team
  BY ColumnNamesShift, TeamOfShift
<1>4. Given("last", date, date, "ok", assignments)
  BY <1>2 DEF UpdateLast
<1>5. assignments \in Seq(Assignment) /\ \A i \in DOMAIN assignments : assignments[i].date = date
  BY <1>3 DEF Assignment
<1> HIDE DEF date
<1>6. \A i \in DOMAIN assignments : assignments[i].date \in date..date
  BY <1>3, <1>5
<1> HIDE DEF assignments
<1> QED
  BY <1>2, <1>3, <1>4, <1>5, <1>6, GivenKeeps DEF date, assignments

LEMMA DateKeeps == SelectionInv /\ UpdateDate => SelectionInv'
<1> SUFFICES ASSUME SelectionInv, NEW date \in Dates, NEW team \in Team,
                    Given("date", date, date, "ok", <<[date |-> date, team |-> team]>>)
             PROVE  SelectionInv'
  BY DEF UpdateDate
<1> DEFINE assignments == <<[date |-> date, team |-> team]>>
<1>1. date \in Int
  BY MonthAssumption DEF Dates
<1>2. /\ assignments \in Seq(Assignment)
      /\ \A i \in DOMAIN assignments : assignments[i].date \in date..date
  BY <1>1 DEF Assignment
<1> QED
  BY <1>1, <1>2, GivenKeeps

LEMMA RangeKeeps == SelectionInv /\ UpdateRange => SelectionInv'
<1> SUFFICES ASSUME SelectionInv, UpdateRange PROVE SelectionInv'
  OBVIOUS
<1>1. PICK from \in Dates, to \in Dates :
        /\ from <= to
        /\ IF \A date \in from..to : Regular(date)
           THEN Given("range", from, to, "ok",
                      [i \in 1..(2 * (to - from + 1)) |->
                         Nightly(from + (i - 1) \div 2)[1 + ((i - 1) % 2)]])
           ELSE Given("range", from, to, "error", <<>>)
  BY DEF UpdateRange
<1> DEFINE n == 2 * (to - from + 1)
           assignments == [i \in 1..n |-> Nightly(from + (i - 1) \div 2)[1 + ((i - 1) % 2)]]
<1>2. from \in Int /\ to \in Int /\ n \in Nat
  BY <1>1, MonthAssumption DEF Dates
<1>3. Given("range", from, to, "ok", assignments)
  BY <1>1, <1>2, RegularAlways
<1>4. ASSUME NEW i \in 1..n
      PROVE  assignments[i] \in Assignment /\ assignments[i].date \in from..to
  <2>1. from + (i - 1) \div 2 \in from..to /\ (i - 1) % 2 \in {0, 1}
    BY <1>2
  <2>2. from + (i - 1) \div 2 \in Int
    BY <1>2
  <2>3. 1 + ((i - 1) % 2) \in {1, 2}
    BY <2>1
  <2>4. assignments[i] = Nightly(from + (i - 1) \div 2)[1 + ((i - 1) % 2)]
    OBVIOUS
  <2> QED
    BY <2>1, <2>2, <2>3, <2>4, NightlyTypes
<1>5. assignments \in [1..n -> Assignment]
  BY <1>4
<1>6. ASSUME NEW k \in SlotsOf(from, to)
      PROVE  \E i \in 1..n : assignments[i] = AssignmentOf(k)
  <2>1. k \in Int /\ 2 * (from - Today) - 1 <= k /\ k <= 2 * (to - Today)
    BY <1>2, ReferenceSplit DEF SlotsOf
  <2>2. PICK j \in Int : k = 2 * j \/ k = 2 * j - 1
    BY <2>1, Parity
  <2> DEFINE d == Today + j
  <2>3. d \in from..to /\ d - Today = j
    BY <1>2, <2>1, <2>2, ReferenceSplit
  <2>4. Nightly(d)[1] = AssignmentOf(2 * j - 1) /\ Nightly(d)[2] = AssignmentOf(2 * j)
    BY <1>2, <2>3, NightlyTypes
  <2> HIDE DEF d
  <2>5. CASE k = 2 * j - 1
    <3>1. DEFINE i == 2 * (d - from) + 1
    <3>2. /\ i \in 1..n /\ (i - 1) \div 2 = d - from /\ (i - 1) % 2 = 0
          /\ from + (d - from) = d
      BY <1>2, <2>3
    <3>3. assignments[i] = Nightly(from + (i - 1) \div 2)[1 + ((i - 1) % 2)]
      BY <3>2
    <3> HIDE DEF i, assignments
    <3>4. assignments[i] = AssignmentOf(k)
      BY <2>4, <2>5, <3>2, <3>3
    <3> QED
      BY <3>2, <3>4
  <2>6. CASE k = 2 * j
    <3>1. DEFINE i == 2 * (d - from) + 2
    <3>2. /\ i \in 1..n /\ (i - 1) \div 2 = d - from /\ (i - 1) % 2 = 1
          /\ from + (d - from) = d
      BY <1>2, <2>3
    <3>3. assignments[i] = Nightly(from + (i - 1) \div 2)[1 + ((i - 1) % 2)]
      BY <3>2
    <3> HIDE DEF i, assignments
    <3>4. assignments[i] = AssignmentOf(k)
      BY <2>4, <2>6, <3>2, <3>3
    <3> QED
      BY <3>2, <3>4
  <2> QED
    BY <2>2, <2>5, <2>6
<1> HIDE DEF assignments, n
<1>7. assignments \in Seq(Assignment) /\ DOMAIN assignments = 1..n
  BY <1>2, <1>5
<1> QED
  BY <1>2, <1>3, <1>4, <1>6, <1>7, GivenKeeps

\* An assignment is skipped, refused for its month, or fills its column; the other
\* ways for it to fail do not occur.
LEMMA WriteCases ==
  ASSUME SelectionInv, Write
  PROVE  LET date == Head(todo).date
             team == Head(todo).team
         IN  /\ todo # <<>> /\ date \in Int /\ team \in Team
             /\ UNCHANGED <<now, command, commands>>
             /\ \/ Skip /\ Assigned(date, team) = {}
                \/ Fail /\ date \notin Month
                \/ Skip /\ \E c \in filled : c.date = date /\ c.team = team
                \/ /\ date \in Month
                   /\ \E s \in Assigned(date, team) :
                        filled' = filled \cup {Column(date, team, s)}
                   /\ todo' = Tail(todo) /\ UNCHANGED outcome
<1> DEFINE date == Head(todo).date
           team == Head(todo).team
<1>1. todo # <<>> /\ UNCHANGED <<now, command, commands>>
  BY DEF Write
<1>2. Head(todo) \in Assignment
  <2>1. todo \in Seq(Assignment)
    BY DEF SelectionInv, TypeOK, Assignment
  <2> QED
    BY <1>1, <2>1
<1>3. date \in Int /\ team \in Team
  BY <1>2 DEF Assignment
<1>4. \A s \in Assigned(date, team) :
        Assessed(s) = s /\ ReportDate(Assessed(s)) = date /\ Assessed(s).team = team
  BY <1>3, AssignedShift
<1>5. Regular(date)
  BY <1>3, RegularAlways
<1> QED
  BY <1>1, <1>3, <1>4, <1>5 DEF Write

\* A filled column with the date and team of a shift is that shift's.
LEMMA ColumnIsOfShift ==
  ASSUME Sound, NEW k \in Int, NEW c \in filled,
         c.date = ReportDate(ShiftOf(k)), c.team = ShiftOf(k).team
  PROVE  c = ColumnOf(k)
<1>1. PICK l \in Int : c = ColumnOf(l)
  BY DEF Sound
<1>2. ReportDate(ShiftOf(l)) = ReportDate(ShiftOf(k)) /\ ShiftOf(l).team = ShiftOf(k).team
  BY <1>1 DEF ColumnOf, Column
<1>3. ShiftOf(l) = ShiftOf(k)
  BY <1>2, ColumnNamesShift
<1> QED
  BY <1>1, <1>3 DEF ColumnOf

LEMMA WriteKeeps == SelectionInv /\ Write => SelectionInv'
<1> SUFFICES ASSUME SelectionInv, Write PROVE SelectionInv'
  OBVIOUS
<1> DEFINE date == Head(todo).date
           team == Head(todo).team
<1>1. /\ todo # <<>> /\ todo \in Seq(Assignment) /\ date \in Int /\ team \in Team
      /\ UNCHANGED <<now, command, commands>>
  BY WriteCases DEF SelectionInv, TypeOK, Assignment
<1>2. date \in command.from..command.to
  BY <1>1 DEF SelectionInv, Pending
<1>3. /\ Tail(todo) \in Seq(Assignment)
      /\ \A i \in DOMAIN Tail(todo) : i + 1 \in DOMAIN todo /\ Tail(todo)[i] = todo[i + 1]
  BY <1>1
<1>4. \/ Skip /\ Assigned(date, team) = {}
      \/ Fail /\ date \notin Month
      \/ Skip /\ \E c \in filled : c.date = date /\ c.team = team
      \/ /\ date \in Month
         /\ \E s \in Assigned(date, team) : filled' = filled \cup {Column(date, team, s)}
         /\ todo' = Tail(todo) /\ UNCHANGED outcome
  BY WriteCases
<1> HIDE DEF date, team
<1>5. todo' = <<>> \/ todo' = Tail(todo)
  BY <1>4 DEF Skip, Fail
<1>6. filled' \subseteq [date : Month, team : Team, start : Int] /\ Sound'
  <2>1. CASE UNCHANGED filled
    BY <2>1 DEF SelectionInv, TypeOK, Sound
  <2>2. ASSUME date \in Month, NEW s \in Assigned(date, team),
               filled' = filled \cup {Column(date, team, s)}
        PROVE  filled' \subseteq [date : Month, team : Team, start : Int] /\ Sound'
    <3>1. PICK k \in Int : s = ShiftOf(k) /\ ReportDate(s) = date /\ s.team = team
      BY <1>1, AssignedShift
    <3>2. Column(date, team, s) = ColumnOf(k) /\ s.start \in Int
      BY <3>1, ShiftBounds DEF ColumnOf
    <3>3. Column(date, team, s) \in [date : Month, team : Team, start : Int]
      BY <1>1, <2>2, <3>2 DEF Column
    <3> QED
      BY <2>2, <3>2, <3>3 DEF SelectionInv, TypeOK, Sound
  <2> QED
    BY <1>4, <2>1, <2>2 DEF Skip, Fail
<1>7. TypeOK'
  <2>1. todo' \in Seq(Assignment)
    <3>1. <<>> \in Seq(Assignment) /\ Tail(todo) \in Seq(Assignment)
      BY <1>3
    <3> QED
      BY <1>5, <3>1, Zenon
  <2>2. outcome' \in {"ok", "error"}
    BY <1>4 DEF SelectionInv, TypeOK, Skip, Fail
  <2> QED
    BY <1>1, <1>6, <2>1, <2>2 DEF SelectionInv, TypeOK, Assignment
<1>8. FailsOnlyOutsideMonth'
  BY <1>1, <1>2, <1>4 DEF SelectionInv, FailsOnlyOutsideMonth, Skip, Fail
<1>9. Pending'
  BY <1>1, <1>3, <1>5 DEF SelectionInv, Pending
<1>10. LastPending'
  <2> SUFFICES ASSUME command.kind = "last"
               PROVE  \E k \in Int : Completed(k)' /\ Handled(k)'
    BY <1>1 DEF LastPending
  <2>1. PICK k \in Int : Completed(k) /\ Handled(k)
    BY DEF SelectionInv, LastPending
  <2>2. /\ todo = <<[date |-> ReportDate(ShiftOf(k)), team |-> ShiftOf(k).team]>>
        /\ date = ReportDate(ShiftOf(k)) /\ team = ShiftOf(k).team
    BY <1>1, <2>1 DEF Handled, date, team
  <2>3. Assigned(date, team) = {ShiftOf(k)} /\ Tail(todo) = <<>>
    BY <2>2, ColumnNamesShift
  <2>4. ASSUME NEW c \in filled, c.date = date, c.team = team
        PROVE  c = ColumnOf(k)
    BY <2>2, <2>4, ColumnIsOfShift DEF SelectionInv
  <2>5. Handled(k)'
    BY <1>4, <2>2, <2>3, <2>4 DEF Handled, Skip, Fail, ColumnOf
  <2>6. Completed(k)'
    BY <1>1, <2>1 DEF Completed
  <2> QED
    BY <2>5, <2>6
<1>11. RangePending'
  <2> SUFFICES ASSUME command.kind = "range", outcome' = "ok",
                      NEW k \in SlotsOf(command.from, command.to)
               PROVE  \/ \E i \in DOMAIN todo' : todo'[i] = AssignmentOf(k)
                      \/ ColumnOf(k) \in filled'
    BY <1>1 DEF RangePending
  <2>1. /\ outcome = "ok" /\ ~Fail /\ k \in Int /\ todo' = Tail(todo)
        /\ filled \subseteq filled'
    <3>1. k \in Int
      BY ReferenceSplit DEF SlotsOf, SelectionInv, TypeOK
    <3> QED
      BY <1>4, <3>1 DEF Skip, Fail
  <2>2. CASE ColumnOf(k) \in filled
    BY <2>1, <2>2
  <2>3. CASE \E i \in DOMAIN todo : i # 1 /\ todo[i] = AssignmentOf(k)
    <3>1. PICK i \in DOMAIN todo : i # 1 /\ todo[i] = AssignmentOf(k)
      BY <2>3
    <3>2. i - 1 \in DOMAIN Tail(todo) /\ Tail(todo)[i - 1] = todo[i]
      BY <1>1, <3>1
    <3> QED
      BY <2>1, <3>1, <3>2
  <2>4. CASE todo[1] = AssignmentOf(k)
    <3>1. date = ReportDate(ShiftOf(k)) /\ team = ShiftOf(k).team
      BY <1>1, <2>4 DEF AssignmentOf, date, team
    <3>2. Assigned(date, team) = {ShiftOf(k)}
      BY <2>1, <3>1, ColumnNamesShift
    <3>3. ASSUME NEW c \in filled, c.date = date, c.team = team
          PROVE  c = ColumnOf(k)
      BY <2>1, <3>1, <3>3, ColumnIsOfShift DEF SelectionInv
    <3>4. Column(date, team, ShiftOf(k)) = ColumnOf(k)
      BY <3>1 DEF ColumnOf
    <3> QED
      BY <1>4, <2>1, <3>2, <3>3, <3>4
  <2> QED
    BY <2>1, <2>2, <2>3, <2>4 DEF SelectionInv, RangePending
<1> QED
  BY <1>7, <1>8, <1>9, <1>6, <1>10, <1>11 DEF SelectionInv

LEMMA SelectionStep == SelectionInv /\ [Next]_vars => SelectionInv'
<1> SUFFICES ASSUME SelectionInv, [Next]_vars PROVE SelectionInv'
  OBVIOUS
<1>1. CASE Tick
  BY <1>1 DEF Tick, SelectionInv, TypeOK, FailsOnlyOutsideMonth, Pending, Sound,
              LastPending, Completed, Handled, RangePending
<1>2. CASE UNCHANGED vars
  BY <1>2 DEF vars, SelectionInv, TypeOK, FailsOnlyOutsideMonth, Pending, Sound,
              LastPending, Completed, Handled, RangePending
<1> QED
  BY <1>1, <1>2, LastKeeps, DateKeeps, RangeKeeps, WriteKeeps DEF Next

LEMMA SelectionInvariant == Spec => []SelectionInv
<1>1. Init => SelectionInv
  BY TimeAssumption, MaxCommandsAssumption
     DEF Init, NoCommand, SelectionInv, TypeOK, FailsOnlyOutsideMonth, Pending, Sound,
         LastPending, RangePending
<1> QED
  BY <1>1, SelectionStep, PTL DEF Spec

-----------------------------------------------------------------------------
\* Every variable has its type, for any calendar and any commands.
THEOREM SelectionTypes == Spec => []TypeOK
BY SelectionInvariant, PTL DEF SelectionInv

\* An update fails over the calendar only where it names a day of another month.
THEOREM UpdateFindsItsColumn == Spec => []FailsOnlyOutsideMonth
BY SelectionInvariant, PTL DEF SelectionInv

\* --last fills the column of the shift that ended last, or finds it filled from it.
THEOREM LastShiftIsFilled == Spec => []LastIsFilled
<1>1. SelectionInv => LastIsFilled
  <2> SUFFICES ASSUME SelectionInv, command.kind = "last", todo = <<>>, outcome = "ok"
               PROVE  \E c \in filled : /\ c.start + Duration <= command.at
                                        /\ command.at < c.start + 2 * Duration
    BY DEF LastIsFilled
  <2>1. PICK k \in Int : Completed(k) /\ Handled(k)
    BY DEF SelectionInv, LastPending
  <2>2. ColumnOf(k) \in filled
    BY <2>1 DEF Handled
  <2>3. ColumnOf(k).start = ShiftOf(k).start
    BY DEF ColumnOf, Column
  <2> QED
    BY <2>1, <2>2, <2>3 DEF Completed
<1> QED
  BY <1>1, SelectionInvariant, PTL

\* --from and --to, once done, leave no moment of the days out and count none twice:
\* each is in the shift of exactly one filled column.
THEOREM RangeOfShiftsIsCovered == Spec => []RangeIsCovered
<1>1. SelectionInv => RangeIsCovered
  <2> DEFINE first == command.from * Day + TimeOfDay - Duration
             last == command.to * Day + TimeOfDay + Duration - 1
  <2> SUFFICES ASSUME SelectionInv, command.kind = "range", todo = <<>>, outcome = "ok",
                      NEW t \in first..last
               PROVE  \E c \in filled : \A d \in filled :
                        (d.start <= t /\ t < d.start + Duration) <=> d = c
    BY DEF RangeIsCovered, TimeOfDay
  <2> DEFINE k == SlotAt(t)
             m == command.from - Today
             n == command.to - Today
  <2>1. /\ command.from \in Int /\ command.to \in Int /\ m \in Int /\ n \in Int
        /\ command.from = Today + m /\ command.to = Today + n
        /\ Duration \in Nat /\ Duration > 1 /\ Reference \in Int
    <3>1. command.from \in Int /\ command.to \in Int
      BY DEF SelectionInv, TypeOK
    <3> HIDE DEF first, last, k
    <3> QED
      BY <3>1, ReferenceSplit, DurationAssumption, ReferenceAssumption
  <2> HIDE DEF m, n
  <2>2. /\ first \in Int /\ last \in Int
        /\ first = Reference + (2 * m - 1) * Duration
        /\ last = Reference + (2 * n + 1) * Duration - 1
    <3>1. /\ (Today + m) * Day = Day * Today + (2 * m) * Duration
          /\ (Today + n) * Day = Day * Today + (2 * n) * Duration
          /\ Day * Today \in Int
      BY <2>1, ReferenceSplit
    <3>2. /\ (2 * m - 1) * Duration = (2 * m) * Duration - Duration
          /\ (2 * n + 1) * Duration = (2 * n) * Duration + Duration
          /\ (2 * m) * Duration \in Int /\ (2 * n) * Duration \in Int
      BY <2>1
    <3> QED
      BY <2>1, <3>1, <3>2, ReferenceSplit
  <2>3. t \in Int /\ first <= t /\ t <= last
    BY <2>2
  <2> HIDE DEF first, last
  <2>4. /\ k \in Int
        /\ Reference + k * Duration <= t /\ t < Reference + (k + 1) * Duration
    BY <2>3, SlotBounds
  <2> HIDE DEF k
  <2>5. (2 * m - 1) * Duration < (k + 1) * Duration /\ k * Duration < (2 * n + 1) * Duration
    BY <2>1, <2>2, <2>3, <2>4
  <2>6. 2 * m - 1 < k + 1 /\ k < 2 * n + 1
    BY <2>1, <2>4, <2>5
  <2>7. ColumnOf(k) \in filled
    <3>1. 2 * m - 1 <= k /\ k <= 2 * n
      BY <2>1, <2>4, <2>6
    <3>2. k \in SlotsOf(command.from, command.to)
      <4>1. command.from - Today = m /\ command.to - Today = n
        BY DEF m, n
      <4> QED
        BY <2>1, <2>4, <3>1, <4>1 DEF SlotsOf
    <3> QED
      BY <3>2 DEF SelectionInv, RangePending
  <2>8. ASSUME NEW d \in filled
        PROVE  (d.start <= t /\ t < d.start + Duration) <=> d = ColumnOf(k)
    <3>1. PICK l \in Int : d = ColumnOf(l)
      BY DEF SelectionInv, Sound
    <3>2. /\ d.start = Reference + l * Duration
          /\ d.start + Duration = Reference + (l + 1) * Duration
      <4>1. d.start = ShiftOf(l).start
        BY <3>1 DEF ColumnOf, Column
      <4>2. /\ l * Duration \in Int
            /\ (l + 1) * Duration = l * Duration + Duration
        BY <2>1
      <4>3. ShiftOf(l).start = Reference + l * Duration
        BY ShiftBounds
      <4> QED
        BY <2>1, <4>1, <4>2, <4>3
    <3>3. ASSUME d.start <= t, t < d.start + Duration
          PROVE  d = ColumnOf(k)
      <4>1. SlotAt(t) = l
        BY <2>3, <3>2, <3>3, SlotUnique
      <4> QED
        BY <3>1, <4>1 DEF k
    <3>4. ASSUME d = ColumnOf(k)
          PROVE  d.start <= t /\ t < d.start + Duration
      <4>1. d.start = Reference + k * Duration
        BY <2>4, <3>4, ShiftBounds DEF ColumnOf, Column
      <4> QED
        BY <2>1, <2>4, <4>1
    <3> QED
      BY <3>3, <3>4
  <2> QED
    BY <2>7, <2>8
<1> QED
  BY <1>1, SelectionInvariant, PTL
=============================================================================
