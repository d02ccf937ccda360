----------------------------- MODULE ReportMonth -----------------------------
(***************************************************************************)
(* The life of the monthly report while the rules are reconfigured: update *)
(* (with and without --force), sync-rules and new-month of report.py.      *)
(*                                                                         *)
(* Three things have to agree for a column to be filled: the points that   *)
(* the configuration in force produced a package for (module Execution),   *)
(* what the readers make of the package (module PackageReader) and the     *)
(* items of the hidden mapping sheet that apply on the day.  They change   *)
(* at different times.                                                     *)
(*                                                                         *)
(* A day has one shift and one column here; module ShiftSelection says how *)
(* shifts and columns correspond, module ReportUpdate what happens when    *)
(* commands overlap or stop.  Rows are counted from the first item row.    *)
(***************************************************************************)
EXTENDS Execution, PackageReader

CONSTANTS
  Configs,          \* the configurations the rules directory may have, by name
  Occurrences,      \* what happens in the plant
  Month,            \* the days of each month, one month after the other
  ShiftLength,      \* length of a day's shift
  First,            \* the configuration the first workbook was made with
  MaxEdits,         \* bound: changes of the configuration
  MaxCommands       \* bound: commands sync-rules and new-month

VARIABLES
  today,
  config,           \* which configuration is in the rules directory
  package,          \* per day: the configuration its package was made with, or none
  book,             \* per month: the workbook, or none
  edits, commands,  \* such changes and commands so far
  charged,          \* history: per day, what the last update read in the package
  synced            \* history: per month, the configuration and the day of the last sync

vars == <<today, config, package, book, edits, commands, charged, synced>>

Day == UNION {Month[m] : m \in DOMAIN Month}
MonthOf(day) == CHOOSE m \in DOMAIN Month : day \in Month[m]
Shift(day) == [start |-> day * ShiftLength, end |-> (day + 1) * ShiftLength]

\* What fill_report.py reads in a document: the score of every point, if it accepts it.
Reading(documents) == {PointScores(doc) : doc \in {x \in documents : Validates(x)}}

\* A run of the assessment: its configuration and its day.
Cases == (DOMAIN Configs) \X Day

\* The package of every run, if it does not fail, and what is read in it.  (Entry by entry,
\* so that TLC computes them once.)
Assessments ==
  FoldSet(LAMBDA run, table :
            [table EXCEPT ![run] = Deliver(Configs[run[1]], Occurrences, Shift(run[2]))],
          [run \in Cases |-> {}], Cases)
Readings ==
  FoldSet(LAMBDA run, table : [table EXCEPT ![run] = Reading(Assessments[run])],
          [run \in Cases |-> {}], Cases)

-----------------------------------------------------------------------------
\* load_items_from_rules_dir: the enabled points of the enabled rules, in order; a date
\* that is not configured is Never.
Never == 0

Items(rules) ==
  LET loaded == LoadEnabled(rules)
      listed(rule) ==
        LET points == Points(rule)
        IN  [j \in DOMAIN points |->
               [key |-> <<rule.id, points[j].id>>, audience |-> points[j].audience,
                effective |-> points[j].effective, inactive |-> points[j].inactive]]
  IN  FlattenSeq([i \in DOMAIN loaded |-> listed(loaded[i])])

Keys(entries) == {e.key : e \in Range(entries)}
AllItems == UNION {Range(Items(Configs[c])) : c \in DOMAIN Configs}

\* A slip: the list may name a point twice.
ListedTwice(rules) == Items(rules) # <<>>

\* Its errors: no item at all, or one that is named twice.
Listed(rules) ==
  LET items == Items(rules)
  IN  items # <<>> /\ Cardinality(Keys(items)) = Len(items)

\* Those that are not in the workbook yet, in the order of the rules.
Fresh(items, keys) ==
  FlattenSeq([i \in DOMAIN items |-> IF items[i].key \notin keys THEN <<items[i]>> ELSE <<>>])

\* Days are counted, and every month is over before the next one.
ASSUME MonthAssumption ==
  /\ Month \in Seq(SUBSET (Nat \ {0})) /\ Month # <<>>
  /\ \A m \in DOMAIN Month : Month[m] # {} /\ IsFiniteSet(Month[m])
  /\ \A m, n \in DOMAIN Month : m < n => \A d \in Month[m], e \in Month[n] : d < e
\* A configuration is a list of rules, each with a list of points; report.py checks dates.
ASSUME ConfigsAssumption ==
  /\ IsFiniteSet(DOMAIN Configs)
  /\ \A c \in DOMAIN Configs :
       /\ Configs[c] \in Seq(Range(Configs[c]))
       /\ \A rule \in Range(Configs[c]) :
            /\ rule.points \in Seq(Range(rule.points))
            /\ \A p \in Range(rule.points) : p.effective \in Nat /\ p.inactive \in Nat
\* The scorer accepts only numbers, and takes no multiplier below zero.
ASSUME ScoringAssumption ==
  /\ IsFiniteSet(Occurrences) /\ \A e \in Occurrences : e.units \in Nat
  /\ \A c \in DOMAIN Configs : \A rule \in Range(Configs[c]) :
       /\ rule.scoring.byPointType \in [DOMAIN rule.scoring.byPointType -> Int]
       /\ rule.scoring.byType \in [DOMAIN rule.scoring.byType -> Int]
       /\ rule.scoring.byPoint \in [DOMAIN rule.scoring.byPoint -> Int]
       /\ rule.scoring.default \in Seq(Int) /\ Len(rule.scoring.default) <= 1
\* Offsets are numbers, those of a rule both given.
ASSUME OffsetsAssumption ==
  /\ ShiftLength \in Nat
  /\ \A c \in DOMAIN Configs : \A rule \in Range(Configs[c]) :
       /\ rule.offsets \in [{"start", "end"} -> Int]
       /\ \A p \in Range(rule.points) : p.offsets \in [DOMAIN p.offsets -> Int]
\* A rule's ID is the name of its directory, load_items_from_rules_dir demands.
ASSUME IdsAssumption == \A c \in DOMAIN Configs :
  \A i, j \in DOMAIN Configs[c] : Configs[c][i].id = Configs[c][j].id => i = j
\* Every point has a file name, with its whole hash if need be, that is no other point's;
\* _deduplicate_filename gives up otherwise.
ASSUME NamesAssumption ==
  LET keys == {item.key : item \in AllItems}
  IN  \A key \in keys :
        /\ Hashed[key] \in Seq(Range(Hashed[key]))
        /\ \E name \in Range(Hashed[key]) : \A other \in keys \ {key} :
             name # FileName[other] /\ name \notin Range(Hashed[other])
\* There is a workbook to begin with.
ASSUME FirstAssumption == First \in DOMAIN Configs /\ Listed(Configs[First])

Find(entries, key) == CHOOSE e \in Range(entries) : e.key = key

\* MappingEntry.applies_on.
AppliesOn(entry, day) ==
  /\ entry.effective # Never => day >= entry.effective
  /\ entry.inactive # Never => day < entry.inactive

\* A slip: the totals keep the rows they had.
TotalsKept(sheet, mapping) == [sheet EXCEPT !.mapping = mapping]

\* _write_mapping and _rewrite_totals_and_stats: which rows the two totals add up.
Rewritten(sheet, mapping) ==
  [sheet EXCEPT !.mapping = mapping,
     !.control = {e.row : e \in {f \in Range(mapping) : f.audience \in {"control", "shared"}}},
     !.field = {e.row : e \in {f \in Range(mapping) : f.audience \in {"field", "shared"}}}]

\* _validate_update_layout: the items are on the rows from the first to the totals.
LayoutValid(sheet) ==
  [i \in DOMAIN sheet.mapping |-> sheet.mapping[i].row] = [i \in 1..sheet.rows |-> i]

-----------------------------------------------------------------------------
Blank == 0

\* The workbook new-month makes of an older one, for the items of the day.
NewBook(rules, old, month) ==
  LET items == Items(rules)
      first == Min(Month[month])
      dated(item) ==
        CASE item.effective # Never -> item.effective
          [] item.effective = Never /\ item.key \in Keys(old) -> Find(old, item.key).effective
          [] OTHER -> first
      mapping == [i \in DOMAIN items |->
                    [key |-> items[i].key, row |-> i, audience |-> items[i].audience,
                     effective |-> dated(items[i]), inactive |-> items[i].inactive]]
  IN  Rewritten([rows |-> Len(items), mapping |-> <<>>, control |-> {}, field |-> {},
                 cells |-> [d \in Month[month] |-> [i \in DOMAIN items |-> Blank]],
                 done |-> {}], mapping)

Init ==
  /\ today = Min(Month[1])
  /\ config = First
  /\ package = [d \in Day |-> {}]
  /\ book = [m \in DOMAIN Month |-> IF m = 1 THEN {NewBook(Configs[config], <<>>, 1)} ELSE {}]
  /\ edits = 0 /\ commands = 0
  /\ charged = [d \in Day |-> <<>>]
  /\ synced = [m \in DOMAIN Month |-> [config |-> config, day |-> today]]

Tomorrow ==
  /\ today + 1 \in Day
  /\ today' = today + 1
  /\ UNCHANGED <<config, package, book, edits, commands, charged, synced>>

Counted == commands < MaxCommands /\ commands' = commands + 1

\* Somebody edits the rules directory.
Reconfigure ==
  /\ edits < MaxEdits /\ edits' = edits + 1
  /\ config' \in DOMAIN Configs \ {config}
  /\ UNCHANGED <<today, package, book, commands, charged, synced>>

-----------------------------------------------------------------------------
\* update: _run_assessment takes the package that is there, or has one made.
Made(day, force) ==
  IF package[day] # {} /\ ~force THEN package[day]
  ELSE {c \in {config} : Assessments[<<c, day>>] # {}}

\* The items a package must have the points of, and no others.
Expected(sheet, day) == {e.key : e \in {f \in Range(sheet.mapping) : AppliesOn(f, day)}}

Fits(sheet, day, scores) == DOMAIN scores = Expected(sheet, day)

\* A slip: only the cells that get a score are written.
FillOver(sheet, day, scores) ==
  LET cell(e) == IF e.key \in DOMAIN scores THEN scores[e.key] ELSE 0
  IN  [sheet EXCEPT !.done = @ \cup {day},
         !.cells[day] = [i \in 1..sheet.rows |->
            IF cell(sheet.mapping[i]) > 0 THEN -cell(sheet.mapping[i]) ELSE sheet.cells[day][i]]]

\* The cells of all items are emptied, and those of points with a score filled.
Fill(sheet, day, scores) ==
  LET cell(e) == IF e.key \in DOMAIN scores /\ scores[e.key] > 0 THEN -scores[e.key] ELSE Blank
  IN  [sheet EXCEPT !.done = @ \cup {day},
         !.cells[day] = [i \in 1..sheet.rows |-> cell(sheet.mapping[i])]]

Update(day, force) ==
  /\ day <= today
  /\ \E sheet \in book[MonthOf(day)] :
       /\ LayoutValid(sheet) /\ day \in DOMAIN sheet.cells
       /\ day \in sheet.done => force
       /\ package' = [package EXCEPT ![day] =
                        IF Made(day, force) = {} THEN @ ELSE Made(day, force)]
       /\ LET fitting == {scores \in UNION {Readings[<<c, day>>] : c \in Made(day, force)} :
                            Fits(sheet, day, scores)}
          IN  \/ fitting = {} /\ UNCHANGED <<book, charged>>
              \/ \E scores \in fitting :
                   /\ book' = [book EXCEPT ![MonthOf(day)] = {Fill(sheet, day, scores)}]
                   /\ charged' = [charged EXCEPT ![day] = scores]
  /\ UNCHANGED <<today, config, edits, commands, synced>>

-----------------------------------------------------------------------------
\* A slip: a point that is back keeps the day it was stopped.
ModifiedButStopped(entry, items) ==
  LET item == Find(items, entry.key)
  IN  [entry EXCEPT !.audience = item.audience, !.effective = item.effective,
                    !.inactive = IF entry.inactive # Never THEN @ ELSE item.inactive]

\* sync-rules: entries whose point is configured take its audience and dates ...
Modified(entry, items) ==
  LET item == Find(items, entry.key)
  IN  [entry EXCEPT !.audience = item.audience, !.effective = item.effective,
                    !.inactive = item.inactive]

\* ... the others are stopped today, unless they were stopped before.
Stopped(entry) == IF entry.inactive = Never THEN [entry EXCEPT !.inactive = today] ELSE entry

\* A new item gets a row of its own above the totals.
Added(item, row) ==
  [key |-> item.key, row |-> row, audience |-> item.audience,
   effective |-> IF item.effective # Never THEN item.effective ELSE today,
   inactive |-> item.inactive]

\* A slip: rows of stopped items are used again.
SyncedMappingReuses(sheet, items) ==
  LET kept  == SelectSeq(sheet.mapping, LAMBDA e : e.key \in Keys(items))
      fresh == Fresh(items, Keys(sheet.mapping))
  IN  [i \in DOMAIN kept |-> [Modified(kept[i], items) EXCEPT !.row = i]]
        \o [i \in DOMAIN fresh |-> Added(fresh[i], Len(kept) + i)]

SyncedMapping(sheet, items) ==
  LET fresh == Fresh(items, Keys(sheet.mapping))
  IN  [i \in DOMAIN sheet.mapping |->
         IF sheet.mapping[i].key \in Keys(items) THEN Modified(sheet.mapping[i], items)
         ELSE Stopped(sheet.mapping[i])]
        \o [i \in DOMAIN fresh |-> Added(fresh[i], sheet.rows + i)]

\* insert_rows shifts the totals down; the cells of the new rows are empty.
Inserted(sheet, count) ==
  [sheet EXCEPT !.rows = @ + count,
     !.cells = [d \in DOMAIN @ |-> @[d] \o [i \in 1..count |-> Blank]]]

SyncRules(month) ==
  /\ Counted
  /\ Listed(Configs[config])
  /\ \E sheet \in book[month] :
       LET mapping == SyncedMapping(sheet, Items(Configs[config]))
       IN  book' = IF mapping = sheet.mapping THEN book
                   ELSE [book EXCEPT ![month] =
                     {Rewritten(Inserted(sheet, Len(mapping) - sheet.rows), mapping)}]
  /\ synced' = [synced EXCEPT ![month] = [config |-> config, day |-> today]]
  /\ UNCHANGED <<today, config, package, edits, charged>>

\* new-month copies the older workbook to its final name and then empties it; an error
\* removes the copy, a stop of the process leaves it.
NewMonth(month) ==
  /\ Counted
  /\ month - 1 \in DOMAIN Month /\ book[month] = {}
  /\ \E sheet \in book[month - 1] :
       \/ /\ Listed(Configs[config])
          /\ book' = [book EXCEPT ![month] = {NewBook(Configs[config], sheet.mapping, month)}]
       \/ book' = [book EXCEPT ![month] = {sheet}]
       \/ UNCHANGED book
  /\ synced' = [synced EXCEPT ![month] = [config |-> config, day |-> today]]
  /\ UNCHANGED <<today, config, package, edits, charged>>

Next ==
  \/ Tomorrow \/ Reconfigure
  \/ \E day \in Day, force \in BOOLEAN : Update(day, force)
  \/ \E month \in DOMAIN Month : SyncRules(month) \/ NewMonth(month)

Spec == Init /\ [][Next]_vars

-----------------------------------------------------------------------------
\* The workbooks of a month that new-month has finished.
Books(month) == {sheet \in book[month] : DOMAIN sheet.cells = Month[month]}

\* However often rules are added, stopped and brought back, a penalty stays in the row
\* of the item it was charged for: "stopped rules keep their row and their historical
\* penalties" (manual of the report), and no row shows one that was not charged.
ChargesStayWithItems ==
  \A m \in DOMAIN Month : \A sheet \in Books(m), d \in Month[m] :
    LET shown(key) == {sheet.cells[d][e.row] : e \in {f \in Range(sheet.mapping) : f.key = key}}
    IN  /\ \A key \in DOMAIN charged[d] : charged[d][key] > 0 => shown(key) = {-charged[d][key]}
        /\ \A e \in Range(sheet.mapping) :
             sheet.cells[d][e.row] # Blank => e.key \in DOMAIN charged[d]

\* Each total of a day is the sum of what was charged for the items of its audience,
\* shared items in both, on whatever rows they are by now.
TotalsAddUp ==
  \A m \in DOMAIN Month : \A sheet \in Books(m), d \in Month[m] :
    LET total(rows) == MapThenSumSet(LAMBDA r : sheet.cells[d][r], rows)
        keys(audiences) == {e.key : e \in {f \in Range(sheet.mapping) : f.audience \in audiences}}
        charge(audiences) ==
          MapThenSumSet(LAMBDA key : -charged[d][key], keys(audiences) \cap DOMAIN charged[d])
    IN  /\ total(sheet.control) = charge({"control", "shared"})
        /\ total(sheet.field) = charge({"field", "shared"})

\* Once the report is synchronised with the configuration in force, a shift of that day
\* or later can be filled: the items that apply are the points a package is produced
\* for, also when points were stopped and brought back before.  Scores below zero may
\* prevent it, and dates that are configured; a date that lies ahead does also after it
\* left the configuration, for new-month takes it over and sync-rules does not stop an
\* item a second time.  The rows always pass the check of the layout.
FilledOnceSynced ==
  \A m \in DOMAIN Month : \A sheet \in Books(m) :
    /\ synced[m].config = config
    /\ today \in Month[m]
    /\ \A item \in Range(Items(Configs[config])) : item.effective = Never /\ item.inactive = Never
    /\ \A item \in AllItems : item.effective <= today /\ item.inactive <= today
    => /\ LayoutValid(sheet)
       /\ \A scores \in Readings[<<config, today>>] : Fits(sheet, today, scores)

-----------------------------------------------------------------------------
\* What the documents say of windows: an offset of the point's own, else of its rule,
\* and what is charged begins in that window.
EventsOf(rule, point, day) ==
  LET offset(side) == IF side \in DOMAIN point.offsets THEN point.offsets[side]
                      ELSE rule.offsets[side]
      start == Shift(day).start + offset("start")
      end   == Shift(day).end - offset("end")
  IN  {e \in Occurrences :
         e.rule = rule.id /\ e.point = point.id /\ start <= e.at /\ e.at < end}

\* The most specific score that is configured.
ScoreOf(scoring, e) ==
  LET given == <<{scoring.byPointType[k] : k \in {<<e.point, e.type>>} \cap DOMAIN scoring.byPointType},
                 {scoring.byType[k] : k \in {e.type} \cap DOMAIN scoring.byType},
                 {scoring.byPoint[k] : k \in {<<e.point, e.key>>} \cap DOMAIN scoring.byPoint},
                 Range(scoring.default)>>
      scales == {i \in 1..4 : given[i] # {}}
  IN  IF scales = {} THEN {} ELSE given[Min(scales)]

\* What an assessment of today makes now.
Current == Assessments[<<config, today>>]

\* A package charges every enabled point with exactly its own occurrences in its own
\* window, by its own scale, whichever other points share the window or the rule, and
\* whether the rule knows how to look at a part of its points.
PointsAssessedAlone ==
  LET rules == LoadEnabled(Configs[config])
  IN  \A doc \in Current : \A i \in DOMAIN rules :
        LET rule == rules[i]
            points == Points(rule)
        IN  \A j \in DOMAIN points :
              LET result == doc.rules[i].points[j]
                  events == EventsOf(rule, points[j], today)
              IN  /\ result.events = events
                  /\ result.score =
                       MapThenSumSet(LAMBDA e : e.units * Max(ScoreOf(rule.scoring, e)), events)

\* An assessment fails for nothing but a configuration that is wrong: the checks on what
\* the rules return never stop a run.
FailsOnlyForConfig ==
  Current = {} =>
    \/ ~Loads(Configs[config])
    \/ \E rule \in Range(LoadEnabled(Configs[config])) :
         \/ ShiftLength <= rule.offsets.start + rule.offsets.end
         \/ ~Distinct(rule)
         \/ \E p \in Range(Points(rule)) :
              LET offset(side) == IF side \in DOMAIN p.offsets THEN p.offsets[side]
                                  ELSE rule.offsets[side]
              IN  ShiftLength <= offset("start") + offset("end")
         \/ \E e \in Occurrences : e.rule = rule.id /\ ScoreOf(rule.scoring, e) = {}

\* What is delivered can be read: the mail accepts every package, shows the charges the
\* workbook is filled with and no others, and only a score below zero keeps the
\* workbook from accepting it too.
ReadersAgree ==
  \A doc \in Current :
    LET scores == PointScores(doc)
        valid == Validates(doc)
    IN  /\ Parses(doc)
        /\ valid <=> \A key \in DOMAIN scores : scores[key] >= 0
        /\ valid =>
             /\ {<<x.key, x.score>> : x \in Deductions(doc)}
                  = {<<key, scores[key]>> : key \in {k \in DOMAIN scores : scores[k] > 0}}
             /\ doc.total = MapThenSumSet(LAMBDA x : x.score, Deductions(doc))

\* The chart beside a deduction is that of its point, also when the names of several
\* points become the same file name.
ChartsAreOwn ==
  \A doc \in Current : \A x \in Deductions(doc) : x.chart = x.key

\* Mail and workbook say the same of a package, each charge beside its own chart.
PackagesAreReadAlike == ReadersAgree /\ ChartsAreOwn
=============================================================================
