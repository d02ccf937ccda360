# DCS performance assessment: TLA+ models, checks and proofs

The program assesses how production shifts of a plant were run. It reads time
series from a historian over HTTP, evaluates rules on them for the time a team
was responsible for, publishes a *Result Package* (a directory with
`result.json` and charts), fills a monthly Excel report from it, and mails it.

This directory models the parts of it where order, failure, concurrency and
time boundaries decide whether the result is right. Source paths below are
relative to the repository root; `manager.py:109` is a file and a line.

* [Inventory](#inventory) – the parts, their state, what can go wrong
* [Modules](#modules) – what each module models and how it corresponds to the code
* [Runs](#runs) – what is model-checked, with which bounds
* [Disagreements found](#disagreements-found)
* [Proofs](#proofs)
* [Not modelled](#not-modelled)

## Inventory

| Part | State it keeps | Operations | What is hard about it |
|---|---|---|---|
| Result Package delivery, `src/dcs_performance/delivery` | the output root: one formal directory per run ID, `.backup-*` and `.tmp-*` directories beside it | `DeliveryManager.deliver`, recovery of interrupted deliveries | crash between the two renames of an overwrite; renames and removals that fail; recovery that is itself interrupted |
| Notification, `notification/` | `state.json`: one record per run ID | `send_package_email` (send, `--resend`, preview) | mail cannot be unsent; the state file is replaced as a whole without a lock; a crash between mail and record |
| Monthly report, `报表/` | a workbook: a column per shift with status and scores | `update` (`--last`, `--date/--team`, `--from/--to`, `--force`, `--send-email`), `exempt`, `sync-rules`, `repair-layout`, `new-month` | the workbook is loaded, an assessment of minutes runs, then the whole file is replaced; users edit it meanwhile; columns, shifts and packages must be matched |
| History client, `data/dcs_service.py` | cached service information, two resizable gates | `get_info`, `refresh_info`, `get_history`, `get_histories`, `get_events` | a condition variable with timeouts and a limit that changes; pools over the gate; deadlines |
| HTTP transport, `data/transport.py` | none between calls | requests with retries and a deadline | retries race the total time |
| History helpers, `data/history_context.py`, `history_quality.py` | none | the last sample before a window, the first sample after it that satisfies a predicate | half-open ranges, horizons, nothing read twice or skipped |
| Rules, `rules/*`: persistent_high_alarm, analog_limit_exceedance, flow_balance_compliance, level_rate_compliance, pump_flow_compliance, component_viscosity_control, analog_trend_stability | detector state while reading samples | `evaluate` | what is in progress at the start and the end of a window; readings missing, rejected, at one time; short recoveries that are merged; events that belong to one window only; how much history to ask for |
| Engine, windows, scoring, `engine`, `core`, `results` | none | load rules, run each rule for each window and point, sum scores | grouping by window, rules that cannot look at a part of their points, ownership checks |
| Package readers, `notification/package.py`, `报表/fill_report.py` | none | take `result.json` apart for the mail and for the workbook | two readers written apart must accept and read the same |
| Production calendar, `shifts/cyclic_*` | schedule configuration | shift of a moment, shifts of an interval | moments before the reference; shifts across midnight |
| Command line, charts | none | – | – |

**How they interact.** `report.py update` runs `dcs_performance.cli run` as a
subprocess and tells it a moment; the command line finds the shift, asks
`DeliveryManager.deliver` for a package, which calls the runner, which calls
the rules, which call the history client. `report.py` then reads `result.json`
from the formal directory, saves the workbook, and with `--send-email` calls
the notification sender, which reads the package again. Everything between
processes goes through files; within a process the only threads are those of
`get_histories`.

**What makes each part correct**

* Delivery: whoever opens the formal directory finds a complete package; the
  last one is never lost; a failed call changes nothing.
* Notification: nothing is recorded as sent that was not; what was sent is not
  sent again unless asked.
* History client: never more queries at once than the server allows; no slot
  and no wake-up lost; every call ends; no work after the deadline.
* Report: a command changes one column; exemptions and typed scores survive;
  the column, the shift and the package are about the same twelve hours; the
  mail says what the column says.
  Over a month in which rules come, go and change, a penalty stays in the row
  of the item it was charged for and in the right totals.
* Rules: each event is found, with its true beginning and end, and charged to
  the window it belongs to; the history that is read suffices to tell.
* Execution: each point is charged for its own events in its own window by its
  own scale, and both readers of the package see that.

## Modules

### Delivery: `PackageRegister`, `Delivery`, `DeliveryProofs`

`PackageRegister` says what callers of `deliver` may rely on: one current
package, replaced in one step by a complete newer one, never without
permission, never by a call that reports failure.

`Delivery` is `delivery/manager.py`. A package is named by the number of the
call that generated it, so a rename moves a number between `target` (formal
directory), `backups` and `temps`; `whole` are the packages whose tree is
complete. Each filesystem operation of the code is one action that succeeds or
fails:

| Code | Actions |
|---|---|
| arguments refused | `Call` |
| `_recover_interrupted_delivery` | `RecoverRefuses`, `RecoverRestores`, `RecoverNothing`, `RemoveStale` |
| existing package without overwrite; `mkdtemp` | `RefuseOverwrite`, `MakeTemporary` |
| rules, charts, `write_result_json` | `Render`, `WriteResult` |
| rename to backup, rename to formal | `Park`, `NothingToPark`, `Publish`, `PublishFails` |
| the two exception handlers | `Unpark`, `DiscardTemporary`, `Fallback` |
| removal of the replaced package | `Drop` |
| the process stops anywhere, also halfway through a removal | `Crash` |

`rmtree(ignore_errors=True)` may leave all or some of a directory; `removable`
says, fixed from the start, whether the filesystem always lets it finish. One
writer per run ID is assumed, as `docs/result-package.md:66` requires. A rename
that has returned is durable: what a power cut does to renames not yet flushed
is not modelled.

### Notification: `Notification`, `MCNotification`, proofs in `DeliveryProofs`

Processes share one state file `file`, a record per run. A call is `Start`,
`Load` (the document is read, the call is suppressed if the record says
"sent"), `Smtp` (the server takes the message or not, and the client learns it
or gets an exception) and `RecordOutcome` (the document loaded earlier, with
one record changed, replaces the file; saving may fail). `copies` counts what
the server took, `confirmed` are the runs for which a call returned "sent".

### One shift of the monthly report: `ReportUpdate`, `ReportUpdateProofs`

The workbook is a function from shifts to columns (status and scores). Packages
are registers in the sense of `PackageRegister`, one per shift: generation *n*
replaces the earlier one in a step. `Update` and `Exempt` load the workbook
into the process's `snapshot`; `Backup`, `Reuse`/`RunCli`, `Deliver`,
`Validate`, `Save` and `Email` follow the code of `_write_result`; `SaveExempt`
is `exempt_command`. Every one may fail, and `Crash` stops the process.
`UserEdits` is the user in Excel. `Exclusive` decides whether commands and
edits wait for each other; nothing in the code makes them.

### Shift selection: `ShiftCalendar`, `ShiftSelection`, `MCShiftSelection`, `ShiftProofs`

`ShiftCalendar` translates `Cyclic12HourShiftCalendar` and the report day of
`report_common.py` for any reference time, including moments before it. Time is
a count of ticks; a shift has `Duration` of them.

`ShiftSelection` is `update_command`: `UpdateLast`, `UpdateDate` and
`UpdateRange` turn arguments into assignments (date, team); `Write` handles one
assignment: finds the shift, checks the month, skips what is done, lets the
assessment find the shift again from a moment (`Assessed`), compares, and fills
the column. An assessment that fails, and `--force`, are in `ReportUpdate`.

### History client: `ConcurrencyGate`, `HistoryClient`, `MCHistoryClient`, `HistoryClientProofs`

`ConcurrencyGate` is `_ConcurrencyGate`. What runs under the condition's lock
is one action. A woken thread is only *allowed to look* again (`woken`): other
threads may get in first, a timeout may come with the notification, and
`threading.Condition` promises no order.

`HistoryClient` is `get_histories` over `_get_stream_with_retries`. It extends
the gate, whose threads are the queries. A call (`Begin`, `Return`) has a pool of
`min(limit, TAGs)` workers; a query goes through `Take`, the gate (`Block`,
`WaitTimesOut`, `StopWaiting`, `Enter`), attempts (`Open`, `Consume`, `Retry`)
and `Leave`. `CallLate` and `HttpLate` are the two deadlines: the
client's counts from the start of the call, the transport's from when the query
has its slot. `get_history` is a call for one TAG; `get_events` is the same on
a gate of its own.

### Rule persistent_high_alarm: `PersistentAlarm`, `MCPersistentAlarm`, `PersistentAlarmProofs`

The historian appends samples (`Record`); consecutive windows are assessed once
each at some moment (`Assess`), from what is recorded by then. `Evaluate` is
the rule: `PreviousSample` (lookback), `DetectorFrom`/`Step` (state machine),
`FindNext` (search for the recovery), `Owned` (the window an event belongs to).
`TrueEvents` says the same without a state machine, from the rule's README:
which active readings begin an alarm, and when it is over. A query returns the
set of the positions of its samples in the history, which is read in their
order; so two requests of one range are two sets, and their union is what the
code collects.

### The other rules: `Subsequences`, `HistoryQuality`, `HistoryContext`, `AnalogLimit`, `RunDetector`, `FlowBalance`, `LevelRate`, `PumpFlow`, `Viscosity`, `Trend`, `Runs`, `RuleAssessment`, `MCRuleAssessment`, `RuleAssessmentProofs`, `MetricRuleProofs`

A rule keeps no state between calls, so each is a module of operators: given
what is recorded, what does `evaluate` return for a window? The modules follow
the code's own layers.

| Module | Code | What it says |
|---|---|---|
| `HistoryQuality` | `data/history_quality.py` | valid samples, segments between gaps, trailing means with a minimum of samples |
| `HistoryContext` | `data/history_context.py` | the history of several TAGs with the last sample of each before the range, searched over growing horizons |
| `AnalogLimit` | `rules/analog_limit_exceedance` | smoothing segments, the state machine with pending recovery (`DetectorFrom`, `Resumes`, ...), merging, ownership, limit of events |
| `RunDetector` | the detectors of flow balance and level rate, which are the same | runs, pending recovery, cuts at gaps, minimum duration |
| `FlowBalance`, `LevelRate` | their rules | the timeline of several TAGs; rates from interpolated levels; what is read |
| `PumpFlow` | `rules/pump_flow_compliance` | modes of two pumps, switch time-outs, low flow, common lookback |
| `Viscosity` | `rules/component_viscosity_control` | medians of buckets, means, two ways to find disturbances, what they remove, repeated penalties; exceedances of the rest by `AnalogLimit`'s detector, as in the code |
| `Trend` | `rules/analog_trend_stability` | rolling means, deviations, changes over several horizons, merging, padding |

State machines are folds over the samples, with the code's fields as the
accumulator. `RuleAssessment` has the historian as its only actor (`Record`):
it builds every history, and the properties compare what the rule returns with
`Runs`, which says without a state machine what a merged run is: a maximal
sequence of observations of one direction whose recoveries are short. So the
detectors are checked against a definition they do not share code with.

Values are whole numbers of so fine a unit that means and quotients that occur
are exact; the rounding of floating point is left out.

`Subsequences` chooses elements of a sequence by their positions, and reads a
sequence that is ordered by time between two times. The rules use it, and sums by
position (`SumAt`), in place of `SelectSeq` and folds: these take operators as
arguments, which no prover looks into. For the same reason the median of a bucket
is described by how many values lie below it (`Smallest`), and the order in which
drifts are merged as any order by their starts.

### Execution: `Execution`, `PackageReader`

`Execution` goes from the configured rules to the document of a package:
`RuleLoader`, grouping of points by window, `RuleRunner` with rules that accept
`point_ids` and rules that do not, its checks, `Scorer`, the summary and the
names of the charts. What a rule finds is a set of occurrences, those that begin
in the window it is called with. `Deliver` is a set of at most one document:
empty when the run fails. `PackageReader` holds the two readers,
`parse_result_package` (`Parses`, `Deductions`) and `validate_result_file`
(`Validates`, `PointScores`), each with its own checks.

### The monthly report over time: `ReportMonth`, `MCReportMonth`, `ReportMonthProofs`

`ReportMonth` puts these together with the workbook: `Reconfigure` replaces the
configuration, `Update` produces or reuses a package and fills a column,
`SyncRules` takes new, changed and stopped items over into the mapping and the
rows, `NewMonth` makes the next workbook (or stops with the file under its
final name), `Tomorrow` lets a day pass. `charged` and `synced` are history
variables: what the last update of a day read, and which configuration the
workbook was last synchronised with. A day has one column here; commands do not
overlap (that is `ReportUpdate`) and shifts are found correctly (that is
`ShiftSelection`). `repair-layout` rewrites totals from the mapping as
`Rewritten` does and has no action of its own. Lists of rules, points and items
are filtered with `FlattenSeq`, and tables are functions: `SelectSeq`, `:>` and
`@@` compute the same, but no prover can look into them.


### Where a definition is called a slip

Some modules contain definitions whose comment begins with "Slip": a plausible
mistake in the definition beside it. No specification uses them. Each property
below was seen to fail when one of them takes the place of the real definition.

## Runs

`tlc -config X.cfg M`, times on two workers. "Violation" runs show a
disagreement between the code and what the repository says of it. Where the
types of a module are proved (see below), no run repeats them.

| Run | Module | Properties | Bounds | States |
|---|---|---|---|---|
| Delivery | Delivery | TypeOK, TargetIsWhole, LastPackageKept, BuildsOnLast, OneCandidate, CleanAfterSuccess, ImplementsRegister | 5 calls | 29,264 |
| Notification | MCNotification | SentIsTrue | 2 processes, 2 runs, 4 calls, all modes | 306,535 |
| NotificationResend | MCNotification | SentIsSuppressed – *violation* | 1 process, sends and resends | |
| ReportUpdate | ReportUpdate | ExemptionKept, OnlyTargetColumn, TypedScoresKept, MailMatchesReport | 2 columns, 5 commands or edits, one at a time | 63,058 |
| ReportExemptionKept | ReportUpdate | ExemptionKept – *violation* | 2 processes at once, 3 commands | |
| ReportMonth | MCReportMonth | ChargesStayWithItems, TotalsAddUp, FilledOnceSynced, FailsOnlyForConfig, PointsAssessedAlone, PackagesAreReadAlike | months of 2 days and 1, 6 configurations, 2 changes, 2 commands beside any updates | 248,582 |
| ShiftSelection | MCShiftSelection | FailsOnlyOutsideMonth, LastIsFilled, RangeIsCovered | month of 3 days, 2 commands, 22 moments | 240,319 |
| HistoryClient | MCHistoryClient | Balanced, NoIdleSlot, WithinLimit, SlotsFollowQueries, UsesGate, CallsEnd | a call for 2 TAGs and one for 1, limits 1–2, 1 refresh, 1 retry | 91,232 |
| HistoryClientBudget | MCHistoryClient | NoRetryOutOfTime – *violation* | the same | |
| PersistentAlarm | MCPersistentAlarm | FindsTheAlarms, LaterReadingsChangeNothing, AlarmChargedOnce | 2 windows, 9 units of time, 1 odd one | 1,093,523 |
| RuleAssessment | MCRuleAssessment | LastBeforeIsFound, MergedExceedancesFound, RepeatedOnlyAfterRecovery, RunsFound, PumpFaultsFound, ViscosityFound, PenaltiesRepeat, StabilityFound, DriftsFound, RangesSuffice | 6 rules, 2 windows, 7 to 9 units of time | 135,759 |
| ExceedanceRepeated | MCRuleAssessment | NotRepeated – *violation* | the limit rule alone, the same | |

What they show, and why the bounds suffice:

* **Delivery.** Two calls are needed to have something to overwrite, a third to
  recover it, a fourth and a fifth for a recovery that is interrupted and
  repeated; a sixth call meets no directory contents that a fifth does not. The
  proofs hold for any number. `ImplementsRegister` maps the current package to
  the formal directory or, while it is missing, to the newest backup: an
  interrupted overwrite is, to callers, one that did not happen yet.
* **Notification.** With two processes and two runs a save can lose the
  record of another run or another process; four calls allow it to be lost and
  then used. Processes and runs are only compared, so they are permuted
  (symmetry); no liveness is checked in these runs.
* **ReportUpdate.** What one workbook file can promise when nobody else touches
  it during a command. Two columns are enough to tell the target from another
  one; five commands allow: fill, edit, force, fail, repeat. Deadlock is not
  checked in any run with a bound on calls or commands: when they are used up
  the model stops.
* **ReportMonth.** The configurations are chosen so that between two of them an
  item is added, stopped, brought back, changes its audience or has a date, a
  window is too short, a score is negative, a rule does not load. Two changes
  are a stop and a return; two commands are a sync after each, or a new month
  after a sync. Occurrences lie at and around the edges of windows with and
  without offsets of their own, two events share a window, and two points share
  the name of a chart. `FilledOnceSynced` says that a report that was
  synchronised can be filled as long as no configuration has a date ahead, the
  one in force has none, and no score is negative; `FailsOnlyForConfig` that a run fails for an error in the
  configuration and for nothing else, although the runner checks what the rules
  return and refuses it when it contradicts the request.
* **ShiftSelection.** The month lies on both sides of the reference, so slots
  are negative and positive; shifts of three ticks and a reference of two past
  midnight put moments inside, at the start and at the end of every shift, and
  shifts across midnight. Two commands: the second meets columns the first has
  filled. Dates one day outside the month are asked for too.
* **HistoryClient.** The limit may be two, so a pool really is parallel, and
  may be lowered to one under it; the two calls have deadlines of their own.
  The gate's properties are checked here, with the three queries as its
  threads: one can be woken or time out while the limit falls below the number
  inside. More threads and limits add no case the gate tells apart; theorems
  cover them. That nobody waits for ever for a slot is part of `CallsEnd`.
  `CallsEnd` is the only liveness property. Fairness is weak fairness of every
  query's `Work` and of every call's `Return`: threads are scheduled, and each
  wait for the network ends because `timeout_seconds` bounds it. Deadlines are
  not fair: a client may have no total timeout, and calls end without it.
  Retries may fail earlier than in the code (when the pause would outlast the
  deadline) and queries of a pool start in any order: more behaviours than the
  code has.
* **PersistentAlarm.** Every history of nine units of time, each with no
  reading, an active or a normal one; in one of them there may be two readings
  at one time or a rejected one. The threshold, windows and horizons are as
  short as they can be with distinct boundaries: the first window begins after
  the lookback, the second ends so that its query range and one later reading
  fit. Windows are assessed in any order and as late as one likes, but after
  their query range (`Settled`): the rule measures an alarm that is still active
  to the end of that range, and nothing in the code makes an assessment wait.
* **RuleAssessment.** One rule per behaviour. Each has every history of its
  usual readings (two values, on both sides of a limit), and between one and
  three units of time (`MaxOdd`) with something else: no reading, a
  rejected one, two or three at one time, another value, for pumps any change at
  all. Every duration is one to three units, so that a run below, at and above a
  minimum, and a recovery at and above the merge gap, fit before, in, between
  and after the two windows. The rules that read several TAGs get histories in
  which one TAG has readings and another has none. Two points at once (limit,
  pump) show what one point's settings do to the range another is read with.
  The high limit has a merge gap, and the usual readings lie on both sides of
  it, so a short recovery where the windows meet is among the histories: the
  case of `RepeatedOnlyAfterRecovery` occurs, as ExceedanceRepeated shows.
  `RangesSuffice` is about four rules and says of each what its range is for:
  `TailSuffices`, that the limit rule's exceedances begin where they would with
  more readings after the window; `FlowRangeSuffices` and `RateRangeSuffices`,
  that runs begin and end where they would with everything before and after;
  `TrendRangeSuffices`, that everything before changes nothing. The last three
  ask for `Regular` readings, every TAG with good ones in every unit of time: at
  a hole the code finds something else with another range. Which later readings
  may change what the trend rule finds, it does not say, and of pumps and
  viscosity nothing: `PumpFaultsFound` compares with every reading there is, the
  viscosity rule's range does not reach far enough (see below).

`ReportUpdate` states weak fairness for running processes: the operating system
schedules them. Its properties are about single steps; fairness makes a
counterexample one of a system that is not merely stopped.

## Disagreements found

Each is a run that finds the code doing something else than what the repository
says.

1. **A failed resend forgets the success** (`NotificationResend`,
   `state.py:86`). `sender.py:57` says a successful send is suppressed on later
   calls. There is one record per run: send, resend that fails, plain send
   mails the run again.
2. **An update overwrites an exemption** (`ReportExemptionKept`,
   `report.py:371`). The exemption is looked for in the workbook loaded before
   the assessment. `exempt` during an update is undone by it, although the
   manual says not even `--force` does that. For the same reason an update that
   overlaps another one empties the other's column, against the comment at
   `report.py:358` (`OnlyTargetColumn` with two processes).
3. **Retries after the deadline** (`HistoryClientBudget`, `transport.py:341`).
   `total_timeout_seconds` is said to cover queueing and retries. The transport
   starts a second budget once the query has its slot and retries within that.
4. **An exceedance is charged again** (`ExceedanceRepeated`,
   `analog_limit_exceedance/detector.py:249`). A comment in the detector (line
   386) says that a merged occurrence beginning before the window is not
   repeated, and the rule's README (line 70) that none which began before the
   window is created anew in it. The detector of the second window knows only the
   last reading before it. If that is normal, because the exceedance has
   recovered for no longer than the merge gap, the first window is charged for
   the whole exceedance and the second for the rest of it again.
   `RepeatedOnlyAfterRecovery` says that without smoothing this is the only way.

### Observed while modelling

The models do these things because the code does; the properties are stated so
that they hold, and say by their conditions where the code stops short.

* *Senders that overlap lose records* (`state.py:105`): the state document is
  loaded before the SMTP exchange and replaces the file after it.
* *An early assessment* (`persistent_high_alarm/detector.py:216`) counts an
  alarm that is still active as confirmed to the end of a query range that lies
  in the future, and a plain update reuses its package later (`report.py:285`).
* *Viscosity disturbances* are looked for in what the rule happens to read:
  `build_history_query_range` (`rule.py:198`) does not look back for
  `exclusion.window_seconds`, so which time is removed at the start of a window
  depends on the smoothing.
* *Drifts* are merged with their neighbour in the order of their starts
  (`analog_trend_stability/detector.py:170`): one of the other direction that
  begins between two of one direction keeps these apart. With irregular
  readings a drift at the start of a window is computed from a mean of fewer
  readings than exist, and with trailing alignment observations end before the
  window does (`rule.py:391`). The last reading at the horizon may decide the
  severity but not the maximal deviation (`detector.py:266`).
* *sync-rules is not idempotent* (`report.py:636`): a new item without a
  configured date gets today's, which the next sync makes blank.
* *Dates in the future* (`report.py:351`): packages contain every enabled
  point, the mapping expects only those in force, so as long as a point's
  effective date lies ahead, no package produced meanwhile can be filled in; the
  same is true of earlier days once a new point exists.
* *The readers differ* in what they check: the mail accepts negative scores,
  which the workbook's reader refuses, and does not compare the document's total.
* *A date outlives its configuration* (`report.py:624`): new-month takes an
  item's date over from the older workbook when none is configured, and
  sync-rules stops an item only if it has no end date yet. So a date ahead that
  has left the configuration keeps its item out of, or in, the expected ones.
  `FilledOnceSynced` excludes dates ahead in every configuration for this.
* *Leftovers of new-month* (`report.py:692`): a stop leaves last month's
  workbook under the new name.
* *Forced updates are not mailed again* (`sender.py:88`): the run ID is
  recorded as sent.
* *Outside one writer per run ID*, recovery deletes another process's temporary
  directory (`manager.py:356`), and a reader beside an overwrite may see a
  document of one package and the images of another (`package.py:101`).

## Proofs

Checked by `tlapm`; no statement is assumed but the named assumptions on
constants (bounds are natural numbers, limits positive, the rotation has three
different teams, a shift is at least two ticks long, every call asks for a TAG
and its queries are the threads of the gate,
months are finite sets of days, one after the other, configurations are lists of
rules with lists of points, the rules of one with different IDs, scores,
multipliers and offsets are numbers, horizons increase; the historian begins at a
time after 0, its readings are numbers, windows and lookback steps are not empty,
the points of the rules pass the checks of their configurations (`PointsAreValid`),
and there is a record, empty perhaps, of every TAG a rule asks for; and one on
hashes: a point's file name with its whole hash is no other point's).

| Module | Theorems | For every |
|---|---|---|
| DeliveryProofs | TypeCorrect, TargetAlwaysWhole, LastPackageNeverLost, AlwaysBuildsOnLast, OverwriteAllowed, RecoveryNeverGuesses, SuccessIsClean, DeliveryImplementsRegister | number of calls |
| DeliveryProofs, of `Notification` through the instance `Mail` | MailTypes, RecordedAsSentWasSent; SerialSendsAreSuppressed (one process, no resend) | processes, runs, number of calls |
| ReportUpdateProofs | TypeCorrect, ExemptionIsKept, OnlyTargetChanges, TypedScoresAreKept, MailSaysTheColumn (all if commands and edits wait for each other) | processes, columns, commands |
| ReportMonthProofs | ChargesStay, TotalsAreRight, SyncedReportCanBeFilled, PointsAreAssessed, AssessmentsFailForConfig, PackagesReadAlike | configurations, occurrences, months, commands |
| PersistentAlarmProofs | AssessmentsFindTheAlarms; AlarmsAreChargedOnce, ChargesAreFinal (both if assessments wait for the query range) | windows, threshold, horizons, readings, length of the history |
| ShiftProofs | MomentInOneShift, AssessmentFindsShift, AllOverlappingShifts, TwoShiftsPerDate, ColumnNamesShift; SelectionTypes, UpdateFindsItsColumn, LastShiftIsFilled, RangeOfShiftsIsCovered | duration, reference, rotation, month, number of commands |
| HistoryClientProofs | GateTypes, GateBalanced, GateLosesNoWakeUp, GateWithinLimit (of the gate); ClientUsesGate, ClientBalanced, ClientLosesNoWakeUp, SlotsAreFollowed | set of threads, limits; calls, TAGs, retries |
| RuleAssessmentProofs | HistoryOrdered, LastBeforeFound, MergedExceedancesCharged, PumpFaultsCharged, StabilityCharged | points, readings, windows, lookback, length of the history |
| MetricRuleProofs, which extends it | ViscosityEventsCharged, PenaltiesCharged, RunsAreCharged | points, readings, windows, lookback, length of the history |

**Monthly report, one shift.** Under `Exclusive` at most one process is busy
(`Alone`), and until it saves, the workbook it loaded is the one on the disk.
So what was checked when it was loaded is still true when it is replaced:
`Open` (the column is neither exempt nor, unless a backup holds them, full of
typed scores) and `Read` (the scores in hand are those of the package on the
disk, and after the save those of the column). `Budget` bounds the packages by
the commands. Run ReportExemptionKept shows that the hypothesis is needed.

**Monthly report, over time.** None of the properties is inductive. The
invariant `Inv` says of every workbook (`MonthInv`):

* each row holds one item, no item has two rows, and the two totals add up the
  rows of their audiences (`IsSheet`);
* a cell is exactly what was charged for the item of its row, also where that is
  nothing, and every item that was ever charged has a row (`Shows`). A sync gives
  new, empty rows only to items without one, hence without a charge;
* an item's dates come from a configuration, or from the day of a sync
  or a new workbook (`Dated`);
* a workbook contains every item of the configuration it was last synchronised
  with, and all other items of it are stopped (`Follows`);
* a month's file may be the unfinished copy of an older month's.

`TotalsAreRight` follows by a lemma on sums: a bijection that keeps the values,
and drops only zeros, keeps the sum. `SyncedReportCanBeFilled` needs besides
what an assessment returns, so the proofs go through the engine: how points are
grouped by window, what a group's call of the rule returns, that the checks of
the runner pass, what the scorer makes of it. `PointsAreAssessed` and
`AssessmentsFailForConfig` are these results.

`PackagesReadAlike` follows the same package through both readers. Three facts
carry it. No two points have the same key, in the document or in the list of
what is drawn. Each event a rule finds is found once and has one point, so that
the count and score of a rule are the sums of its points' (`SumByPoints`: a sum
is the sum over its parts), and those of the document the sums of its rules'.
And no two points share an image (`ImagesDiffer`): each name
`_deduplicate_filename` gives is none of those given before, and there is
always one left. So what is drawn last under a name is the point's own chart.

**Alarms.** `AssessmentsFindTheAlarms` compares a loop with a definition that
does not loop. The invariant of the loop says, for the samples read so far, in
which mode the detector is, from which reading the running alarm is known, and
that the intervals found are the finished alarms. The chunks of the search
for a recovery cover every time between the query range and the horizon, the
lookback every time between the oldest horizon and the window. The other two
theorems need `ChargesKept`: the events of a window assessed earlier are still
those of its alarms, although an open one may have ended meanwhile. They assume
`Settled`, as the run does: an assessment before the end of its query range
counts time that has not passed (see above).

**Induction over data.** The provers cannot instantiate the library's induction
theorems. What sums, folds, flattened sequences and the detector's loop compute
is proved all the same, from well-foundedness: if a claim failed for
some length or some finite set, it would fail for a least one (`LeastNumber`,
`LeastSubset`), whose predecessor satisfies it. Each takes the set of
counterexamples as its parameter, which is a set and not an operator.

**Delivery.** `TargetIsWhole` and `LastPackageKept` are not inductive: whether
`Publish` keeps them depends on what is in the temporary directory, and whether
a handler's rename does, on which package the local variable `backup` names.
`IInv` adds `Ordered` (call numbers order the packages on disk; what is in the
formal directory is the last), `Published` (where the last package is),
`Recovering` (recovery touches leftovers only) and `Working` (what the call
under way owns at each point). From `IInv` follows that the refinement mapping
always names `last`, so only `Publish` moves the register, and
`DeliveryImplementsRegister` is one case per action. `Tidy` adds, where
directories are removable, that recovery leaves nothing before work begins.

**Notification.** `Truthful`: a record that says "sent", in the file or in any
loaded document, is of a run the server has taken, and so is the run of a process
whose exchange ended well. The serial theorem adds that the loaded document is
the file, and that what was confirmed is recorded. Run NotificationResend lacks
the second hypothesis; without the first, a save can undo another's record.

**Gate.** `Balanced` needs the finiteness of `inside`; `NoIdleSlot` counts: a
slot that becomes free wakes a sleeper, a thread that stops looking has seen no
free slot. The client's theorems follow, because its queries only move through
the gate's own actions (`Cached`: a limit announced again is one the server
gave).

**Shifts.** Arithmetic of quotients and remainders gives the slot of a moment
uniquely, for negative slots as well; parity gives the type, the remainder by
three two different teams on each date. `SelectionInv` adds to the properties
that every pending assignment lies within the command, that every filled column
is the shift its date and team name, and that `--last`'s pending or filled
column is the shift that had ended. For `RangeIsCovered` it adds that
every shift of a range is still to be done or its column is filled.

**Rules.** The state of `RuleAssessment` is only what is recorded, and its
invariant `HistoryInv` that the record of each TAG is ordered in time, lies between
the beginning and `now`, and holds readings of the right types. What is left is to
show, of every such history, that a loop over it returns what a definition without
a loop describes.

* *Traces.* Each detector is a recursive function of the number of readings it has
  seen. A lemma per detector (`DetectTraceExists` and its like) names the states it
  goes through; the invariant of the loop relates the state after *n* readings to
  the merged runs of the first *n* observations: there is no run under way, or the
  one whose first observation and last deviation are known, and what has been found
  are the events of the runs that are over. A step of the loop is a step of this
  (`Current`, `Deviates`, `Recovers`), by one case for each branch of the code.
* *Search back.* `LastBeforeFound`: after *k* steps of the lookback a TAG has either
  been found, and then has its last reading before the range, or has no reading
  within the *k*-th horizon. A TAG that is asked for again gets back what it has.
* *Exceedances.* Before the window the detector is in the state that the last
  reading shows, or in none if a hole hides it (`DetectorFrom`); the definition says
  the same by leaving out what nobody saw begin (`Proven`).
* *Flow balances and rates.* Only the valid items of a timeline are observations, so
  the detector's position in the timeline and in the observations differ
  (`TimelineAt`): between two observations it has seen a hole or none
  (`HoleBetween`), and at one it cuts the run, goes on with it or starts one. What is
  left at the end depends on whether the last item is valid (`LeftIs`). The two
  rules have the same detector (`SameRunDetector`); what differs is that their
  timelines are ordered in time, of joined segments of rates (`RatePointsAre`), or
  of the times at which any TAG of the balance is known (`FlowTimelinesAre`).
* *Pumps.* `PumpKnows`: what the rule takes for the mode at a time is the mode all
  readings so far give, from the beginning of the range on; so the switch
  under way is as old as it is in the record, or older than the range, and then
  beyond its time long before the window. `PumpFaultsFound` has the hypothesis
  that the search back found what there is (`PumpSeen`).
* *Viscosity.* The items of the metric, and with them the beginnings of
  disturbances, lie on a grid of buckets. A part of what is left has no bucket
  missing, and its last item, which is not removed, is followed by a whole bucket
  before anything else. So a disturbance that is not over when an exceedance of the
  part begins starts behind the part, and so behind the exceedance, which ends one
  bucket after the last item at the latest.
* *Penalties.* The times at which an exceedance is due form an arithmetic
  progression; how many of them come before a time is its position in it.
* *Stability.* `StabilityFound` speaks of points with stability enabled: the
  configuration of the others is not read by the rule.

**Only model-checked:** `CallsEnd`, because liveness is out of the prover's
reach; and three properties of `RuleAssessment`. `DriftsFound` follows drifts
through merging pair by pair, an order that depends on all of them.
`RangesSuffice` and `RepeatedOnlyAfterRecovery` compare what two different ranges of
one history show, smoothed, interpolated and segmented anew for each.

## Not modelled

* Charts, HTML and Excel layout, notification settings, argument parsing, NDJSON
  decoding: data in, data out, no order to get wrong. Their failure is a branch
  of the action that calls them.
* `shifts/calendar.py`, `schedule.py`, `resolver.py`, `assignment.py`: another
  calendar, of three teams, that neither the command line nor the report uses.
* Validation of configuration files beyond the checks on limits and durations
  that the rules' models need (`ASSUME PointsAreValid`); that rule IDs are
  distinct is `IdsAssumption` of `ReportMonth` (`load_items_from_rules_dir`
  demands that each is the name of its directory, the engine's loader does not).
* The end of `_deduplicate_filename` without a free name: `NamesAssumption`
  says that whole hashes tell points apart.
* Floating point: comparisons are exact, so a value that rounding moves across
  a threshold is not covered.
* Two writers of one run ID, and a reader of a package beside a writer: the
  documents leave both to the caller.
* Power cuts that undo renames which had returned.
* `get_events`: the steps of `get_history` on a gate of its own.
* `src/experiments`: probes outside the program.
