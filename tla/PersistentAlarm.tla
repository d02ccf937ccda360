-------------------------- MODULE PersistentAlarm --------------------------
(***************************************************************************)
(* The rule persistent_high_alarm (rules/persistent_high_alarm) for one    *)
(* point, over the history helpers of data/history_context.py: which       *)
(* alarms of a growing history are charged to which of the consecutive     *)
(* responsibility windows, and how they end.                               *)
(*                                                                         *)
(* The historian appends the readings of one time unit after another; a    *)
(* window is assessed once, at some moment, from what is recorded by then, *)
(* and the result is kept.  A reading's value is "active", "normal", or    *)
(* "bad", any text that parse_digital_state rejects.                       *)
(***************************************************************************)
EXTENDS Integers, SequencesExt

CONSTANTS
  Windows,          \* the number of consecutive windows
  First, Length,    \* the start of the first window; the length of each
  Threshold,        \* threshold_seconds
  Lookback,         \* lookback_steps: increasing horizons before the window
  Forward,          \* recovery_search_steps: increasing horizons, the last the limit
  Reading,          \* what one unit of time may add: a set of sequences of values
  MaxTime,          \* bound: the last time the historian records
  MaxOdd,           \* bound: times with two readings, or one that is rejected
  Settled           \* windows are assessed only once their query range is over

\* Cumulative horizons, as history_context.py validates them.
Horizons(steps) ==
  /\ steps \in Seq(Nat \ {0}) /\ steps # <<>>
  /\ \A i, j \in DOMAIN steps : i < j => steps[i] < steps[j]

Value == {"active", "normal", "bad"}

ASSUME SettledAssumption == Settled \in BOOLEAN
ASSUME ReadingAssumption == Reading \subseteq Seq(Value)
ASSUME WindowsAssumption ==
  Windows \in Nat /\ First \in Nat /\ Length \in Nat \ {0} /\ Threshold \in Nat \ {0}
ASSUME HorizonsAssumption == Horizons(Lookback) /\ Horizons(Forward)

Margin == 1         \* CONFIRMATION_MARGIN, in units of time

Window == 1..Windows
Start(w) == First + (w - 1) * Length
End(w) == First + w * Length
QueryEnd(w) == End(w) + Threshold + Margin

VARIABLES
  now,              \* every reading before now is recorded
  odd,              \* how many times had other than one good reading, or none
  history,          \* the samples, ordered by time and sequence_no
  result            \* per window: whether it was assessed, and its events

vars == <<now, odd, history, result>>

NotAssessed == [status |-> "none", events |-> {}]
Raised == [status |-> "error", events |-> {}]

Init ==
  /\ now = 1
  /\ odd = 0
  /\ history = <<>>
  /\ result = [w \in Window |-> NotAssessed]

-----------------------------------------------------------------------------
\* get_history: the samples with from <= time < to.  A set of samples is the set of
\* their positions in the history, and is read in the order of the positions.
GetHistory(from, to) ==
  {i \in DOMAIN history : from <= history[i].time /\ history[i].time < to}

\* A slip: every range ends at the start of the window, but begins where the
\* previous one should have ended.
LookbackShifted(start, i) == GetHistory(start - (IF i = 1 THEN 0 ELSE Lookback[i - 1]), start)

\* _iter_reverse_lookback_ranges: the i-th range, nearest first.
LookbackRange(start, i) ==
  GetHistory(start - Lookback[i], start - (IF i = 1 THEN 0 ELSE Lookback[i - 1]))

\* _latest_previous_sample: the last sample of the nearest range that has one, or 0.
PreviousSample(start) ==
  LET found == {i \in DOMAIN Lookback : LookbackRange(start, i) # {}}
  IN  IF found = {} THEN 0 ELSE Max(LookbackRange(start, Min(found)))

-----------------------------------------------------------------------------
\* PersistentHighAlarmDetector.  Its state while it reads the samples: the mode
\* (unknown, normal, alarm, error), the time at which a proven alarm began (0: not
\* proven), the intervals found.
DetectorFrom(previous) ==
  [mode  |-> CASE previous = 0 -> "unknown"
               [] previous # 0 /\ history[previous].value = "normal" -> "normal"
               [] previous # 0 /\ history[previous].value = "active" -> "alarm"
               [] OTHER -> "error",
   start |-> IF previous # 0 /\ history[previous].value = "active"
             THEN history[previous].time ELSE 0,
   found |-> {}]

Qualifies(start, end) == end - start > Threshold

Step(d, sample) ==
  IF d.mode = "error" \/ sample.value = "bad" THEN [d EXCEPT !.mode = "error"]
  ELSE CASE d.mode = "unknown" ->
              [d EXCEPT !.mode = IF sample.value = "active" THEN "alarm" ELSE "normal"]
         [] d.mode = "normal" /\ sample.value = "active" ->
              [d EXCEPT !.mode = "alarm", !.start = sample.time]
         [] d.mode = "alarm" /\ sample.value = "normal" ->
              [mode |-> "normal", start |-> 0,
               found |-> IF d.start # 0 /\ Qualifies(d.start, sample.time)
                         THEN d.found \cup {[start |-> d.start, end |-> sample.time]}
                         ELSE d.found]
         [] OTHER -> d

Detect(w) ==
  LET samples == GetHistory(Start(w), QueryEnd(w))
      after[i \in 0..Len(history)] ==
        IF i = 0 THEN DetectorFrom(PreviousSample(Start(w)))
        ELSE IF i \in samples THEN Step(after[i - 1], history[i])
        ELSE after[i - 1]
  IN  after[Len(history)]

-----------------------------------------------------------------------------
\* find_next_sample, for the first reading that is not active, from cursor on, in
\* the horizons of Forward counted from start: that sample, or 0.  A bad reading
\* met before it makes the predicate raise.
SearchEnd(start) == start + Forward[Len(Forward)]

\* The i-th request: what the earlier ones and the caller have not covered.
NextChunk(start, cursor, i) ==
  GetHistory(IF i = 1 \/ start + Forward[i - 1] < cursor THEN cursor
             ELSE start + Forward[i - 1],
             start + Forward[i])

FindNext(start, cursor) ==
  LET met == {p \in UNION {NextChunk(start, cursor, i) : i \in DOMAIN Forward} :
                history[p].value # "active"}
  IN  IF met = {} THEN 0 ELSE Min(met)

\* The occurrence that is still open at the end of the query range, if it counts.
OpenStarts(w, d) ==
  {s \in {d.start} : d.mode = "alarm" /\ s # 0 /\ Qualifies(s, QueryEnd(w))}

Event(start, end, open) == [start |-> start, end |-> end, open |-> open]

\* A slip: without a recovery the event ends with what is recorded.
RecoveredByNow(w, s) ==
  LET next == FindNext(s, QueryEnd(w))
  IN  Event(s, IF next # 0 THEN history[next].time ELSE now, FALSE)

\* An open event ends with the recovery, or at the horizon of the search.
Recovered(w, s) ==
  LET next == FindNext(s, QueryEnd(w))
  IN  IF next # 0 THEN Event(s, history[next].time, FALSE)
      ELSE Event(s, IF SearchEnd(s) > QueryEnd(w) THEN SearchEnd(s) ELSE QueryEnd(w), TRUE)

\* A slip: an alarm is charged to the window that sees it, not to that of its start.
OwnedBySight(w, s) == s < QueryEnd(w)

\* Only what began in the window is charged to it.
Owned(w, s) == Start(w) <= s /\ s < End(w)

\* Rule.evaluate: the events of the window, unless a value is rejected.
Evaluate(w) ==
  LET d      == Detect(w)
      open   == {s \in OpenStarts(w, d) : Owned(w, s)}
      failed == \/ d.mode = "error"
                \/ \E s \in open : LET next == FindNext(s, QueryEnd(w))
                                   IN  next # 0 /\ history[next].value = "bad"
  IN  IF failed THEN Raised
      ELSE [status |-> "done",
            events |-> {Event(o.start, o.end, FALSE) : o \in {f \in d.found : Owned(w, f.start)}}
                         \cup {Recovered(w, s) : s \in open}]

-----------------------------------------------------------------------------
\* The historian records the readings of the next unit of time.
Record ==
  /\ now <= MaxTime
  /\ now' = now + 1
  /\ \E r \in Reading :
       /\ odd' = IF r \in {<<>>, <<"active">>, <<"normal">>} THEN odd ELSE odd + 1
       /\ odd' <= MaxOdd
       /\ history' = history \o [i \in DOMAIN r |-> [time |-> now, value |-> r[i]]]
  /\ UNCHANGED result

\* "dcs_performance.cli run" for the shift of the window: nothing makes it wait
\* for the end of the shift or of the query range.
Assess(w) ==
  /\ result[w] = NotAssessed
  /\ now > Start(w)
  /\ Settled => now >= QueryEnd(w)
  /\ result' = [result EXCEPT ![w] = Evaluate(w)]
  /\ UNCHANGED <<now, odd, history>>

Next == Record \/ \E w \in Window : Assess(w)

Spec == Init /\ [][Next]_vars

-----------------------------------------------------------------------------
Assessed(w) == result[w].status = "done"

\* What the rule's README says, without a state machine.  An alarm provably
\* begins for w at an active reading in it, right after a normal one that is not
\* older than the lookback: the positions of these readings.
Begins(w) ==
  {i \in 2..Len(history) :
     /\ history[i].value = "active"
     /\ Start(w) <= history[i].time /\ history[i].time < End(w)
     /\ history[i - 1].value = "normal"
     /\ history[i - 1].time >= Start(w) - Lookback[Len(Lookback)]}

\* The alarm that begins at i is over at the next normal reading.
Over(i) == {j \in (i + 1)..Len(history) : history[j].value = "normal"}
EndOf(i) == history[Min(Over(i))].time

\* Its event, when it lasts longer than the threshold by all that is known and
\* known to last no longer than the search for its end reaches.
EventOf(w, i) ==
  LET limit == IF SearchEnd(history[i].time) > QueryEnd(w) THEN SearchEnd(history[i].time)
               ELSE QueryEnd(w)
  IN  IF Over(i) # {} /\ EndOf(i) < limit THEN Event(history[i].time, EndOf(i), FALSE)
      ELSE Event(history[i].time, limit, TRUE)

TrueEvents(w) ==
  {EventOf(w, i) : i \in {j \in Begins(w) : Over(j) = {}
                                            \/ Qualifies(history[j].time, EndOf(j))}}

\* The assessment of a window finds exactly the alarms that begin in it and last
\* longer than the threshold, with their ends: none is missed because it crosses
\* the end of the window, none is charged for being active when the window opens.
FindsTheAlarms ==
  [][\A w \in Window : Assessed(w)' /\ ~Assessed(w) => result'[w].events = TrueEvents(w)]_vars

\* What was assessed after the query range was over stays right: later readings may
\* close an open event, but add no event and take none away.
LaterReadingsChangeNothing ==
  \A w \in Window : Assessed(w) /\ Evaluate(w) # Raised =>
    /\ {e.start : e \in result[w].events} = {e.start : e \in Evaluate(w).events}
    /\ {e \in result[w].events : ~e.open} \subseteq Evaluate(w).events

\* One alarm is charged once, to one window: two events, of the same or of different
\* windows, are two alarms, with a normal reading between their starts.
AlarmChargedOnce ==
  \A v, w \in Window : Assessed(v) /\ Assessed(w) =>
    \A e \in result[v].events, f \in result[w].events :
      (v # w \/ e # f) /\ e.start <= f.start =>
        \E i \in DOMAIN history :
          /\ history[i].value = "normal"
          /\ e.start < history[i].time /\ history[i].time <= f.start
=============================================================================
