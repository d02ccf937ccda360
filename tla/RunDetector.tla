---------------------------- MODULE RunDetector ----------------------------
(***************************************************************************)
(* What flow_balance_compliance and level_rate_compliance share: runs of   *)
(* observations that deviate to one side, merged over short recoveries,    *)
(* cut by holes in the data.                                               *)
(*                                                                         *)
(* An observation has time, dir ("none", or the side it deviates to),      *)
(* valid (FALSE: no value could be computed at this time) and boundary (a  *)
(* TAG's data was interrupted).  A point has minDuration, mergeGap,        *)
(* maxGap.                                                                 *)
(***************************************************************************)
EXTENDS Integers, Sequences

NoRun == [dir |-> "none", start |-> 0, pending |-> 0]
NewRun(obs) == [dir |-> obs.dir, start |-> obs.time, pending |-> 0]

\* _append_occurrence: what is long enough counts.
Occurrence(point, run, end, open) ==
  IF end > run.start /\ end - run.start >= point.minDuration
  THEN {[start |-> run.start, end |-> end, type |-> run.dir, open |-> open]}
  ELSE {}

\* A slip: a run that is cut by a hole lasts until the data is back.
CutLate(point, d, obs) ==
  [d EXCEPT !.run = NoRun, !.last = 0,
            !.found = IF d.run = NoRun \/ d.last = 0 THEN @
                      ELSE @ \cup Occurrence(point, d.run, obs.time, FALSE)]

\* A hole: the run, if any, is over since its recovery or its last valid time.
Cut(point, d, obs) ==
  LET end == IF d.run.pending # 0 THEN d.run.pending ELSE d.last
  IN  [d EXCEPT !.run = NoRun, !.last = 0,
                !.found = IF d.run = NoRun \/ end = 0 THEN @
                          ELSE @ \cup Occurrence(point, d.run, end, FALSE)]

\* Whether there is a hole before the observation, or it is one.
IsHole(point, d, obs) ==
  \/ obs.boundary \/ ~obs.valid
  \/ d.last # 0 /\ obs.time - d.last > point.maxGap

\* A valid observation with no hole before it.
Observe(point, d, obs) ==
  LET run == d.run
      end == IF run.pending # 0 THEN run.pending ELSE obs.time
  IN  CASE obs.dir = "none" /\ run # NoRun -> [d EXCEPT !.run.pending = end]
        [] obs.dir = "none" /\ run = NoRun -> d
        [] obs.dir # "none" /\ run = NoRun -> [d EXCEPT !.run = NewRun(obs)]
        [] run # NoRun /\ obs.dir = run.dir /\ obs.time - end <= point.mergeGap ->
             [d EXCEPT !.run.pending = 0]
        [] OTHER -> [d EXCEPT !.run = NewRun(obs),
                              !.found = @ \cup Occurrence(point, run, end, FALSE)]

\* One pass of the loop.
StepRun(point, d, obs) ==
  LET e == IF IsHole(point, d, obs) THEN Cut(point, d, obs) ELSE d
  IN  IF obs.valid THEN [Observe(point, e, obs) EXCEPT !.last = obs.time] ELSE e

\* The run that is left: over at its recovery, going on until the horizon if the last
\* value is not too old then, or over since that value.
Left(point, d, horizon) ==
  IF d.run = NoRun THEN {}
  ELSE IF d.run.pending # 0 THEN Occurrence(point, d.run, d.run.pending, FALSE)
  ELSE IF horizon - d.last <= point.maxGap THEN Occurrence(point, d.run, horizon, TRUE)
  ELSE Occurrence(point, d.run, d.last, FALSE)

DetectRuns(point, timeline, horizon) ==
  IF timeline = <<>> THEN {}
  ELSE LET after[i \in 0..Len(timeline)] ==
             IF i = 0 THEN [run |-> NoRun, last |-> 0, found |-> {}]
             ELSE StepRun(point, after[i - 1], timeline[i])
           d == after[Len(timeline)]
       IN  d.found \cup Left(point, d, horizon)

\* What evaluate keeps of the occurrences: those that begin in the window, up to its
\* end.
Charged(found, start, end) ==
  {[o EXCEPT !.end = IF o.end < end THEN o.end ELSE end] :
     o \in {f \in found : start <= f.start /\ f.start < end}}
=============================================================================
