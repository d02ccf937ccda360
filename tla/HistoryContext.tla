--------------------------- MODULE HistoryContext ---------------------------
(***************************************************************************)
(* data/history_context.py: the readings of several TAGs in a range,       *)
(* together with the last one of each before it, however far back that is  *)
(* (up to the last horizon of the lookback).                               *)
(*                                                                         *)
(* recorded is a function from TAGs to their readings, ordered by time.    *)
(***************************************************************************)
EXTENDS Integers, Subsequences

\* get_history: the readings with from <= time < to.
GetHistory(samples, from, to) ==
  Between(samples, from, to)

\* get_histories: the same for each of the TAGs.
GetHistories(recorded, tags, from, to) ==
  [tag \in tags |-> GetHistory(recorded[tag], from, to)]

\* A slip: every TAG is given up once the nearest range has been read.
LookBackOnce(recorded, steps, start, c, i) ==
  IF i > 1 THEN c
  ELSE [c EXCEPT !.collected = [tag \in DOMAIN c.collected |->
          GetHistory(recorded[tag], start - steps[1], start) \o c.collected[tag]]]

\* One range of _iter_reverse_lookback_ranges, asked for the TAGs that still lack a
\* reading before start.
LookBack(recorded, steps, start, c, i) ==
  LET got == GetHistories(recorded, c.missing, start - steps[i],
                          start - (IF i = 1 THEN 0 ELSE steps[i - 1]))
  IN  [collected |-> [tag \in DOMAIN c.collected |->
                        (IF tag \in c.missing THEN got[tag] ELSE <<>>) \o c.collected[tag]],
       missing   |-> {tag \in c.missing : got[tag] = <<>>}]

\* _latest_previous_sample and the samples of the range.
PreviousAndRange(samples, start) ==
  LET before == SubSeq(samples, 1, Earlier(samples, start))
  IN  (IF before = <<>> THEN <<>> ELSE <<Last(before)>>)
        \o SubSeq(samples, Earlier(samples, start) + 1, Len(samples))

\* get_histories_with_previous_samples
WithPreviousSamples(recorded, tags, start, end, steps) ==
  LET asked[i \in 0..Len(steps)] ==
        IF i = 0
        THEN [collected |-> GetHistories(recorded, tags, start, end), missing |-> tags]
        ELSE LookBack(recorded, steps, start, asked[i - 1], i)
  IN  [tag \in tags |-> PreviousAndRange(asked[Len(steps)].collected[tag], start)]
=============================================================================
