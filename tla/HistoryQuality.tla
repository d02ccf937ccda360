--------------------------- MODULE HistoryQuality ---------------------------
(***************************************************************************)
(* data/history_quality.py: which readings of a TAG may take part in a     *)
(* calculation, and which of them belong together.                         *)
(*                                                                         *)
(* A sample is a record with time, value and good; good is FALSE for a     *)
(* reading whose status, hole flags or text rule it out.  The readings of  *)
(* a TAG are a sequence ordered by time and sequence_no without            *)
(* duplicates.  Values are whole numbers of a unit so fine that every mean *)
(* of them that occurs is a whole number too.                              *)
(***************************************************************************)
EXTENDS Integers, FiniteSets, Subsequences

\* The sum of the values of a segment at some of its positions.
SumAt(segment, positions) ==
  LET total[i \in 0..Len(segment)] ==
        IF i = 0 THEN 0
        ELSE total[i - 1] + (IF i \in positions THEN segment[i].value ELSE 0)
  IN  total[Len(segment)]

CloseSegment(p) ==
  [p EXCEPT !.segments = IF p.current = <<>> THEN @ ELSE Append(@, p.current),
            !.current = <<>>]

\* One pass of the loop of prepare_numeric_history: a reading that is not good, and
\* one that comes later than maxGap after the last (0: no limit), ends the segment.
AddSample(maxGap, p, sample) ==
  LET late == /\ p.current # <<>> /\ maxGap # 0
              /\ sample.time - Last(p.current).time > maxGap
      q    == IF ~sample.good \/ late
              THEN [CloseSegment(p) EXCEPT !.breaks = @ \cup {sample.time}]
              ELSE p
  IN  IF sample.good THEN [q EXCEPT !.current = Append(@, sample)] ELSE q

\* prepare_numeric_history: the segments of good readings, the times of the breaks.
PrepareNumericHistory(samples, maxGap) ==
  LET after[i \in 0..Len(samples)] ==
        IF i = 0 THEN [segments |-> <<>>, current |-> <<>>, breaks |-> {}]
        ELSE AddSample(maxGap, after[i - 1], samples[i])
      p == CloseSegment(after[Len(samples)])
  IN  [segments |-> p.segments, breaks |-> p.breaks]

\* trailing_mean_segments for one segment: where enough readings are not older than
\* the window, their mean.
TrailingMean(segment, window, minSamples) ==
  LET recent(i) == {j \in 1..i : segment[j].time >= segment[i].time - window}
      mean(i)   == SumAt(segment, recent(i)) \div Cardinality(recent(i))
      enough    == {i \in DOMAIN segment : Cardinality(recent(i)) >= minSamples}
  IN  Subsequence([i \in DOMAIN segment |-> [segment[i] EXCEPT !.value = mean(i)]], enough)

\* Smoothing as the rules configure it; without it the segment is left as it is.
Smooth(segment, smoothing) ==
  IF smoothing.enabled THEN TrailingMean(segment, smoothing.window, smoothing.minSamples)
  ELSE segment
=============================================================================
