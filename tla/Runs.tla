-------------------------------- MODULE Runs --------------------------------
(***************************************************************************)
(* What the detectors of the rules are to find, said without a state       *)
(* machine: the merged runs in a sequence of observations.                 *)
(*                                                                         *)
(* An observation has a time, a dir that is "none" when all is well and    *)
(* the direction of the deviation otherwise, and says whether it is fresh: *)
(* nothing before it may be continued, as there is a hole in the data.     *)
(***************************************************************************)
EXTENDS Integers, Sequences

Broken(obs, i, j) == \E k \in (i + 1)..j : obs[k].fresh

\* The deviation at i goes on with an earlier one: nothing lies between them but a
\* recovery no longer than mergeGap[dir], counted from the first good observation.
Continues(obs, mergeGap, i) ==
  \E j \in 1..(i - 1) :
    /\ obs[j].dir = obs[i].dir
    /\ \A k \in (j + 1)..(i - 1) : obs[k].dir = "none"
    /\ ~Broken(obs, j, i)
    /\ j + 1 < i => obs[i].time - obs[j + 1].time <= mergeGap[obs[i].dir]

\* The merged runs: from a deviation that continues none to the last before the next
\* such one.
MergedRuns(obs, mergeGap) ==
  LET starts == {i \in DOMAIN obs : obs[i].dir # "none" /\ ~Continues(obs, mergeGap, i)}
      within(i) == {j \in i..Len(obs) : /\ obs[j].dir # "none"
                                        /\ \A k \in starts : ~(i < k /\ k <= j)}
  IN  {[first |-> i, last |-> CHOOSE j \in within(i) : \A k \in within(i) : k <= j] :
         i \in starts}

\* Whether and when a run is over: at the next observation, or, when that is fresh,
\* with its own last one.
Over(obs, run) == run.last < Len(obs)
OverAt(obs, run) == IF obs[run.last + 1].fresh THEN obs[run.last].time
                    ELSE obs[run.last + 1].time
=============================================================================
