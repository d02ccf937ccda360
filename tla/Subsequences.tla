---------------------------- MODULE Subsequences ----------------------------
(***************************************************************************)
(* Choosing some of the elements of a sequence, by their positions.        *)
(***************************************************************************)
EXTENDS Integers, FiniteSets, Sequences, Functions

\* The last element of a sequence.
Last(s) == s[Len(s)]

\* The elements of s at the positions P, in the order of s.
Subsequence(s, P) ==
  LET taken[i \in 0..Len(s)] ==
        IF i = 0 THEN <<>>
        ELSE IF i \in P THEN Append(taken[i - 1], s[i]) ELSE taken[i - 1]
  IN  taken[Len(s)]

\* How many elements of a sequence that is ordered by time come before a time.
Earlier(s, time) == Cardinality({i \in DOMAIN s : s[i].time < time})

\* The elements of such a sequence with from <= time < to.
Between(s, from, to) == SubSeq(s, Earlier(s, from) + 1, Earlier(s, to))
=============================================================================
