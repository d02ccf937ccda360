------------------------- MODULE RuleAssessmentProofs -------------------------
(***************************************************************************)
(* Theorems about the rules of RuleAssessment, for every reading, point    *)
(* and window: what LastBefore recorded is what a longer history shows,    *)
(* and what the stability, exceedance and pump rules charge is what is in  *)
(* the record.  The detectors are loops over a history; each is followed   *)
(* by a trace, a function of the number of readings seen, whose parts obey *)
(* an invariant of the loop.  Most of the module is lemmas about these.    *)
(***************************************************************************)
EXTENDS RuleAssessment, HistoryQuality, HistoryContext, RunDetector,
        FiniteSetTheorems, WellFoundedInduction, TLAPS

\* A set of natural numbers has a least element, a bounded one a greatest.
LEMMA LeastNumber ==
  ASSUME NEW T, T \subseteq Nat, T # {}
  PROVE  \E x \in T : \A y \in T : x <= y
<1> DEFINE R == OpToRel(<, Nat)
<1>1. IsWellFoundedOn(R, Nat)
  BY NatLessThanWellFounded
<1>2. \A a, b \in Nat : <<a, b>> \in R <=> a < b
  BY DEF OpToRel
<1> HIDE DEF R
<1>3. PICK x \in T : \A y \in T : ~ (<<y, x>> \in R)
  BY <1>1, WFMin, Zenon
<1>4. \A y \in T : x \in Nat /\ y \in Nat /\ ~ (y < x)
  BY <1>2, <1>3
<1> QED
  BY <1>4

\* A bounded set of natural numbers has a greatest element.
LEMMA GreatestNumber ==
  ASSUME NEW n \in Nat, NEW T, T \subseteq 0..n, T # {}
  PROVE  \E x \in T : \A y \in T : y <= x
<1> DEFINE U == {m \in Nat : \A y \in T : y <= m}
<1>1. U \subseteq Nat /\ n \in U
  OBVIOUS
<1>2. PICK x \in U : \A v \in U : x <= v
  BY <1>1, LeastNumber
<1>3. x \in Nat /\ \A y \in T : y \in Nat /\ y <= x
  BY <1>2
<1>4. SUFFICES ASSUME x \notin T PROVE FALSE
  BY <1>3
<1>5. PICK y \in T : TRUE
  OBVIOUS
<1>6. x - 1 \in Nat /\ \A z \in T : z <= x - 1
  BY <1>3, <1>4, <1>5
<1>7. x - 1 \in U
  BY <1>6
<1> HIDE DEF U
<1> QED
  BY <1>2, <1>3, <1>7

\* Induction, on a set instead of a predicate.
LEMMA SetInduction ==
  ASSUME NEW T, 0 \in T, \A n \in Nat : n \in T => n + 1 \in T
  PROVE  Nat \subseteq T
<1> SUFFICES ASSUME NEW m \in Nat, m \notin T PROVE FALSE
  OBVIOUS
<1>1. PICK x \in Nat \ T : \A y \in Nat \ T : x <= y
  BY LeastNumber
<1>2. x # 0 /\ x - 1 \in Nat /\ x - 1 \in T
  BY <1>1
<1> QED
  BY <1>1, <1>2

-----------------------------------------------------------------------------
\* A sequence whose elements have times, in order; 0 is not a time.
Timed(s) ==
  /\ s \in Seq(Range(s))
  /\ \A i \in 1..Len(s) : s[i].time \in Nat \ {0}
  /\ \A i, j \in 1..Len(s) : i <= j => s[i].time <= s[j].time

\* A sequence over any set is one over the set of its elements.
LEMMA OfRange ==
  ASSUME NEW X, NEW s \in Seq(X)
  PROVE  s \in Seq(Range(s)) /\ Len(s) \in Nat /\ DOMAIN s = 1..Len(s)
<1>1. Len(s) \in Nat /\ DOMAIN s = 1..Len(s) /\ s \in [1..Len(s) -> X]
  OBVIOUS
<1>2. s \in [1..Len(s) -> Range(s)]
  BY <1>1 DEF Range
<1> QED
  BY <1>1, <1>2

\* A sequence in the order of time is a function on its positions.
LEMMA TimedShape ==
  ASSUME NEW s, Timed(s)
  PROVE  Len(s) \in Nat /\ DOMAIN s = 1..Len(s) /\ s \in [1..Len(s) -> Range(s)]
BY DEF Timed

\* A function on 1..n that has times in order.
LEMMA MakeTimed ==
  ASSUME NEW n \in Nat, NEW s, DOMAIN s = 1..n, s = [i \in 1..n |-> s[i]],
         \A i \in 1..n : s[i].time \in Nat \ {0},
         \A i, j \in 1..n : i <= j => s[i].time <= s[j].time
  PROVE  Timed(s) /\ Len(s) = n
<1>1. s \in [1..n -> Range(s)]
  BY DEF Range
<1>2. s \in Seq(Range(s)) /\ Len(s) = n
  BY <1>1
<1> QED
  BY <1>2 DEF Timed

\* A part of a sequence in the order of time is in the order of time.
LEMMA TimedSub ==
  ASSUME NEW s, Timed(s), NEW a \in 1..(Len(s) + 1), NEW b \in 0..Len(s)
  PROVE  LET q == SubSeq(s, a, b)
         IN  /\ Timed(q)
             /\ Len(q) = IF a <= b THEN b - a + 1 ELSE 0
             /\ \A i \in 1..Len(q) : a + i - 1 \in a..b /\ q[i] = s[a + i - 1]
<1> DEFINE q == SubSeq(s, a, b)
           n == IF a <= b THEN b - a + 1 ELSE 0
<1>1. Len(s) \in Nat /\ s \in Seq(Range(s)) /\ n \in Nat
  BY DEF Timed
<1>2. q = [i \in 1..n |-> s[a + i - 1]]
  BY <1>1
<1>3. \A i \in 1..n : a + i - 1 \in a..b /\ a + i - 1 \in 1..Len(s)
  BY <1>1
<1>4. /\ DOMAIN q = 1..n /\ q = [i \in 1..n |-> q[i]]
      /\ \A i \in 1..n : q[i] = s[a + i - 1]
  BY <1>2
<1> HIDE DEF q, n
<1>5. \A i \in 1..n : q[i].time \in Nat \ {0}
  BY <1>3, <1>4 DEF Timed
<1>6. ASSUME NEW i \in 1..n, NEW j \in 1..n, i <= j PROVE q[i].time <= q[j].time
  <2>1. a + i - 1 <= a + j - 1
    BY <1>1, <1>6
  <2> QED
    BY <1>3, <1>4, <2>1 DEF Timed
<1>7. Timed(q) /\ Len(q) = n
  BY <1>1, <1>4, <1>5, <1>6, MakeTimed
<1> QED
  BY <1>3, <1>4, <1>7 DEF q, n

\* So are two of which one comes after the other.
LEMMA TimedConcat ==
  ASSUME NEW s, NEW t, Timed(s), Timed(t),
         \A i \in 1..Len(s), j \in 1..Len(t) : s[i].time <= t[j].time
  PROVE  LET q == s \o t
         IN  /\ Timed(q) /\ Len(q) = Len(s) + Len(t)
             /\ \A i \in 1..Len(s) : q[i] = s[i]
             /\ \A i \in 1..Len(t) : q[Len(s) + i] = t[i]
<1> DEFINE q == s \o t
           n == Len(s) + Len(t)
<1>1. Len(s) \in Nat /\ Len(t) \in Nat /\ n \in Nat
  BY DEF Timed
<1> DEFINE X == Range(s) \cup Range(t)
<1>2. s \in Seq(X) /\ t \in Seq(X)
  <2>1. s \in [1..Len(s) -> X] /\ t \in [1..Len(t) -> X]
    BY TimedShape
  <2> HIDE DEF X
  <2> QED
    BY <1>1, <2>1
<1>3. /\ DOMAIN q = 1..n /\ q = [i \in 1..n |-> q[i]]
      /\ \A i \in 1..Len(s) : q[i] = s[i]
      /\ \A i \in 1..Len(t) : q[Len(s) + i] = t[i]
  <2> HIDE DEF X
  <2>1. q \in Seq(X) /\ Len(q) = n
    BY <1>1, <1>2
  <2>2. q = [i \in 1..n |-> q[i]] /\ DOMAIN q = 1..n
    <3> HIDE DEF q, n
    <3> QED
      BY <1>1, <2>1
  <2>3. \A i \in 1..Len(s) : q[i] = s[i]
    BY <1>1, <1>2
  <2>4. ASSUME NEW i \in 1..Len(t) PROVE q[Len(s) + i] = t[i]
    BY <1>1, <1>2
  <2> QED
    BY <2>2, <2>3, <2>4
<1>4. \A i \in 1..n : i \in 1..Len(s) \/ (i - Len(s) \in 1..Len(t) /\ Len(s) + (i - Len(s)) = i)
  BY <1>1
<1> HIDE DEF q, n
<1>5. \A i \in 1..n : \/ i \in 1..Len(s) /\ q[i] = s[i]
                      \/ i - Len(s) \in 1..Len(t) /\ q[i] = t[i - Len(s)]
  BY <1>3, <1>4
<1>6. \A i \in 1..n : q[i].time \in Nat \ {0}
  BY <1>5 DEF Timed
<1>7. ASSUME NEW i \in 1..n, NEW j \in 1..n, i <= j PROVE q[i].time <= q[j].time
  <2>1. CASE j \in 1..Len(s)
    <3>1. i \in 1..Len(s)
      BY <1>1, <1>7, <2>1
    <3> QED
      BY <1>3, <1>7, <2>1, <3>1 DEF Timed
  <2>2. CASE i \in 1..Len(s) /\ j \notin 1..Len(s)
    BY <1>3, <1>5, <2>2
  <2>3. CASE i \notin 1..Len(s) /\ j \notin 1..Len(s)
    <3>1. i - Len(s) <= j - Len(s)
      BY <1>1, <1>7
    <3> QED
      BY <1>5, <2>3, <3>1 DEF Timed
  <2> QED
    BY <2>1, <2>2, <2>3
<1>8. Timed(q) /\ Len(q) = n
  BY <1>1, <1>3, <1>6, <1>7, MakeTimed
<1> QED
  BY <1>3, <1>8 DEF q, n

\* What Earlier counts are the first elements.
LEMMA EarlierIs ==
  ASSUME NEW s, Timed(s), NEW t \in Int
  PROVE  /\ Earlier(s, t) \in 0..Len(s)
         /\ \A i \in 1..Len(s) : s[i].time < t <=> i <= Earlier(s, t)
<1> DEFINE N == Len(s)
           T == {i \in 0..N : i = N \/ s[i + 1].time >= t}
<1>1. N \in Nat /\ N \in T /\ T \subseteq Nat
  BY TimedShape
<1>2. PICK m \in T : \A y \in T : m <= y
  BY <1>1, LeastNumber
<1>3. m \in 0..N
  OBVIOUS
<1>4. ASSUME NEW i \in 1..N PROVE s[i].time < t <=> i <= m
  <2>1. s[i].time \in Nat
    BY DEF Timed
  <2>2. CASE i <= m
    <3>1. i - 1 \in 0..N /\ i - 1 \notin T /\ i - 1 # N /\ (i - 1) + 1 = i
      BY <1>1, <1>2, <2>2
    <3>2. ~ (s[i].time >= t)
      BY <3>1
    <3> QED
      BY <2>1, <2>2, <3>2
  <2>3. CASE ~ (i <= m)
    <3>1. m # N /\ m + 1 \in 1..N /\ m + 1 <= i
      BY <1>1, <1>3, <2>3
    <3>2. s[m + 1].time >= t /\ s[m + 1].time \in Nat
      BY <3>1 DEF Timed
    <3>3. s[m + 1].time <= s[i].time
      BY <3>1 DEF Timed
    <3> QED
      BY <2>1, <2>3, <3>2, <3>3
  <2> QED
    BY <2>2, <2>3
<1> HIDE DEF T
<1>5. {i \in DOMAIN s : s[i].time < t} = 1..m
  <2>1. DOMAIN s = 1..N
    BY TimedShape
  <2>2. \A i : i \in 1..m => i \in 1..N
    BY <1>1, <1>3
  <2> QED
    BY <1>3, <1>4, <2>1, <2>2
<1>6. Cardinality(1..m) = m
  BY <1>3, FS_Interval
<1>7. Earlier(s, t) = m
  BY <1>5, <1>6 DEF Earlier
<1> QED
  BY <1>3, <1>4, <1>7

\* More elements come before a later time.
LEMMA EarlierMonotone ==
  ASSUME NEW s, Timed(s), NEW t \in Int, NEW u \in Int, t <= u
  PROVE  Earlier(s, t) <= Earlier(s, u)
<1>1. /\ Len(s) \in Nat /\ Earlier(s, t) \in 0..Len(s) /\ Earlier(s, u) \in 0..Len(s)
      /\ \A i \in 1..Len(s) : s[i].time < t <=> i <= Earlier(s, t)
      /\ \A i \in 1..Len(s) : s[i].time < u <=> i <= Earlier(s, u)
      /\ \A i \in 1..Len(s) : s[i].time \in Nat
  BY EarlierIs, TimedShape DEF Timed
<1>2. CASE Earlier(s, t) = 0
  BY <1>1, <1>2
<1>3. CASE Earlier(s, t) # 0
  <2> DEFINE i == Earlier(s, t)
  <2>1. i \in 1..Len(s) /\ s[i].time < t /\ s[i].time \in Nat
    BY <1>1, <1>3
  <2>2. s[i].time < u
    BY <2>1
  <2> QED
    BY <1>1, <2>1, <2>2
<1> QED
  BY <1>2, <1>3

\* get_history reads the elements with times in the range, in their order.
LEMMA BetweenIs ==
  ASSUME NEW s, Timed(s), NEW from \in Int, NEW to \in Int
  PROVE  LET q == Between(s, from, to)
             a == Earlier(s, from)
             b == Earlier(s, to)
         IN  /\ Timed(q) /\ Len(q) = IF a < b THEN b - a ELSE 0
             /\ \A i \in 1..Len(q) : /\ a + i \in 1..Len(s) /\ q[i] = s[a + i]
                                     /\ from <= q[i].time /\ q[i].time < to
<1> DEFINE a == Earlier(s, from)
           b == Earlier(s, to)
           q == SubSeq(s, a + 1, b)
<1>1. /\ Len(s) \in Nat /\ a \in 0..Len(s) /\ b \in 0..Len(s)
      /\ \A i \in 1..Len(s) : s[i].time < from <=> i <= a
      /\ \A i \in 1..Len(s) : s[i].time < to <=> i <= b
      /\ \A i \in 1..Len(s) : s[i].time \in Nat
  BY EarlierIs, TimedShape DEF Timed
<1>2. Between(s, from, to) = q
  BY DEF Between
<1> HIDE DEF a, b
<1>3. a + 1 \in 1..(Len(s) + 1)
  BY <1>1
<1>4. /\ Timed(q) /\ Len(q) = IF a + 1 <= b THEN b - (a + 1) + 1 ELSE 0
      /\ \A i \in 1..Len(q) : (a + 1) + i - 1 \in (a + 1)..b /\ q[i] = s[(a + 1) + i - 1]
  BY <1>1, <1>3, TimedSub
<1> HIDE DEF q
<1>5. Len(q) = IF a < b THEN b - a ELSE 0
  BY <1>1, <1>4
<1>6. ASSUME NEW i \in 1..Len(q)
      PROVE  /\ a + i \in 1..Len(s) /\ q[i] = s[a + i]
             /\ from <= q[i].time /\ q[i].time < to
  <2>1. (a + 1) + i - 1 = a + i /\ a + i \in (a + 1)..b /\ a + i \in 1..Len(s)
    BY <1>1, <1>4
  <2>2. q[i] = s[a + i] /\ ~ (a + i <= a) /\ a + i <= b
    BY <1>1, <1>4, <2>1
  <2> QED
    BY <1>1, <2>1, <2>2
<1> QED
  BY <1>2, <1>4, <1>5, <1>6 DEF a, b

-----------------------------------------------------------------------------
\* Sequences with the same elements at the same positions are the same.
LEMMA SameSequence ==
  ASSUME NEW s, NEW t, Timed(s), Timed(t), Len(s) = Len(t),
         \A i \in 1..Len(s) : s[i] = t[i]
  PROVE  s = t
<1> DEFINE X == Range(s) \cup Range(t)
<1>1. Len(s) \in Nat /\ s \in [1..Len(s) -> X] /\ t \in [1..Len(t) -> X]
  BY TimedShape
<1> HIDE DEF X
<1> QED
  BY <1>1

\* The empty sequence is in the order of time.
LEMMA EmptyTimed == Timed(<<>>) /\ Len(<<>>) = 0
BY DEF Timed

\* Only the empty sequence has no elements.
LEMMA EmptyIs ==
  ASSUME NEW s, Timed(s)
  PROVE  s = <<>> <=> Len(s) = 0
<1>1. Len(s) = 0 => s = <<>>
  BY EmptyTimed, SameSequence, TimedShape
<1> QED
  BY <1>1

\* Two adjacent parts of a sequence make one.
LEMMA JoinParts ==
  ASSUME NEW s, Timed(s), NEW a \in 0..Len(s), NEW b \in 0..Len(s), NEW c \in 0..Len(s),
         a <= b, b <= c
  PROVE  SubSeq(s, a + 1, b) \o SubSeq(s, b + 1, c) = SubSeq(s, a + 1, c)
<1> DEFINE p == SubSeq(s, a + 1, b)
           q == SubSeq(s, b + 1, c)
           r == SubSeq(s, a + 1, c)
<1>1. Len(s) \in Nat /\ a + 1 \in 1..(Len(s) + 1) /\ b + 1 \in 1..(Len(s) + 1)
  BY TimedShape
<1>2. /\ Timed(p) /\ Len(p) = b - a
      /\ \A i \in 1..Len(p) : a + i \in 1..Len(s) /\ a + i <= b /\ p[i] = s[a + i]
  <2> HIDE DEF p
  <2>1. /\ Timed(p) /\ Len(p) = IF a + 1 <= b THEN b - (a + 1) + 1 ELSE 0
        /\ \A i \in 1..Len(p) : (a + 1) + i - 1 \in (a + 1)..b /\ p[i] = s[(a + 1) + i - 1]
    BY <1>1, TimedSub DEF p
  <2>2. \A i \in 1..Len(p) : (a + 1) + i - 1 = a + i
    BY <1>1, <2>1
  <2> QED
    BY <1>1, <2>1, <2>2
<1>3. /\ Timed(q) /\ Len(q) = c - b
      /\ \A i \in 1..Len(q) : b + i \in 1..Len(s) /\ b + i > b /\ q[i] = s[b + i]
  <2> HIDE DEF q
  <2>1. /\ Timed(q) /\ Len(q) = IF b + 1 <= c THEN c - (b + 1) + 1 ELSE 0
        /\ \A i \in 1..Len(q) : (b + 1) + i - 1 \in (b + 1)..c /\ q[i] = s[(b + 1) + i - 1]
    BY <1>1, TimedSub DEF q
  <2>2. \A i \in 1..Len(q) : (b + 1) + i - 1 = b + i
    BY <1>1, <2>1
  <2> QED
    BY <1>1, <2>1, <2>2
<1>4. /\ Timed(r) /\ Len(r) = c - a
      /\ \A i \in 1..Len(r) : r[i] = s[a + i]
  <2> HIDE DEF r
  <2>1. /\ Timed(r) /\ Len(r) = IF a + 1 <= c THEN c - (a + 1) + 1 ELSE 0
        /\ \A i \in 1..Len(r) : r[i] = s[(a + 1) + i - 1]
    BY <1>1, TimedSub DEF r
  <2>2. \A i \in 1..Len(r) : (a + 1) + i - 1 = a + i
    BY <1>1, <2>1
  <2> QED
    BY <1>1, <2>1, <2>2
<1> HIDE DEF p, q, r
<1>5. \A i \in 1..Len(p), j \in 1..Len(q) : p[i].time <= q[j].time
  <2> TAKE i \in 1..Len(p), j \in 1..Len(q)
  <2>1. a + i \in 1..Len(s) /\ b + j \in 1..Len(s) /\ a + i <= b + j
    BY <1>1, <1>2, <1>3
  <2>2. s[a + i].time <= s[b + j].time
    BY <2>1 DEF Timed
  <2> QED
    BY <1>2, <1>3, <2>2
<1>6. /\ Timed(p \o q) /\ Len(p \o q) = Len(p) + Len(q)
      /\ \A i \in 1..Len(p) : (p \o q)[i] = p[i]
      /\ \A i \in 1..Len(q) : (p \o q)[Len(p) + i] = q[i]
  BY <1>2, <1>3, <1>5, TimedConcat, SMTT(30)
<1>7. \A i \in 1..Len(r) : (p \o q)[i] = r[i]
  <2> TAKE i \in 1..Len(r)
  <2>1. CASE i \in 1..Len(p)
    BY <1>2, <1>4, <1>6, <2>1
  <2>2. CASE i \notin 1..Len(p)
    <3>1. i - Len(p) \in 1..Len(q) /\ Len(p) + (i - Len(p)) = i /\ b + (i - Len(p)) = a + i
      BY <1>1, <1>2, <1>3, <1>4, <2>2
    <3> DEFINE k == i - Len(p)
    <3>2. k \in 1..Len(q) /\ Len(p) + k = i /\ b + k = a + i
      BY <3>1
    <3> HIDE DEF k
    <3>3. (p \o q)[i] = q[k] /\ q[k] = s[b + k]
      BY <1>3, <1>6, <3>2
    <3> QED
      BY <1>4, <3>2, <3>3
  <2> QED
    BY <2>1, <2>2
<1>8. Len(p \o q) = Len(r)
  BY <1>1, <1>2, <1>3, <1>4, <1>6
<1>9. p \o q = r
  BY <1>4, <1>6, <1>7, <1>8, SameSequence
<1> QED
  BY <1>9 DEF p, q, r

\* The parts that a lookback returns are consecutive.
LEMMA PartIs ==
  ASSUME NEW s, Timed(s), NEW a \in 0..Len(s), NEW b \in 0..Len(s), a <= b
  PROVE  LET p == SubSeq(s, a + 1, b)
         IN  /\ Timed(p) /\ Len(p) = b - a /\ (p = <<>> <=> a = b)
             /\ \A i \in 1..Len(p) : a + i \in 1..Len(s) /\ p[i] = s[a + i]
<1> DEFINE p == SubSeq(s, a + 1, b)
<1>1. Len(s) \in Nat /\ a + 1 \in 1..(Len(s) + 1)
  BY TimedShape
<1>2. /\ Timed(p) /\ Len(p) = IF a + 1 <= b THEN b - (a + 1) + 1 ELSE 0
      /\ \A i \in 1..Len(p) : (a + 1) + i - 1 \in (a + 1)..b /\ p[i] = s[(a + 1) + i - 1]
  BY <1>1, TimedSub
<1> HIDE DEF p
<1>3. Len(p) = b - a
  BY <1>1, <1>2
<1>4. \A i \in 1..Len(p) : (a + 1) + i - 1 = a + i /\ a + i \in 1..Len(s)
  BY <1>1, <1>2
<1>5. p = <<>> <=> a = b
  BY <1>1, <1>2, <1>3, EmptyIs
<1> QED
  BY <1>2, <1>3, <1>4, <1>5 DEF p

PartAt(p, s, a, b) ==
  /\ Timed(p) /\ Len(p) = b - a /\ (p = <<>> <=> a = b)
  /\ \A i \in 1..Len(p) : a + i \in 1..Len(s) /\ p[i] = s[a + i]

\* A part of a sequence, by its two ends.
LEMMA PartShape ==
  ASSUME NEW s, Timed(s), NEW a \in 0..Len(s), NEW b \in 0..Len(s), a <= b
  PROVE  PartAt(SubSeq(s, a + 1, b), s, a, b)
<1> DEFINE p == SubSeq(s, a + 1, b)
<1>1. /\ Timed(p) /\ Len(p) = b - a /\ (p = <<>> <=> a = b)
      /\ \A i \in 1..Len(p) : a + i \in 1..Len(s) /\ p[i] = s[a + i]
  BY PartIs, ZenonT(40)
<1> HIDE DEF p
<1>2. PartAt(p, s, a, b)
  BY <1>1 DEF PartAt
<1> QED
  BY <1>2 DEF p

-----------------------------------------------------------------------------
\* The lookback, one range after another.
LooksBack(rec, tags, start, end, steps, result) ==
  \E g : /\ g[0] = [collected |-> GetHistories(rec, tags, start, end), missing |-> tags]
         /\ \A i \in 1..Len(steps) : g[i] = LookBack(rec, steps, start, g[i - 1], i)
         /\ result = [tag \in tags |-> PreviousAndRange(g[Len(steps)].collected[tag], start)]

-----------------------------------------------------------------------------
\* The state of the lookback for one TAG: it holds the readings s[a + 1 .. z], and is
\* missing as long as no reading before start was found.
Holds(c, tag, s, a, e, z, low) ==
  /\ a \in low..e
  /\ c.collected[tag] = SubSeq(s, a + 1, z)
  /\ tag \in c.missing <=> a = e
  /\ tag \in c.missing => low = e

\* One round of the lookback adds what lies between two steps, if the TAG needs it.
LEMMA LookBackStep ==
  ASSUME NEW rec, NEW tags, NEW start \in Int, NEW steps,
         NEW i \in Nat \ {0}, NEW near \in Int, NEW far \in Int,
         far = start - steps[i], near = start - (IF i = 1 THEN 0 ELSE steps[i - 1]),
         far <= near, near <= start,
         NEW c, NEW tag \in DOMAIN c.collected, Timed(rec[tag]),
         NEW z, z \in Earlier(rec[tag], start)..Len(rec[tag]),
         NEW a, Holds(c, tag, rec[tag], a, Earlier(rec[tag], start), z, Earlier(rec[tag], near))
  PROVE  \E b : Holds(LookBack(rec, steps, start, c, i), tag, rec[tag], b,
                      Earlier(rec[tag], start), z, Earlier(rec[tag], far))
<1> DEFINE s == rec[tag]
           e == Earlier(s, start)
           x == Earlier(s, far)
           d == LookBack(rec, steps, start, c, i)
           part == SubSeq(s, x + 1, e)
<1>1. /\ Len(s) \in Nat /\ e \in 0..Len(s) /\ x \in 0..e /\ z \in e..Len(s)
      /\ Earlier(s, near) \in 0..Len(s) /\ x <= Earlier(s, near)
  <2>1. Len(s) \in Nat /\ e \in 0..Len(s) /\ x \in 0..Len(s) /\ Earlier(s, near) \in 0..Len(s)
    BY EarlierIs, TimedShape
  <2>2. x <= e /\ x <= Earlier(s, near)
    BY EarlierMonotone
  <2> QED
    BY <2>1, <2>2
<1>2. CASE tag \notin c.missing
  <2>1. d.collected[tag] = <<>> \o c.collected[tag] /\ tag \notin d.missing
    BY <1>2 DEF LookBack
  <2>2. c.collected[tag] = SubSeq(s, a + 1, z) /\ a \in Earlier(s, near)..e /\ a # e
    BY <1>2 DEF Holds
  <2>3. a \in 0..Len(s) /\ a <= z /\ a \in x..e
    BY <1>1, <2>2
  <2>4. Timed(SubSeq(s, a + 1, z))
    BY <1>1, <2>3, PartIs
  <2>5. <<>> \o SubSeq(s, a + 1, z) = SubSeq(s, a + 1, z)
    <3> DEFINE q == SubSeq(s, a + 1, z)
    <3>1. q \in Seq(Range(q))
      BY <2>4 DEF Timed
    <3> HIDE DEF q
    <3>2. <<>> \o q = q
      BY <3>1
    <3> QED
      BY <3>2 DEF q
  <2> QED
    BY <2>1, <2>2, <2>3, <2>5 DEF Holds
<1>3. CASE tag \in c.missing
  <2>1. a = e /\ Earlier(s, near) = e /\ c.collected[tag] = SubSeq(s, e + 1, z)
    BY <1>3 DEF Holds
  <2>2. GetHistory(s, far, near) = part
    BY <2>1 DEF GetHistory, Between
  <2>3. /\ d.collected[tag] = part \o c.collected[tag]
        /\ tag \in d.missing <=> part = <<>>
    <3>1. GetHistories(rec, c.missing, far, near)[tag] = part
      BY <1>3, <2>2 DEF GetHistories
    <3> HIDE DEF part
    <3> QED
      BY <1>3, <3>1 DEF LookBack
  <2>4. part \o SubSeq(s, e + 1, z) = SubSeq(s, x + 1, z)
    <3>1. x \in 0..Len(s) /\ e \in 0..Len(s) /\ z \in 0..Len(s) /\ x <= e /\ e <= z
      BY <1>1
    <3> HIDE DEF x, e
    <3> QED
      BY <3>1, JoinParts
  <2>5. part = <<>> <=> x = e
    <3>1. Timed(s) /\ x \in 0..Len(s) /\ e \in 0..Len(s) /\ x <= e
      BY <1>1
    <3> HIDE DEF s, x, e
    <3>2. Timed(part) /\ Len(part) = e - x
      BY <3>1, PartIs
    <3>3. Len(s) \in Nat
      BY <1>1
    <3> HIDE DEF part
    <3>4. part = <<>> <=> Len(part) = 0
      BY <3>2, EmptyIs
    <3> QED
      BY <3>1, <3>2, <3>3, <3>4
  <2>6. x \in x..e
    BY <1>1
  <2> QED
    BY <2>1, <2>3, <2>4, <2>5, <2>6 DEF Holds
<1> QED
  BY <1>2, <1>3

\* What a rule sees of a TAG: the last reading before start within the lookback, if
\* there is one, and those of the range.
Seen(s, start, end, back) ==
  (IF Between(s, start - back, start) = <<>> THEN <<>>
   ELSE <<Last(Between(s, start - back, start))>>) \o Between(s, start, end)

\* The same as a part of what is recorded.
LEMMA SeenIs ==
  ASSUME NEW s, Timed(s), NEW start \in Int, NEW end \in Int, start <= end,
         NEW back \in Nat
  PROVE  LET e == Earlier(s, start)
             x == Earlier(s, start - back)
         IN  Seen(s, start, end, back)
               = SubSeq(s, IF x = e THEN e + 1 ELSE e, Earlier(s, end))
<1> DEFINE e == Earlier(s, start)
           x == Earlier(s, start - back)
           z == Earlier(s, end)
           p == SubSeq(s, x + 1, e)
<1>1. /\ Len(s) \in Nat /\ e \in 0..Len(s) /\ x \in 0..Len(s) /\ z \in 0..Len(s)
      /\ x <= e /\ e <= z
  <2>1. Len(s) \in Nat /\ e \in 0..Len(s) /\ x \in 0..Len(s) /\ z \in 0..Len(s)
    BY EarlierIs, TimedShape
  <2>2. x <= e /\ e <= z
    BY EarlierMonotone
  <2> QED
    BY <2>1, <2>2
<1>2. Between(s, start - back, start) = p /\ Between(s, start, end) = SubSeq(s, e + 1, z)
  BY DEF Between
<1> HIDE DEF e, x, z
<1>3. (p = <<>> <=> x = e) /\ Len(p) = e - x /\ \A i \in 1..Len(p) : p[i] = s[x + i]
  <2>1. /\ Timed(p) /\ Len(p) = e - x /\ (p = <<>> <=> x = e)
        /\ \A i \in 1..Len(p) : x + i \in 1..Len(s) /\ p[i] = s[x + i]
    BY <1>1, PartIs, ZenonT(40)
  <2> HIDE DEF p
  <2> QED
    BY <2>1
<1>4. CASE x = e
  <2>1. Timed(SubSeq(s, e + 1, z))
    BY <1>1, PartIs
  <2>2. <<>> \o SubSeq(s, e + 1, z) = SubSeq(s, e + 1, z)
    <3> DEFINE q == SubSeq(s, e + 1, z)
    <3>1. q \in Seq(Range(q))
      BY <2>1 DEF Timed
    <3> HIDE DEF q
    <3>2. <<>> \o q = q
      BY <3>1
    <3> QED
      BY <3>2 DEF q
  <2> QED
    BY <1>2, <1>3, <1>4, <2>2 DEF Seen, e, x, z
<1>5. CASE x # e
  <2>1. Last(p) = s[e]
    <3>1. Len(p) \in 1..Len(p) /\ x + Len(p) = e
      BY <1>1, <1>3, <1>5
    <3> HIDE DEF p
    <3> QED
      BY <1>3, <3>1 DEF Last
  <2>2. SubSeq(s, e, e) = <<s[e]>>
    <3> DEFINE u == e - 1
               q == SubSeq(s, u + 1, e)
    <3>1. u \in 0..Len(s) /\ u <= e /\ u + 1 = e /\ e - u = 1
      BY <1>1, <1>5
    <3> HIDE DEF u
    <3>2. Timed(q) /\ Len(q) = e - u /\ \A i \in 1..Len(q) : q[i] = s[u + i]
      BY <1>1, <3>1, PartIs
    <3> HIDE DEF q
    <3>3. Len(q) = 1 /\ q[1] = s[e] /\ q \in Seq(Range(q))
      BY <3>1, <3>2 DEF Timed
    <3>4. q = <<s[e]>>
      BY <3>3
    <3> QED
      BY <3>1, <3>4 DEF q
  <2>3. SubSeq(s, (e - 1) + 1, e) \o SubSeq(s, e + 1, z) = SubSeq(s, (e - 1) + 1, z)
    <3>1. e - 1 \in 0..Len(s) /\ e - 1 <= e
      BY <1>1, <1>5
    <3> QED
      BY <1>1, <3>1, JoinParts
  <2>4. (e - 1) + 1 = e
    BY <1>1
  <2> QED
    BY <1>2, <1>3, <1>5, <2>1, <2>2, <2>3, <2>4 DEF Seen, e, x, z
<1> QED
  BY <1>4, <1>5 DEF e, x, z

-----------------------------------------------------------------------------
\* Of what was collected, the last reading before start and those after are kept.
LEMMA PreviousIs ==
  ASSUME NEW s, Timed(s), NEW start \in Int, NEW z, NEW a,
         z \in Earlier(s, start)..Len(s), a \in 0..Earlier(s, start)
  PROVE  PreviousAndRange(SubSeq(s, a + 1, z), start)
           = SubSeq(s, IF a = Earlier(s, start) THEN Earlier(s, start) + 1
                       ELSE Earlier(s, start), z)
<1> DEFINE e == Earlier(s, start)
           q == SubSeq(s, a + 1, z)
           f == Earlier(q, start)
<1>1. /\ Len(s) \in Nat /\ e \in 0..Len(s) /\ z \in 0..Len(s) /\ a \in 0..Len(s)
      /\ a <= e /\ e <= z /\ a <= z
  <2>1. Len(s) \in Nat /\ e \in 0..Len(s)
    BY EarlierIs, TimedShape
  <2> HIDE DEF e
  <2>2. z \in e..Len(s) /\ a \in 0..e
    BY DEF e
  <2> QED
    BY <2>1, <2>2
<1>2. \A i \in 1..Len(s) : s[i].time < start <=> i <= e
  BY EarlierIs
<1>3. /\ Timed(q) /\ Len(q) = z - a
      /\ \A i \in 1..Len(q) : a + i \in 1..Len(s) /\ q[i] = s[a + i]
  BY <1>1, PartIs
<1> HIDE DEF e, q
<1>4. f \in 0..Len(q) /\ \A i \in 1..Len(q) : q[i].time < start <=> i <= f
  BY <1>3, EarlierIs
<1> HIDE DEF f
<1>5. f = e - a
  <2>1. \A i \in 1..Len(q) : i <= f <=> a + i <= e
    BY <1>2, <1>3, <1>4
  <2>2. e - a \in 0..Len(q)
    BY <1>1, <1>3
  <2>3. CASE f < e - a
    <3>1. f + 1 \in 1..Len(q) /\ a + (f + 1) <= e /\ ~ (f + 1 <= f)
      BY <1>1, <1>3, <1>4, <2>2, <2>3
    <3> QED
      BY <2>1, <3>1
  <2>4. CASE e - a < f
    <3>1. f \in 1..Len(q) /\ ~ (a + f <= e)
      BY <1>1, <1>3, <1>4, <2>2, <2>4
    <3> QED
      BY <1>4, <2>1, <3>1
  <2> QED
    BY <1>1, <1>4, <2>2, <2>3, <2>4
<1>6. /\ Timed(SubSeq(q, 1, f)) /\ Len(SubSeq(q, 1, f)) = IF 1 <= f THEN f - 1 + 1 ELSE 0
      /\ \A i \in 1..Len(SubSeq(q, 1, f)) : SubSeq(q, 1, f)[i] = q[1 + i - 1]
  <2>1. 1 \in 1..(Len(q) + 1)
    BY <1>1, <1>3, <1>4
  <2> QED
    BY <1>3, <1>4, <2>1, TimedSub
<1>7. /\ Timed(SubSeq(q, f + 1, Len(q))) /\ Len(SubSeq(q, f + 1, Len(q))) = Len(q) - f
      /\ \A i \in 1..Len(SubSeq(q, f + 1, Len(q))) : SubSeq(q, f + 1, Len(q))[i] = q[f + i]
  <2>1. Timed(q) /\ Len(q) \in 0..Len(q) /\ f \in 0..Len(q) /\ f <= Len(q)
    BY <1>1, <1>3, <1>4
  <2> DEFINE r == SubSeq(q, f + 1, Len(q))
  <2>2. PartAt(r, q, f, Len(q))
    BY <2>1, PartShape
  <2> HIDE DEF r
  <2>3. Timed(r) /\ Len(r) = Len(q) - f /\ \A i \in 1..Len(r) : r[i] = q[f + i]
    BY <2>2 DEF PartAt
  <2> QED
    BY <2>3 DEF r
<1>8. /\ Timed(SubSeq(s, e + 1, z)) /\ Len(SubSeq(s, e + 1, z)) = z - e
      /\ \A i \in 1..Len(SubSeq(s, e + 1, z)) : SubSeq(s, e + 1, z)[i] = s[e + i]
  <2> DEFINE r == SubSeq(s, e + 1, z)
  <2>1. PartAt(r, s, e, z)
    BY <1>1, PartShape
  <2> HIDE DEF r
  <2>2. Timed(r) /\ Len(r) = z - e /\ \A i \in 1..Len(r) : r[i] = s[e + i]
    BY <2>1 DEF PartAt
  <2> QED
    BY <2>2 DEF r
<1>9. SubSeq(q, f + 1, Len(q)) = SubSeq(s, e + 1, z)
  <2> DEFINE l == SubSeq(q, f + 1, Len(q))
             r == SubSeq(s, e + 1, z)
  <2>0. Timed(l) /\ Len(l) = Len(q) - f /\ \A i \in 1..Len(l) : l[i] = q[f + i]
    BY <1>7
  <2> HIDE DEF l, r
  <2>1. Timed(l) /\ Len(l) = z - e /\ \A i \in 1..Len(l) : l[i] = q[f + i]
    BY <1>1, <1>3, <1>5, <2>0
  <2>2. Timed(r) /\ Len(r) = z - e /\ \A i \in 1..Len(r) : r[i] = s[e + i]
    BY <1>8 DEF r
  <2>3. ASSUME NEW i \in 1..Len(l) PROVE l[i] = r[i]
    <3>1. f + i \in 1..Len(q) /\ a + (f + i) = e + i
      BY <1>1, <1>3, <1>5, <2>1
    <3>2. q[f + i] = s[a + (f + i)]
      BY <1>3, <3>1
    <3> QED
      BY <2>1, <2>2, <3>1, <3>2
  <2>4. l = r
    BY <2>1, <2>2, <2>3, SameSequence
  <2> QED
    BY <2>4 DEF l, r
<1> DEFINE before == SubSeq(q, 1, f)
           rest == SubSeq(s, e + 1, z)
<1> HIDE DEF before, rest
<1>10. PreviousAndRange(q, start) = (IF before = <<>> THEN <<>> ELSE <<Last(before)>>) \o rest
  <2>2. before = SubSeq(q, 1, Earlier(q, start))
    BY DEF before, f
  <2>3. rest = SubSeq(q, Earlier(q, start) + 1, Len(q))
    BY <1>9 DEF rest, f
  <2> QED
    BY <2>2, <2>3, Zenon DEF PreviousAndRange
<1>11. Timed(before) /\ Len(before) = f /\ \A i \in 1..Len(before) : before[i] = q[i]
  <2>1. Len(before) = f /\ \A i \in 1..f : 1 + i - 1 = i
    BY <1>3, <1>4, <1>6 DEF before
  <2> QED
    BY <1>4, <1>6, <2>1 DEF before
<1>12. before = <<>> <=> f = 0
  BY <1>11, EmptyIs
<1>13. Timed(rest) /\ rest \in Seq(Range(rest))
  BY <1>8 DEF rest, Timed
<1>14. CASE a = e
  <2>1. before = <<>>
    BY <1>1, <1>5, <1>12, <1>14
  <2>2. <<>> \o rest = rest
    BY <1>13
  <2> QED
    BY <1>10, <1>14, <2>1, <2>2 DEF rest, e, q
<1>15. CASE a # e
  <2> DEFINE u == e - 1
             one == SubSeq(s, u + 1, e)
  <2>1. u \in 0..Len(s) /\ u <= e /\ u + 1 = e /\ e - u = 1 /\ f \in 1..Len(q) /\ a + f = e
    BY <1>1, <1>3, <1>5, <1>15
  <2> HIDE DEF u
  <2>2. Last(before) = s[e] /\ before # <<>>
    <3>1. f \in 1..Len(before) /\ f # 0
      BY <1>11, <2>1
    <3>2. before[Len(before)] = s[e]
      BY <1>3, <1>11, <2>1, <3>1
    <3> QED
      BY <1>12, <3>1, <3>2 DEF Last
  <2>3. Timed(one) /\ Len(one) = e - u /\ \A i \in 1..Len(one) : one[i] = s[u + i]
    BY <1>1, <2>1, PartIs
  <2>4. one \o rest = SubSeq(s, u + 1, z)
    BY <1>1, <2>1, JoinParts DEF rest
  <2> HIDE DEF one
  <2>5. one = <<s[e]>>
    <3>1. Len(one) = 1 /\ one[1] = s[e] /\ one \in Seq(Range(one))
      BY <2>1, <2>3 DEF Timed
    <3> QED
      BY <3>1
  <2> QED
    BY <1>10, <1>15, <2>1, <2>2, <2>4, <2>5 DEF e, q
<1> QED
  BY <1>14, <1>15 DEF e, q

AllSeen(rec, tags, start, end, back) == [tag \in tags |-> Seen(rec[tag], start, end, back)]

\* After all rounds each TAG has its last reading within the longest lookback, and the range.
LEMMA WithPreviousIs ==
  ASSUME NEW rec, NEW tags, \A tag \in tags : Timed(rec[tag]),
         NEW start \in Int, NEW end \in Int, start <= end,
         NEW steps, steps \in Seq(Nat \ {0}), steps # <<>>,
         \A i, j \in 1..Len(steps) : i < j => steps[i] < steps[j],
         NEW result, LooksBack(rec, tags, start, end, steps, result)
  PROVE  result = AllSeen(rec, tags, start, end, Last(steps))
<1> DEFINE N == Len(steps)
           D(i) == start - (IF i = 0 THEN 0 ELSE steps[i])
<1>1. N \in Nat \ {0} /\ \A i \in 1..N : steps[i] \in Nat \ {0}
  OBVIOUS
<1>2. PICK g : /\ g[0] = [collected |-> GetHistories(rec, tags, start, end), missing |-> tags]
               /\ \A i \in 1..Len(steps) : g[i] = LookBack(rec, steps, start, g[i - 1], i)
               /\ result = [tag \in tags |->
                             PreviousAndRange(g[Len(steps)].collected[tag], start)]
  BY DEF LooksBack
<1>3. \A i \in 0..N : D(i) \in Int /\ D(i) <= start
  BY <1>1
<1>4. \A i \in 1..N : D(i) <= D(i - 1)
  <2> TAKE i \in 1..N
  <2>1. CASE i = 1
    BY <1>1, <2>1
  <2>2. CASE i # 1
    <3>1. i - 1 \in 1..N /\ i - 1 < i
      BY <1>1, <2>2
    <3>2. steps[i - 1] < steps[i] /\ steps[i - 1] \in Nat /\ steps[i] \in Nat
      BY <1>1, <3>1
    <3> QED
      BY <1>1, <2>2, <3>1, <3>2
  <2> QED
    BY <2>1, <2>2
<1> DEFINE I(i) ==
      /\ DOMAIN g[i].collected = tags
      /\ \A tag \in tags :
           LET s == rec[tag]
           IN  \E a : Holds(g[i], tag, s, a, Earlier(s, start), Earlier(s, end),
                            Earlier(s, D(i)))
           T == {i \in Nat : i <= N => I(i)}
<1>5. 0 \in T
  <2>1. DOMAIN g[0].collected = tags /\ g[0].missing = tags
    BY <1>2 DEF GetHistories
  <2>2. ASSUME NEW tag \in tags
        PROVE  LET s == rec[tag]
                   e == Earlier(s, start)
               IN  Holds(g[0], tag, s, e, e, Earlier(s, end), Earlier(s, D(0)))
    <3> DEFINE s == rec[tag]
               e == Earlier(s, start)
    <3>1. e \in Nat /\ Earlier(s, D(0)) = e
      <4>1. D(0) = start
        OBVIOUS
      <4>2. Timed(s) /\ Len(s) \in Nat
        BY TimedShape
      <4>3. e \in 0..Len(s)
        BY <4>2, EarlierIs
      <4> HIDE DEF D
      <4> QED
        BY <4>1, <4>2, <4>3
    <3>2. g[0].collected[tag] = SubSeq(s, e + 1, Earlier(s, end))
      <4>1. g[0].collected = GetHistories(rec, tags, start, end)
        BY <1>2
      <4>2. g[0].collected[tag] = GetHistory(s, start, end)
        BY <4>1 DEF GetHistories
      <4> QED
        BY <4>2 DEF GetHistory, Between
    <3> HIDE DEF D
    <3> QED
      BY <2>1, <3>1, <3>2 DEF Holds
  <2>3. I(0)
    <3> HIDE DEF D
    <3> QED
      BY <2>1, <2>2
  <2> HIDE DEF I
  <2> QED
    BY <2>3
<1>6. ASSUME NEW i \in Nat, i \in T PROVE i + 1 \in T
  <2> SUFFICES ASSUME i + 1 <= N PROVE I(i + 1)
    OBVIOUS
  <2> DEFINE k == i + 1
  <2>1. I(i) /\ k \in 1..N /\ k - 1 = i /\ k \in Nat \ {0}
    BY <1>1, <1>6
  <2>2. /\ D(k) \in Int /\ D(i) \in Int /\ D(k) <= D(i) /\ D(i) <= start
        /\ D(k) = start - steps[k] /\ D(i) = start - (IF k = 1 THEN 0 ELSE steps[k - 1])
    BY <1>1, <1>3, <1>4, <2>1
  <2> HIDE DEF D, k
  <2>3. g[k] = LookBack(rec, steps, start, g[i], k)
    BY <1>2, <2>1
  <2>4. DOMAIN g[k].collected = tags
    BY <2>1, <2>3 DEF LookBack
  <2>5. ASSUME NEW tag \in tags
        PROVE  LET s == rec[tag]
               IN  \E a : Holds(g[k], tag, s, a, Earlier(s, start), Earlier(s, end),
                                Earlier(s, D(k)))
    <3> DEFINE s == rec[tag]
               e == Earlier(s, start)
    <3>1. PICK a : Holds(g[i], tag, s, a, e, Earlier(s, end), Earlier(s, D(i)))
      BY <2>1
    <3>2. Timed(s) /\ Earlier(s, end) \in e..Len(s) /\ tag \in DOMAIN g[i].collected
      <4>1. /\ Timed(s) /\ Len(s) \in Nat /\ e \in 0..Len(s) /\ Earlier(s, end) \in 0..Len(s)
            /\ e <= Earlier(s, end)
        BY EarlierIs, EarlierMonotone, TimedShape
      <4> QED
        BY <2>1, <4>1
    <3> DEFINE c == g[i]
               far == D(k)
               near == D(i)
               z == Earlier(s, end)
    <3>3. /\ i + 1 \in Nat \ {0} /\ near \in Int /\ far \in Int /\ far <= near /\ near <= start
          /\ far = start - steps[k] /\ near = start - (IF k = 1 THEN 0 ELSE steps[k - 1])
          /\ tag \in DOMAIN c.collected /\ Timed(rec[tag])
          /\ z \in Earlier(rec[tag], start)..Len(rec[tag])
          /\ k \in Nat \ {0}
      BY <2>1, <2>2, <3>2
    <3>4. Holds(c, tag, rec[tag], a, Earlier(rec[tag], start), z, Earlier(rec[tag], near))
      BY <3>1
    <3> HIDE DEF c, far, near, z, s, e
    <3>5. \E b : Holds(LookBack(rec, steps, start, c, k), tag, rec[tag], b,
                       Earlier(rec[tag], start), z, Earlier(rec[tag], far))
      BY ONLY start \in Int, <3>3, <3>4, LookBackStep
    <3> QED
      BY <2>3, <3>5 DEF c, far, z, s, e
  <2> QED
    BY <2>4, <2>5 DEF k
<1> HIDE DEF T
<1>7. Nat \subseteq T
  BY <1>5, <1>6, SetInduction
<1>8. I(N)
  BY <1>1, <1>7 DEF T
<1>9. D(N) = start - Last(steps) /\ Last(steps) \in Nat
  BY <1>1 DEF Last
<1> HIDE DEF D
<1>10. ASSUME NEW tag \in tags
       PROVE  PreviousAndRange(g[N].collected[tag], start)
                = Seen(rec[tag], start, end, Last(steps))
  <2> DEFINE s == rec[tag]
             e == Earlier(s, start)
             x == Earlier(s, start - Last(steps))
             z == Earlier(s, end)
  <2>1. PICK a : Holds(g[N], tag, s, a, e, z, x)
    BY <1>8, <1>9
  <2>2. /\ Timed(s) /\ Len(s) \in Nat /\ e \in 0..Len(s) /\ x \in 0..Len(s)
        /\ z \in 0..Len(s) /\ x <= e /\ e <= z
    <3>1. Timed(s) /\ Len(s) \in Nat /\ start - Last(steps) <= start
      BY <1>9, TimedShape
    <3>2. e \in 0..Len(s) /\ x \in 0..Len(s) /\ z \in 0..Len(s)
      BY <1>9, <3>1, EarlierIs
    <3>3. x <= e /\ e <= z
      BY <1>9, <3>1, EarlierMonotone
    <3> QED
      BY <3>1, <3>2, <3>3
  <2>3. z \in e..Len(s) /\ a \in 0..e /\ a \in x..e
    BY <2>1, <2>2 DEF Holds
  <2>4. PreviousAndRange(SubSeq(s, a + 1, z), start)
          = SubSeq(s, IF a = e THEN e + 1 ELSE e, z)
    BY <2>2, <2>3, PreviousIs
  <2>5. Seen(s, start, end, Last(steps)) = SubSeq(s, IF x = e THEN e + 1 ELSE e, z)
    BY <1>9, <2>2, SeenIs
  <2>6. a = e <=> x = e
    BY <2>1, <2>2, <2>3 DEF Holds
  <2>7. g[N].collected[tag] = SubSeq(s, a + 1, z)
    BY <2>1 DEF Holds
  <2> HIDE DEF s, e, x, z
  <2> QED
    BY <2>4, <2>5, <2>6, <2>7 DEF s
<1> QED
  BY <1>2, <1>10 DEF AllSeen

-----------------------------------------------------------------------------
Value == [value : Int, good : BOOLEAN]
Sample == [time : Nat \ {0}, value : Int, good : BOOLEAN]

HistoryInv ==
  /\ rule \in Rules
  /\ now \in Nat \ {0} /\ Began <= now
  /\ DOMAIN recorded = Tags(rule)
  /\ \A tag \in DOMAIN recorded :
       /\ recorded[tag] \in Seq(Sample)
       /\ Timed(recorded[tag])
       /\ \A i \in 1..Len(recorded[tag]) : /\ Began <= recorded[tag][i].time
                                            /\ recorded[tag][i].time < now

\* What is recorded in one unit of time.
Added(reading) ==
  [i \in DOMAIN reading |-> [time |-> now, value |-> reading[i].value, good |-> reading[i].good]]

\* What the historian adds at a time is in the order of time.
LEMMA AddedIs ==
  ASSUME NEW reading \in Seq(Value), now \in Nat \ {0}
  PROVE  /\ Added(reading) \in Seq(Sample) /\ Timed(Added(reading))
         /\ \A i \in 1..Len(Added(reading)) : Added(reading)[i].time = now
<1> DEFINE n == Len(reading)
           s == Added(reading)
<1>1. /\ n \in Nat /\ DOMAIN reading = 1..n
      /\ \A i \in 1..n : reading[i].value \in Int /\ reading[i].good \in BOOLEAN
  <2>1. n \in Nat /\ DOMAIN reading = 1..n /\ \A i \in 1..n : reading[i] \in Value
    OBVIOUS
  <2> QED
    BY <2>1 DEF Value
<1>2. s \in [1..n -> Sample] /\ \A i \in 1..n : s[i].time = now
  BY <1>1 DEF Added, Sample
<1> HIDE DEF s, n
<1>3. s \in Seq(Sample) /\ Len(s) = n
  BY <1>1, <1>2
<1>4. DOMAIN s = 1..n /\ s = [i \in 1..n |-> s[i]]
  BY <1>2
<1>5. Timed(s)
  <2>1. \A i \in 1..n : s[i].time \in Nat \ {0}
    BY <1>2
  <2>2. \A i, j \in 1..n : i <= j => s[i].time <= s[j].time
    BY <1>2
  <2>3. n \in Nat
    BY <1>1 DEF n
  <2> QED
    BY ONLY <1>4, <2>1, <2>2, <2>3, MakeTimed
<1> QED
  BY <1>2, <1>3, <1>5 DEF s

\* Recording keeps the history in order.
LEMMA HistoryStep ==
  ASSUME HistoryInv, [Next]_vars
  PROVE  HistoryInv'
<1>1. CASE UNCHANGED vars
  BY <1>1 DEF vars, HistoryInv, Tags
<1>2. CASE Next
  <2>1. PICK reading \in Reading[rule] :
          recorded' = [tag \in DOMAIN recorded |-> recorded[tag] \o Added(reading[tag])]
    BY <1>2, ZenonT(40) DEF Next, Record, Added
  <2>2. now' = now + 1 /\ rule' = rule /\ now \in Nat \ {0} /\ Began <= now /\ rule \in Rules
        /\ DOMAIN recorded = Tags(rule)
    BY <1>2 DEF Next, Record, HistoryInv
  <2>3. DOMAIN reading = Tags(rule)
    BY <2>2, ReadingAssumption DEF Tags
  <2>4. ASSUME NEW tag \in DOMAIN recorded
        PROVE  /\ recorded'[tag] \in Seq(Sample)
               /\ Timed(recorded'[tag])
               /\ \A i \in 1..Len(recorded'[tag]) : /\ Began <= recorded'[tag][i].time
                                                     /\ recorded'[tag][i].time < now'
    <3> DEFINE s == recorded[tag]
               t == Added(reading[tag])
    <3>1. reading[tag] \in Seq(Value)
      BY <2>2, <2>3, ReadingAssumption DEF Value
    <3>2. t \in Seq(Sample) /\ Timed(t) /\ \A i \in 1..Len(t) : t[i].time = now
      BY <2>2, <3>1, AddedIs
    <3>3. /\ s \in Seq(Sample) /\ Timed(s)
          /\ \A i \in 1..Len(s) : Began <= s[i].time /\ s[i].time < now
      BY DEF HistoryInv
    <3>4. recorded'[tag] = s \o t
      BY <2>1
    <3> HIDE DEF s, t
    <3>5. \A i \in 1..Len(s) : s[i].time \in Nat
      BY <3>3 DEF Timed
    <3>6. \A i \in 1..Len(s), j \in 1..Len(t) : s[i].time <= t[j].time
      BY <2>2, <3>2, <3>3, <3>5
    <3>7. /\ Timed(s \o t) /\ Len(s \o t) = Len(s) + Len(t)
          /\ \A i \in 1..Len(s) : (s \o t)[i] = s[i]
          /\ \A i \in 1..Len(t) : (s \o t)[Len(s) + i] = t[i]
      BY <3>2, <3>3, <3>6, TimedConcat
    <3>8. s \o t \in Seq(Sample)
      BY <3>2, <3>3
    <3>9. ASSUME NEW i \in 1..Len(s \o t)
          PROVE  Began <= (s \o t)[i].time /\ (s \o t)[i].time < now + 1
      <4>0. Len(s) \in Nat /\ Len(t) \in Nat
        BY <3>2, <3>3, TimedShape
      <4>1. CASE i \in 1..Len(s)
        BY <2>2, <3>3, <3>5, <3>7, <4>1
      <4>2. CASE i \notin 1..Len(s)
        <5> DEFINE j == i - Len(s)
        <5>1. j \in 1..Len(t) /\ Len(s) + j = i
          BY <3>7, <4>0, <4>2
        <5> HIDE DEF j
        <5>2. (s \o t)[i].time = now
          BY <3>2, <3>7, <5>1
        <5> QED
          BY <2>2, <5>2
      <4> QED
        BY <4>1, <4>2
    <3> QED
      BY <2>2, <3>4, <3>7, <3>8, <3>9
  <2>5. DOMAIN recorded' = DOMAIN recorded /\ Tags(rule)' = Tags(rule)
    BY <2>1, <2>2 DEF Tags
  <2> QED
    BY <2>2, BeganAssumption, <2>4, <2>5, SMTT(30) DEF HistoryInv
<1> QED
  BY <1>1, <1>2

\* What the historian records is in the order of time, from its beginning until now.
THEOREM HistoryOrdered == Spec => []HistoryInv
<1>1. Init => HistoryInv
  <2> SUFFICES ASSUME Init PROVE HistoryInv
    OBVIOUS
  <2>1. \A tag \in DOMAIN recorded : recorded[tag] = <<>>
    BY DEF Init
  <2>2. <<>> \in Seq(Sample) /\ Timed(<<>>) /\ Len(<<>>) = 0
    BY EmptyTimed
  <2> QED
    BY <2>1, <2>2, BeganAssumption DEF Init, HistoryInv
<1>2. HistoryInv /\ [Next]_vars => HistoryInv'
  BY HistoryStep
<1> QED
  BY <1>1, <1>2, PTL DEF Spec

-----------------------------------------------------------------------------
\* Context reads ranges as the module it is an instance of.
LEMMA SameContext ==
  \A s, from, to : Context!GetHistory(s, from, to) = Between(s, from, to)
BY DEF Between, Earlier, Cardinality, Context!GetHistory, Context!Between, Context!Earlier,
       Context!Cardinality

\* The lookback of the helpers as the rules call them.
LEMMA SameContextLookBack ==
  /\ \A r, tags, from, to :
       Context!GetHistories(r, tags, from, to) = GetHistories(r, tags, from, to)
  /\ \A r, steps, start, c, i :
       Context!LookBack(r, steps, start, c, i) = LookBack(r, steps, start, c, i)
  /\ \A s, start : Context!PreviousAndRange(s, start) = PreviousAndRange(s, start)
<1>1. \A r, tags, from, to :
        Context!GetHistories(r, tags, from, to) = GetHistories(r, tags, from, to)
  BY DEF GetHistories, GetHistory, Between, Earlier, Cardinality, Context!GetHistories,
         Context!GetHistory, Context!Between, Context!Earlier, Context!Cardinality
<1>2. \A r, steps, start, c, i :
        Context!LookBack(r, steps, start, c, i) = LookBack(r, steps, start, c, i)
  BY DEF LookBack, GetHistories, GetHistory, Between, Earlier, Cardinality, Context!LookBack,
         Context!GetHistories, Context!GetHistory, Context!Between, Context!Earlier, Context!Cardinality
<1>3. \A s, start : Context!PreviousAndRange(s, start) = PreviousAndRange(s, start)
  BY DEF PreviousAndRange, Last, Earlier, Cardinality, Context!PreviousAndRange, Context!Last,
         Context!Earlier, Context!Cardinality
<1> QED
  BY <1>1, <1>2, <1>3

\* And its lookback is computed round by round.
LEMMA ContextLooksBack ==
  ASSUME NEW rec, NEW tags, NEW start, NEW end, NEW steps, Len(steps) \in Nat
  PROVE  LooksBack(rec, tags, start, end, steps,
                   Context!WithPreviousSamples(rec, tags, start, end, steps))
<1> DEFINE N == Len(steps)
           c == [collected |-> Context!GetHistories(rec, tags, start, end), missing |-> tags]
           E(x, i) == Context!LookBack(rec, steps, start, x, i)
           Is(g, n) == g = [i \in 0..n |-> IF i = 0 THEN c ELSE E(g[i - 1], i)]
           T == {n \in Nat : \E g : Is(g, n)}
<1> HIDE DEF c, E
<1>1. 0 \in T
  <2>1. Is([i \in 0..0 |-> c], 0)
    OBVIOUS
  <2> QED
    BY <2>1
<1>2. ASSUME NEW n \in Nat, n \in T PROVE n + 1 \in T
  <2>1. PICK g : Is(g, n)
    BY <1>2
  <2> DEFINE h == [i \in 0..(n + 1) |-> IF i = n + 1 THEN E(g[n], n + 1) ELSE g[i]]
  <2>2. \A i \in 0..(n + 1) : h[i] = IF i = 0 THEN c ELSE E(h[i - 1], i)
    <3> TAKE i \in 0..(n + 1)
    <3>1. CASE i = n + 1
      BY <3>1
    <3>2. CASE i # n + 1
      BY <2>1, <3>2
    <3> QED
      BY <3>1, <3>2
  <2>3. Is(h, n + 1)
    <3>1. h = [i \in 0..(n + 1) |-> h[i]]
      OBVIOUS
    <3> HIDE DEF h
    <3> QED
      BY <2>2, <3>1
  <2> HIDE DEF Is
  <2> QED
    BY <2>3
<1> HIDE DEF T
<1>3. Nat \subseteq T
  BY <1>1, <1>2, SetInduction
<1>4. \E g : Is(g, N)
  BY <1>3 DEF T
<1> DEFINE a == CHOOSE g : Is(g, N)
<1>5. Is(a, N)
  BY <1>4
<1>6. Context!WithPreviousSamples(rec, tags, start, end, steps)
        = [tag \in tags |-> Context!PreviousAndRange(a[N].collected[tag], start)]
  BY DEF Context!WithPreviousSamples, c, E
<1> HIDE DEF a
<1>7. a[0] = c /\ \A i \in 1..N : a[i] = E(a[i - 1], i)
  BY <1>5
<1>8. c = [collected |-> GetHistories(rec, tags, start, end), missing |-> tags]
  BY SameContextLookBack DEF c
<1>9. \A i \in 1..N : a[i] = LookBack(rec, steps, start, a[i - 1], i)
  BY <1>7, SameContextLookBack DEF E
<1> HIDE DEF c, E
<1>10. Context!WithPreviousSamples(rec, tags, start, end, steps)
         = [tag \in tags |-> PreviousAndRange(a[N].collected[tag], start)]
  BY <1>6, SameContextLookBack
<1> QED
  BY <1>7, <1>8, <1>9, <1>10 DEF LooksBack

\* The windows and the longest lookback are times.
LEMMA WindowIs ==
  ASSUME HistoryInv
  PROVE  /\ \A w \in Window : Start(w) \in Nat /\ End(w) \in Nat /\ Start(w) < End(w)
         /\ Last(Lookback) \in Nat
<1>1. First[rule] \in Nat /\ Length[rule] \in Nat \ {0}
  BY WindowAssumption DEF HistoryInv
<1>2. Start(1) = First[rule] /\ End(1) = First[rule] + Length[rule]
  BY <1>1 DEF Start, End
<1>3. Start(2) = First[rule] + Length[rule] /\ End(2) = First[rule] + 2 * Length[rule]
  BY <1>1 DEF Start, End
<1>4. \A w \in Window : w = 1 \/ w = 2
  BY DEF Window
<1>5. Last(Lookback) \in Nat
  BY LookbackAssumption DEF Last
<1> QED
  BY <1>1, <1>2, <1>3, <1>4, <1>5

\* LastBeforeIsFound holds for any history, any TAGs and any lookback.
THEOREM LastBeforeFound == Spec => []LastBeforeIsFound
<1>1. ASSUME HistoryInv PROVE LastBeforeIsFound
  <2> DEFINE from == Start(2)
             to == End(2)
             back == Last(Lookback)
             before(tag) == Context!GetHistory(recorded[tag], from - back, from)
             within(tag) == Context!GetHistory(recorded[tag], from, to)
  <2>1. from \in Nat /\ to \in Nat /\ from <= to /\ back \in Nat
    BY <1>1, WindowIs DEF Window
  <2>2. \A tag \in DOMAIN recorded : Timed(recorded[tag])
    BY <1>1 DEF HistoryInv
  <2> HIDE DEF from, to
  <2> DEFINE result ==
        Context!WithPreviousSamples(recorded, DOMAIN recorded, from, to, Lookback)
  <2>3. result = AllSeen(recorded, DOMAIN recorded, from, to, back)
    <3>1. LooksBack(recorded, DOMAIN recorded, from, to, Lookback, result)
      BY LookbackAssumption, ContextLooksBack
    <3> HIDE DEF result
    <3> QED
      BY <2>1, <2>2, <3>1, LookbackAssumption, WithPreviousIs
  <2>4. \A tag : Seen(recorded[tag], from, to, back)
                   = (IF before(tag) = <<>> THEN <<>> ELSE <<Last(before(tag))>>) \o within(tag)
    BY SameContext DEF Seen
  <2> HIDE DEF before, within
  <2>5. result
          = [tag \in DOMAIN recorded |->
               (IF before(tag) = <<>> THEN <<>> ELSE <<Last(before(tag))>>) \o within(tag)]
    BY <2>3, <2>4 DEF AllSeen
  <2> QED
    BY <2>5, SameContext DEF LastBeforeIsFound, before, within, from, to
<1> QED
  BY <1>1, HistoryOrdered, PTL

-----------------------------------------------------------------------------
\* The merged runs of Runs, by their first observations.
RunStarts(obs, gap) == {i \in DOMAIN obs : obs[i].dir # "none" /\ ~Continues(obs, gap, i)}
Within(obs, gap, i) ==
  {j \in i..Len(obs) : /\ obs[j].dir # "none"
                       /\ \A k \in RunStarts(obs, gap) : ~(i < k /\ k <= j)}
LastOf(obs, gap, i) ==
  CHOOSE j \in Within(obs, gap, i) : \A k \in Within(obs, gap, i) : k <= j
RunAt(obs, gap, i) == [first |-> i, last |-> LastOf(obs, gap, i)]

\* A merged run is given by where it starts.
LEMMA MergedRunsAre ==
  ASSUME NEW obs, NEW gap
  PROVE  MergedRuns(obs, gap) = {RunAt(obs, gap, i) : i \in RunStarts(obs, gap)}
BY DEF MergedRuns, RunStarts, Within, LastOf, RunAt

\* Of the first n observations, the last run begins at i and deviates last at l.
Current(obs, gap, n, i, l) ==
  /\ i \in RunStarts(obs, gap) /\ l \in i..n
  /\ obs[l].dir = obs[i].dir
  /\ \A k \in (i + 1)..n : k \notin RunStarts(obs, gap)
  /\ \A k \in (l + 1)..n : obs[k].dir = "none"

\* A deviation after n goes on with the run.
GoesOn(obs, gap, n, i, l) ==
  /\ obs[n + 1].dir = obs[i].dir
  /\ ~Broken(obs, l, n + 1)
  /\ l < n => obs[n + 1].time - obs[l + 1].time <= gap[obs[n + 1].dir]

IsLine(obs, N) == N \in Nat /\ Len(obs) = N /\ DOMAIN obs = 1..N

\* The first deviation starts a run.
LEMMA FirstDeviation ==
  ASSUME NEW obs, NEW gap, NEW N, IsLine(obs, N), NEW n \in 0..N, n < N,
         \A k \in 1..n : obs[k].dir = "none", obs[n + 1].dir # "none"
  PROVE  Current(obs, gap, n + 1, n + 1, n + 1)
<1>1. n + 1 \in DOMAIN obs /\ n \in Nat
  BY DEF IsLine
<1>2. ~ Continues(obs, gap, n + 1)
  BY <1>1 DEF Continues
<1> QED
  BY <1>1, <1>2 DEF Current, RunStarts

\* Before it no run starts.
LEMMA NoneBegun ==
  ASSUME NEW obs, NEW gap, NEW n \in Nat, \A k \in 1..n : obs[k].dir = "none"
  PROVE  \A k \in 1..n : k \notin RunStarts(obs, gap)
BY DEF RunStarts

\* A recovery leaves the current run as it is, perhaps to be continued.
LEMMA Recovers ==
  ASSUME NEW obs, NEW gap, NEW N, IsLine(obs, N), NEW n \in 0..N, n < N, NEW i, NEW l,
         Current(obs, gap, n, i, l), obs[n + 1].dir = "none"
  PROVE  Current(obs, gap, n + 1, i, l)
<1>1. i \in Nat /\ l \in Nat /\ n \in Nat /\ l \in i..n
  BY DEF Current, RunStarts, IsLine
<1>2. l \in i..(n + 1)
  BY <1>1
<1>3. \A k \in (i + 1)..(n + 1) : k \notin RunStarts(obs, gap)
  <2> TAKE k \in (i + 1)..(n + 1)
  <2>1. k = n + 1 \/ k \in (i + 1)..n
    BY <1>1
  <2> QED
    BY <2>1 DEF Current, RunStarts
<1>4. \A k \in (l + 1)..(n + 1) : obs[k].dir = "none"
  <2> TAKE k \in (l + 1)..(n + 1)
  <2>1. k = n + 1 \/ k \in (l + 1)..n
    BY <1>1
  <2> QED
    BY <2>1 DEF Current
<1> QED
  BY <1>2, <1>3, <1>4 DEF Current

\* A run is complete when the next one starts or the line ends.
LEMMA LastIs ==
  ASSUME NEW obs, NEW gap, NEW N, IsLine(obs, N), NEW n \in 0..N, NEW i, NEW l,
         Current(obs, gap, n, i, l),
         \/ n = N
         \/ n < N /\ n + 1 \in RunStarts(obs, gap)
  PROVE  LastOf(obs, gap, i) = l /\ l \in i..N /\ i \in 1..N
<1> DEFINE W == Within(obs, gap, i)
<1>1. /\ i \in 1..N /\ l \in i..n /\ n \in Nat /\ N \in Nat /\ l \in Nat
      /\ obs[l].dir # "none" /\ i \in Nat
  BY DEF Current, RunStarts, IsLine
<1>2. l \in W
  <2>1. l \in i..N /\ Len(obs) = N
    BY <1>1 DEF IsLine
  <2>2. ASSUME NEW k \in RunStarts(obs, gap), i < k, k <= l PROVE FALSE
    <3>1. k \in Nat /\ k \in (i + 1)..n
      BY <1>1, <2>2 DEF RunStarts, IsLine
    <3> QED
      BY <3>1 DEF Current
  <2> QED
    BY <1>1, <2>1, <2>2 DEF Within
<1>3. ASSUME NEW j \in W PROVE j <= l
  <2> SUFFICES ASSUME ~ (j <= l) PROVE FALSE
    OBVIOUS
  <2>1. j \in i..N /\ obs[j].dir # "none" /\ \A k \in RunStarts(obs, gap) : ~(i < k /\ k <= j)
    BY DEF Within, IsLine
  <2>2. ~ (j <= n)
    <3> SUFFICES ASSUME j <= n PROVE FALSE
      OBVIOUS
    <3>1. j \in (l + 1)..n
      BY <1>1, <2>1
    <3> QED
      BY <2>1, <3>1 DEF Current
  <2>3. n < N /\ n + 1 \in RunStarts(obs, gap) /\ i < n + 1 /\ n + 1 <= j
    BY <1>1, <2>1, <2>2
  <2> QED
    BY <2>1, <2>3
<1>4. \A j \in W : j \in Int
  BY <1>1 DEF Within, IsLine
<1> HIDE DEF W
<1>5. ASSUME NEW j \in W, \A k \in W : k <= j PROVE j = l
  <2>1. j <= l /\ l <= j /\ j \in Int /\ l \in Int
    BY <1>2, <1>3, <1>4, <1>5
  <2> QED
    BY <2>1
<1>6. LastOf(obs, gap, i) = CHOOSE j \in W : \A k \in W : k <= j
  BY DEF LastOf, W
<1>7. l \in i..N
  BY <1>1
<1> QED
  BY <1>1, <1>2, <1>3, <1>5, <1>6, <1>7

\* A deviation continues the current run or ends it and starts another.
LEMMA Deviates ==
  ASSUME NEW obs, NEW gap, NEW N, IsLine(obs, N), NEW n \in 0..N, n < N, NEW i, NEW l,
         Current(obs, gap, n, i, l), obs[n + 1].dir # "none"
  PROVE  /\ GoesOn(obs, gap, n, i, l) => Current(obs, gap, n + 1, i, n + 1)
         /\ ~GoesOn(obs, gap, n, i, l) =>
              /\ Current(obs, gap, n + 1, n + 1, n + 1)
              /\ LastOf(obs, gap, i) = l
<1>1. /\ i \in 1..N /\ l \in i..n /\ n \in Nat /\ N \in Nat /\ l \in Nat
      /\ obs[l].dir # "none" /\ i \in Nat /\ n + 1 \in DOMAIN obs /\ n + 1 \in 1..N
  BY DEF Current, RunStarts, IsLine
<1>2. Continues(obs, gap, n + 1) <=> GoesOn(obs, gap, n, i, l)
  <2>1. ASSUME GoesOn(obs, gap, n, i, l) PROVE Continues(obs, gap, n + 1)
    <3>1. l \in 1..((n + 1) - 1) /\ (n + 1) - 1 = n
      BY <1>1
    <3>2. l + 1 < n + 1 => l < n
      BY <1>1
    <3>3. \A k \in (l + 1)..((n + 1) - 1) : obs[k].dir = "none"
      BY <3>1 DEF Current
    <3>4. obs[l].dir = obs[n + 1].dir
      BY <2>1 DEF Current, GoesOn
    <3> QED
      BY <2>1, <3>1, <3>2, <3>3, <3>4 DEF Continues, GoesOn
  <2>2. ASSUME Continues(obs, gap, n + 1) PROVE GoesOn(obs, gap, n, i, l)
    <3>0. (n + 1) - 1 = n
      BY <1>1
    <3>1. PICK j \in 1..n :
            /\ obs[j].dir = obs[n + 1].dir
            /\ \A k \in (j + 1)..n : obs[k].dir = "none"
            /\ ~Broken(obs, j, n + 1)
            /\ j + 1 < n + 1 => obs[n + 1].time - obs[j + 1].time <= gap[obs[n + 1].dir]
      BY <2>2, <3>0 DEF Continues
    <3>2. j = l
      <4>1. ~ (j < l)
        <5> SUFFICES ASSUME j < l PROVE FALSE
          OBVIOUS
        <5>1. l \in (j + 1)..n
          BY <1>1
        <5> QED
          BY <1>1, <3>1, <5>1
      <4>2. ~ (l < j)
        <5> SUFFICES ASSUME l < j PROVE FALSE
          OBVIOUS
        <5>1. j \in (l + 1)..n
          BY <1>1
        <5> QED
          BY <3>1, <5>1 DEF Current
      <4> QED
        BY <1>1, <4>1, <4>2
    <3>3. l < n => l + 1 < n + 1
      BY <1>1
    <3> QED
      BY <3>1, <3>2, <3>3 DEF GoesOn, Current
  <2> QED
    BY <2>1, <2>2
<1>3. ASSUME GoesOn(obs, gap, n, i, l) PROVE Current(obs, gap, n + 1, i, n + 1)
  <2>1. n + 1 \notin RunStarts(obs, gap)
    BY <1>2, <1>3 DEF RunStarts
  <2>2. \A k \in (i + 1)..(n + 1) : k = n + 1 \/ k \in (i + 1)..n
    BY <1>1
  <2>3. n + 1 \in i..(n + 1) /\ ((n + 1) + 1)..(n + 1) = {}
    BY <1>1
  <2> QED
    BY <1>3, <2>1, <2>2, <2>3 DEF Current, GoesOn
<1>4. ASSUME ~GoesOn(obs, gap, n, i, l)
      PROVE  /\ Current(obs, gap, n + 1, n + 1, n + 1)
             /\ LastOf(obs, gap, i) = l
  <2>1. n + 1 \in RunStarts(obs, gap)
    BY <1>1, <1>2, <1>4 DEF RunStarts
  <2>2. ((n + 1) + 1)..(n + 1) = {} /\ n + 1 \in (n + 1)..(n + 1)
    BY <1>1
  <2> QED
    BY <2>1, <2>2, LastIs DEF Current
<1> QED
  BY <1>3, <1>4

\* The runs that begin before the last one of the first n + 1 observations.
LEMMA NewBefore ==
  ASSUME NEW obs, NEW gap, NEW N, IsLine(obs, N), NEW n \in 0..N, n < N, NEW i, NEW l,
         Current(obs, gap, n, i, l)
  PROVE  {k \in RunStarts(obs, gap) : k < n + 1} = {k \in RunStarts(obs, gap) : k < i} \cup {i}
<1>1. i \in Nat /\ n \in Nat /\ i <= n /\ i \in RunStarts(obs, gap)
  BY DEF Current, RunStarts, IsLine
<1>2. ASSUME NEW k \in RunStarts(obs, gap), k < n + 1 PROVE k < i \/ k = i
  <2>1. k \in Nat
    BY DEF RunStarts, IsLine
  <2>2. ~ (i < k)
    <3> SUFFICES ASSUME i < k PROVE FALSE
      OBVIOUS
    <3>1. k \in (i + 1)..n
      BY <1>1, <1>2, <2>1
    <3> QED
      BY <3>1 DEF Current
  <2> QED
    BY <1>1, <2>1, <2>2
<1>3. ASSUME NEW k \in RunStarts(obs, gap), k < i \/ k = i PROVE k < n + 1
  <2>1. k \in Nat
    BY DEF RunStarts, IsLine
  <2> QED
    BY <1>1, <1>3, <2>1
<1> QED
  BY <1>1, <1>2, <1>3

\* At the end of the line, the current run is the last of all.
LEMMA AllBefore ==
  ASSUME NEW obs, NEW gap, NEW N, IsLine(obs, N), NEW i, NEW l, Current(obs, gap, N, i, l)
  PROVE  RunStarts(obs, gap) = {k \in RunStarts(obs, gap) : k < i} \cup {i}
<1>1. i \in Nat /\ N \in Nat /\ i <= N /\ i \in RunStarts(obs, gap)
  BY DEF Current, RunStarts, IsLine
<1>2. ASSUME NEW k \in RunStarts(obs, gap) PROVE k < i \/ k = i
  <2>1. k \in Nat /\ k <= N
    BY DEF RunStarts, IsLine
  <2>2. ~ (i < k)
    <3> SUFFICES ASSUME i < k PROVE FALSE
      OBVIOUS
    <3>1. k \in (i + 1)..N
      BY <1>1, <1>2, <2>1
    <3> QED
      BY <3>1 DEF Current
  <2> QED
    BY <1>1, <2>1, <2>2
<1> QED
  BY <1>1, <1>2
\* Each run has a last deviation.
LEMMA LastInLine ==
  ASSUME NEW obs, NEW gap, NEW N, IsLine(obs, N), NEW i \in RunStarts(obs, gap)
  PROVE  /\ LastOf(obs, gap, i) \in i..N /\ LastOf(obs, gap, i) \in 1..N /\ i \in 1..N
         /\ LastOf(obs, gap, i) \in Within(obs, gap, i)
<1> DEFINE W == Within(obs, gap, i)
<1>1. i \in 1..N /\ N \in Nat /\ obs[i].dir # "none" /\ Len(obs) = N
  BY DEF RunStarts, IsLine
<1>2. i \in W
  <2>1. i \in i..N
    BY <1>1
  <2>2. \A k \in RunStarts(obs, gap) : k \in Int /\ ~(i < k /\ k <= i)
    BY <1>1 DEF RunStarts, IsLine
  <2> QED
    BY <1>1, <2>1, <2>2 DEF Within
<1>3. W \subseteq i..N
  BY <1>1 DEF Within
<1>4. W \subseteq 0..N /\ W # {}
  <2> HIDE DEF W
  <2> QED
    BY <1>1, <1>2, <1>3
<1>5. \E j \in W : \A k \in W : k <= j
  BY <1>1, <1>4, GreatestNumber
<1>6. LastOf(obs, gap, i) \in W
  BY <1>5 DEF LastOf
<1> QED
  BY <1>1, <1>3, <1>6

-----------------------------------------------------------------------------
\* What LongRuns compares: the observations, and the event of the run that begins at i.
TrendObs(line) ==
  [i \in DOMAIN line |-> [time |-> line[i].time, dir |-> line[i].dir, fresh |-> FALSE]]
TrendGap(mergeGap) == [dir \in {"off", "up", "down"} |-> mergeGap]
IsHigh(line, i, l) == \E j \in i..l : line[j].high
TrendEvent(line, mergeGap, horizon, i) ==
  LET l == LastOf(TrendObs(line), TrendGap(mergeGap), i)
  IN  [start |-> line[i].time, dir |-> line[i].dir,
       end   |-> IF l < Len(line) THEN line[l + 1].time ELSE horizon,
       high  |-> IsHigh(line, i, l)]
LongEnough(e, minDuration) == e.end > e.start /\ e.end - e.start >= minDuration
TrendCharged(line, minDuration, mergeGap, horizon, i) ==
  {e \in {TrendEvent(line, mergeGap, horizon, i)} : LongEnough(e, minDuration)}

IsTrendLine(line, N) ==
  /\ IsLine(line, N)
  /\ \A i \in 1..N : /\ line[i].time \in Nat \ {0}
                     /\ line[i].dir \in {"none", "off", "up", "down"}
                     /\ line[i].high \in BOOLEAN
                     /\ line[i].high => line[i].dir # "none"

\* The observations that LongRuns makes of a line.
LEMMA TrendObsIs ==
  ASSUME NEW line, NEW N, IsLine(line, N)
  PROVE  /\ IsLine(TrendObs(line), N)
         /\ \A i \in 1..N : /\ TrendObs(line)[i].time = line[i].time
                            /\ TrendObs(line)[i].dir = line[i].dir
                            /\ TrendObs(line)[i].fresh = FALSE
<1> DEFINE obs == TrendObs(line)
<1>1. N \in Nat /\ DOMAIN obs = 1..N
  BY DEF IsLine, TrendObs
<1>2. \A i \in 1..N : /\ obs[i].time = line[i].time /\ obs[i].dir = line[i].dir
                      /\ obs[i].fresh = FALSE
  BY DEF IsLine, TrendObs
<1> HIDE DEF obs
<1>3. Len(obs) = N
  BY <1>1
<1> QED
  BY <1>1, <1>2, <1>3 DEF IsLine, obs

\* LongRuns charges, for each run, what TrendCharged says of it.
LEMMA LongRunsAre ==
  ASSUME NEW line, NEW N, IsLine(line, N), NEW minDuration, NEW mergeGap, NEW horizon
  PROVE  LongRuns(line, minDuration, mergeGap, horizon)
           = UNION {TrendCharged(line, minDuration, mergeGap, horizon, i) :
                      i \in RunStarts(TrendObs(line), TrendGap(mergeGap))}
<1> DEFINE obs == TrendObs(line)
           gap == TrendGap(mergeGap)
           event(run) ==
             [start |-> obs[run.first].time, dir |-> obs[run.first].dir,
              end   |-> IF Over(obs, run) THEN OverAt(obs, run) ELSE horizon,
              high  |-> \E j \in run.first..run.last : line[j].high]
<1>1. LongRuns(line, minDuration, mergeGap, horizon)
        = {e \in {event(run) : run \in MergedRuns(obs, gap)} : LongEnough(e, minDuration)}
  BY DEF LongRuns, TrendObs, TrendGap, LongEnough
<1>2. MergedRuns(obs, gap) = {RunAt(obs, gap, i) : i \in RunStarts(obs, gap)}
  BY MergedRunsAre
<1>3. /\ IsLine(obs, N)
      /\ \A i \in 1..N : /\ obs[i].time = line[i].time /\ obs[i].dir = line[i].dir
                         /\ obs[i].fresh = FALSE
  BY TrendObsIs
<1> HIDE DEF obs, gap
<1>4. ASSUME NEW i \in RunStarts(obs, gap)
      PROVE  event(RunAt(obs, gap, i)) = TrendEvent(line, mergeGap, horizon, i)
  <2> DEFINE r == RunAt(obs, gap, i)
             l == LastOf(obs, gap, i)
  <2>1. i \in 1..N /\ r.first = i /\ r.last = l
    BY <1>3 DEF RunStarts, RunAt, IsLine
  <2>2. Over(obs, r) <=> l < N
    BY <1>3, <2>1 DEF Over, IsLine
  <2>3. l \in 1..N => (l < N => OverAt(obs, r) = line[l + 1].time)
    BY <1>3, <2>1 DEF OverAt, IsLine
  <2>4. l \in 1..N
    BY LastInLine, <1>3
  <2> HIDE DEF r, l
  <2>5. event(r) = [start |-> line[i].time, dir |-> line[i].dir,
                    end   |-> IF l < N THEN line[l + 1].time ELSE horizon,
                    high  |-> \E j \in i..l : line[j].high]
    BY <1>3, <2>1, <2>2, <2>3, <2>4
  <2> QED
    BY <2>5 DEF TrendEvent, IsHigh, IsLine, r, l, obs, gap
<1> HIDE DEF event
<1>5. {event(run) : run \in MergedRuns(obs, gap)}
        = {TrendEvent(line, mergeGap, horizon, i) : i \in RunStarts(obs, gap)}
  BY <1>2, <1>4
<1> QED
  BY <1>1, <1>5 DEF TrendCharged, obs, gap

TrendResult(d, minDuration, horizon) ==
  d.found \cup (IF d.run = Drift!NoRun THEN {}
                ELSE Drift!Qualified(d.run, IF d.run.pending # 0 THEN d.run.pending ELSE horizon,
                                     minDuration))

\* The states that the detector goes through.
TrendTrace(g, line, minDuration, mergeGap, horizon) ==
  /\ g[0] = [run |-> Drift!NoRun, found |-> {}]
  /\ \A i \in 1..Len(line) : g[i] = Drift!TrendStep(g[i - 1], line[i], minDuration, mergeGap)
  /\ Drift!DetectTrendRuns(line, minDuration, mergeGap, horizon)
       = TrendResult(g[Len(line)], minDuration, horizon)

\* The steps of the detector over a line exist.
LEMMA TrendTraceExists ==
  ASSUME NEW line, NEW minDuration, NEW mergeGap, NEW horizon, Len(line) \in Nat
  PROVE  \E g : TrendTrace(g, line, minDuration, mergeGap, horizon)
<1> DEFINE c == [run |-> Drift!NoRun, found |-> {}]
           E(x, i) == Drift!TrendStep(x, line[i], minDuration, mergeGap)
           Is(g, n) == g = [i \in 0..n |-> IF i = 0 THEN c ELSE E(g[i - 1], i)]
           T == {n \in Nat : \E g : Is(g, n)}
<1> HIDE DEF c, E
<1>1. 0 \in T
  <2>1. Is([i \in 0..0 |-> c], 0)
    OBVIOUS
  <2> QED
    BY <2>1
<1>2. ASSUME NEW n \in Nat, n \in T PROVE n + 1 \in T
  <2>1. PICK g : Is(g, n)
    BY <1>2
  <2> DEFINE h == [i \in 0..(n + 1) |-> IF i = n + 1 THEN E(g[n], n + 1) ELSE g[i]]
  <2>2. \A i \in 0..(n + 1) : h[i] = IF i = 0 THEN c ELSE E(h[i - 1], i)
    <3> TAKE i \in 0..(n + 1)
    <3>1. CASE i = n + 1
      BY <3>1
    <3>2. CASE i # n + 1
      BY <2>1, <3>2
    <3> QED
      BY <3>1, <3>2
  <2>3. Is(h, n + 1)
    <3>1. h = [i \in 0..(n + 1) |-> h[i]]
      OBVIOUS
    <3> HIDE DEF h
    <3> QED
      BY <2>2, <3>1
  <2> HIDE DEF Is
  <2> QED
    BY <2>3
<1> HIDE DEF T
<1>3. Nat \subseteq T
  BY <1>1, <1>2, SetInduction
<1>4. \E g : Is(g, Len(line))
  BY <1>3 DEF T
<1> DEFINE a == CHOOSE g : Is(g, Len(line))
<1>5. Is(a, Len(line))
  BY <1>4
<1>6. Drift!DetectTrendRuns(line, minDuration, mergeGap, horizon)
       = TrendResult(a[Len(line)], minDuration, horizon)
  BY DEF Drift!DetectTrendRuns, TrendResult, c, E
<1> HIDE DEF a
<1>7. a[0] = c /\ \A i \in 1..Len(line) : a[i] = E(a[i - 1], i)
  BY <1>5
<1>8. TrendTrace(a, line, minDuration, mergeGap, horizon)
  BY <1>6, <1>7 DEF TrendTrace, c, E
<1> QED
  BY <1>8

\* The detector while a run is known, whose last deviation was at l.
TrendRun(line, n, i, l) ==
  [dir |-> line[i].dir, start |-> line[i].time,
   pending |-> IF l = n THEN 0 ELSE line[l + 1].time, high |-> IsHigh(line, i, l)]

TrendKnows(line, minDuration, mergeGap, horizon, n, d) ==
  LET obs == TrendObs(line)
      gap == TrendGap(mergeGap)
  IN  \/ /\ \A k \in 1..n : line[k].dir = "none"
         /\ d = [run |-> Drift!NoRun, found |-> {}]
      \/ \E i, l :
           /\ Current(obs, gap, n, i, l)
           /\ d = [run   |-> TrendRun(line, n, i, l),
                   found |-> UNION {TrendCharged(line, minDuration, mergeGap, horizon, k) :
                                      k \in {x \in RunStarts(obs, gap) : x < i}}]

\* One step of the detector while there is a run.
LEMMA TrendStepIs ==
  ASSUME NEW a, NEW b, NEW p, NEW h, NEW f, NEW o, NEW minDuration, NEW mergeGap, a # "none"
  PROVE  LET run == [dir |-> a, start |-> b, pending |-> p, high |-> h]
             d   == [run |-> run, found |-> f]
             e   == Drift!TrendStep(d, o, minDuration, mergeGap)
             end == IF p # 0 THEN p ELSE o.time
             go  == o.dir = a /\ o.time - end <= mergeGap
         IN  /\ o.dir = "none" =>
                  e = [run |-> [dir |-> a, start |-> b, pending |-> end, high |-> h], found |-> f]
             /\ o.dir # "none" /\ go =>
                  e = [run |-> [dir |-> a, start |-> b, pending |-> 0, high |-> h \/ o.high],
                       found |-> f]
             /\ o.dir # "none" /\ ~go =>
                  e = [run |-> Drift!NewRun(o),
                       found |-> f \cup Drift!Qualified(run, end, minDuration)]
<1> DEFINE run == [dir |-> a, start |-> b, pending |-> p, high |-> h]
           d   == [run |-> run, found |-> f]
           e   == Drift!TrendStep(d, o, minDuration, mergeGap)
           end == IF p # 0 THEN p ELSE o.time
           go  == o.dir = a /\ o.time - end <= mergeGap
<1>1. run # Drift!NoRun
  BY DEF Drift!NoRun
<1>2. ASSUME o.dir = "none"
      PROVE  e = [run |-> [dir |-> a, start |-> b, pending |-> end, high |-> h], found |-> f]
  <2>1. e = [d EXCEPT !.run.pending = end]
    BY <1>1, <1>2 DEF Drift!TrendStep
  <2> HIDE DEF end, e
  <2> QED
    BY <2>1
<1>3. ASSUME o.dir # "none", go
      PROVE  e = [run |-> [dir |-> a, start |-> b, pending |-> 0, high |-> h \/ o.high],
                  found |-> f]
  <2>1. e = [d EXCEPT !.run.pending = 0, !.run.high = @ \/ o.high]
    BY <1>1, <1>3 DEF Drift!TrendStep, Drift!Resume
  <2> HIDE DEF e
  <2> QED
    BY <2>1
<1>4. ASSUME o.dir # "none", ~go
      PROVE  e = [run |-> Drift!NewRun(o), found |-> f \cup Drift!Qualified(run, end, minDuration)]
  BY <1>1, <1>4 DEF Drift!TrendStep
<1> QED
  BY <1>2, <1>3, <1>4

\* One step of the detector keeps what it knows of the line so far.
LEMMA TrendStepKnows ==
  ASSUME NEW line, NEW N, IsTrendLine(line, N), NEW minDuration \in Nat, NEW mergeGap \in Nat,
         NEW horizon, NEW n \in 0..N, n < N, NEW d,
         TrendKnows(line, minDuration, mergeGap, horizon, n, d)
  PROVE  TrendKnows(line, minDuration, mergeGap, horizon, n + 1,
                    Drift!TrendStep(d, line[n + 1], minDuration, mergeGap))
<1> DEFINE obs == TrendObs(line)
           gap == TrendGap(mergeGap)
           o == line[n + 1]
           found(i) == UNION {TrendCharged(line, minDuration, mergeGap, horizon, k) :
                                k \in {x \in RunStarts(obs, gap) : x < i}}
           e == Drift!TrendStep(d, o, minDuration, mergeGap)
<1>1. /\ IsLine(obs, N) /\ IsLine(line, N)
      /\ \A i \in 1..N : /\ obs[i].time = line[i].time /\ obs[i].dir = line[i].dir
                         /\ obs[i].fresh = FALSE
      /\ n + 1 \in 1..N /\ n \in Nat /\ N \in Nat
      /\ \A i \in 1..N : /\ line[i].time \in Nat \ {0}
                         /\ line[i].dir \in {"none", "off", "up", "down"}
                         /\ line[i].high \in BOOLEAN
                         /\ line[i].high => line[i].dir # "none"
  <2>1. N \in Nat /\ IsLine(line, N)
    BY DEF IsTrendLine, IsLine
  <2>2. n + 1 \in 1..N /\ n \in Nat
    BY <2>1
  <2> QED
    BY <2>1, <2>2, TrendObsIs, ZenonT(40) DEF IsTrendLine
<1>2. \A k \in 1..(n + 1) : k \in 1..n \/ k = n + 1
  BY <1>1
<1> HIDE DEF obs, gap, o, found, e
<1>3. Drift!NewRun(o) = TrendRun(line, n + 1, n + 1, n + 1)
  <2>1. IsHigh(line, n + 1, n + 1) = o.high
    <3>1. \A j : j \in (n + 1)..(n + 1) <=> j = n + 1
      BY <1>1
    <3>2. IsHigh(line, n + 1, n + 1) <=> o.high
      BY <3>1 DEF IsHigh, o
    <3> QED
      BY <1>1, <3>2 DEF o, IsHigh
  <2> QED
    BY <2>1 DEF TrendRun, Drift!NewRun, o
<1>4. CASE /\ \A k \in 1..n : line[k].dir = "none"
           /\ d = [run |-> Drift!NoRun, found |-> {}]
  <2>1. CASE o.dir = "none"
    <3>1. e = d
      BY <1>4, <2>1 DEF Drift!TrendStep, e
    <3>2. \A k \in 1..(n + 1) : line[k].dir = "none"
      BY <1>2, <1>4, <2>1 DEF o
    <3> QED
      BY <1>4, <3>1, <3>2 DEF TrendKnows, e, o
  <2>2. CASE o.dir # "none"
    <3>1. e = [run |-> TrendRun(line, n + 1, n + 1, n + 1), found |-> {}]
      BY <1>3, <1>4, <2>2 DEF Drift!TrendStep, e
    <3>2. Current(obs, gap, n + 1, n + 1, n + 1)
      <4>1. \A k \in 1..n : obs[k].dir = "none"
        BY <1>1, <1>4
      <4>2. obs[n + 1].dir # "none"
        BY <1>1, <2>2 DEF o
      <4> QED
        BY <1>1, <4>1, <4>2, FirstDeviation
    <3>3. found(n + 1) = {}
      <4>1. \A k \in RunStarts(obs, gap) : ~(k < n + 1)
        <5> SUFFICES ASSUME NEW k \in RunStarts(obs, gap), k < n + 1 PROVE FALSE
          OBVIOUS
        <5>1. k \in 1..n /\ obs[k].dir # "none" /\ obs[k].dir = line[k].dir
          BY <1>1 DEF RunStarts, IsLine
        <5> QED
          BY <1>4, <5>1
      <4>2. {x \in RunStarts(obs, gap) : x < n + 1} = {}
        BY <4>1
      <4> QED
        BY <4>2 DEF found
    <3> QED
      BY <3>1, <3>2, <3>3 DEF TrendKnows, e, o, obs, gap, found
  <2> QED
    BY <2>1, <2>2
<1>5. ASSUME NEW i, NEW l, Current(obs, gap, n, i, l),
             d = [run |-> TrendRun(line, n, i, l), found |-> found(i)]
      PROVE  TrendKnows(line, minDuration, mergeGap, horizon, n + 1, e)
  <2> DEFINE run == TrendRun(line, n, i, l)
  <2>1. /\ i \in 1..N /\ l \in i..n /\ l \in Nat /\ i \in Nat /\ l \in 1..N /\ l <= n
        /\ line[i].dir # "none" /\ obs[i].dir = line[i].dir
    BY <1>1, <1>5 DEF Current, RunStarts, IsLine
  <2>2. /\ run.dir = line[i].dir /\ run.start = line[i].time /\ run.high = IsHigh(line, i, l)
        /\ run.pending = IF l = n THEN 0 ELSE line[l + 1].time
        /\ d.run = run /\ d.found = found(i)
    BY <1>5 DEF TrendRun
  <2>3. run # Drift!NoRun
    BY <2>1, <2>2 DEF Drift!NoRun
  <2>4. l + 1 \in 1..N /\ (l # n => line[l + 1].time # 0)
    BY <1>1, <2>1
  <2> DEFINE end == IF run.pending # 0 THEN run.pending ELSE o.time
  <2>5. end = line[l + 1].time
    BY <2>1, <2>2, <2>4 DEF o
  <2> HIDE DEF run, end
  <2>8. /\ o.dir = "none" =>
             e = [run |-> [dir |-> line[i].dir, start |-> line[i].time, pending |-> end,
                           high |-> IsHigh(line, i, l)], found |-> found(i)]
        /\ o.dir # "none" /\ o.dir = line[i].dir /\ o.time - end <= mergeGap =>
             e = [run |-> [dir |-> line[i].dir, start |-> line[i].time, pending |-> 0,
                           high |-> IsHigh(line, i, l) \/ o.high], found |-> found(i)]
        /\ o.dir # "none" /\ ~(o.dir = line[i].dir /\ o.time - end <= mergeGap) =>
             e = [run   |-> Drift!NewRun(o),
                  found |-> found(i) \cup Drift!Qualified(run, end, minDuration)]
    <3> DEFINE a == line[i].dir
               b == line[i].time
               p == IF l = n THEN 0 ELSE line[l + 1].time
               h == IsHigh(line, i, l)
    <3>1. a # "none" /\ d = [run |-> [dir |-> a, start |-> b, pending |-> p, high |-> h],
                             found |-> found(i)]
      BY <1>5, <2>1 DEF TrendRun
    <3>2. run = [dir |-> a, start |-> b, pending |-> p, high |-> h]
      BY DEF run, TrendRun
    <3>3. end = IF p # 0 THEN p ELSE o.time
      BY <2>2 DEF end
    <3> HIDE DEF a, b, p, h
    <3> DEFINE f == found(i)
    <3> HIDE DEF f
    <3>4. LET r  == [dir |-> a, start |-> b, pending |-> p, high |-> h]
              d1 == [run |-> r, found |-> f]
              e1 == Drift!TrendStep(d1, o, minDuration, mergeGap)
              t  == IF p # 0 THEN p ELSE o.time
              go == o.dir = a /\ o.time - t <= mergeGap
          IN  /\ o.dir = "none" =>
                   e1 = [run |-> [dir |-> a, start |-> b, pending |-> t, high |-> h], found |-> f]
              /\ o.dir # "none" /\ go =>
                   e1 = [run |-> [dir |-> a, start |-> b, pending |-> 0, high |-> h \/ o.high],
                         found |-> f]
              /\ o.dir # "none" /\ ~go =>
                   e1 = [run |-> Drift!NewRun(o),
                         found |-> f \cup Drift!Qualified(r, t, minDuration)]
      BY ONLY <3>1, TrendStepIs
    <3> QED
      BY <3>1, <3>2, <3>3, <3>4 DEF a, b, h, f, e
  <2>6. CASE o.dir = "none"
    <3>2. e = [run |-> TrendRun(line, n + 1, i, l), found |-> found(i)]
      BY <2>8, <2>6, <2>1, <2>5 DEF TrendRun
    <3>3. Current(obs, gap, n + 1, i, l)
      BY <1>1, <1>5, <2>6, Recovers DEF o
    <3> QED
      BY <3>2, <3>3 DEF TrendKnows, e, o, obs, gap, found
  <2>7. CASE o.dir # "none"
    <3>1. GoesOn(obs, gap, n, i, l) <=> (o.dir = run.dir /\ o.time - end <= mergeGap)
      <4>1. ~ Broken(obs, l, n + 1)
        <5>1. \A k \in (l + 1)..(n + 1) : k \in 1..N
          BY <1>1, <2>1
        <5> QED
          BY <1>1, <5>1 DEF Broken
      <4>2. gap[o.dir] = mergeGap
        BY <1>1, <2>7 DEF gap, TrendGap, o
      <4>3. l = n => o.time - end <= mergeGap
        BY <1>1, <2>5 DEF o
      <4>4. obs[n + 1].dir = o.dir /\ obs[n + 1].time = o.time /\ obs[l + 1].time = end
        BY <1>1, <2>4, <2>5 DEF o
      <4> QED
        BY <1>1, <2>1, <2>2, <4>1, <4>2, <4>3, <4>4 DEF GoesOn
    <3>2. CASE GoesOn(obs, gap, n, i, l)
      <4>1. e = [run |-> [dir |-> line[i].dir, start |-> line[i].time, pending |-> 0,
                          high |-> IsHigh(line, i, l) \/ o.high], found |-> found(i)]
        BY <2>2, <2>7, <2>8, <3>1, <3>2
      <4>2. Current(obs, gap, n + 1, i, n + 1)
        BY <1>1, <1>5, <2>7, <3>2, Deviates DEF o
      <4>3. IsHigh(line, i, n + 1) <=> (IsHigh(line, i, l) \/ o.high)
        <5>1. ASSUME NEW j \in i..(n + 1), line[j].high
              PROVE  j \in i..l \/ j = n + 1
          <6> SUFFICES ASSUME j \notin i..l, j # n + 1 PROVE FALSE
            OBVIOUS
          <6>1. j \in (l + 1)..n /\ j \in 1..N
            BY <1>1, <2>1
          <6>2. obs[j].dir = "none"
            BY <1>5, <6>1 DEF Current
          <6> QED
            BY <1>1, <5>1, <6>1, <6>2
        <5>2. \A j \in i..l : j \in i..(n + 1)
          BY <1>1, <2>1
        <5>3. n + 1 \in i..(n + 1)
          BY <1>1, <2>1
        <5> QED
          BY <5>1, <5>2, <5>3 DEF IsHigh, o
      <4>4. (IsHigh(line, i, l) \/ o.high) = IsHigh(line, i, n + 1)
        <5>1. IsHigh(line, i, n + 1) \in BOOLEAN
          BY DEF IsHigh
        <5> QED
          BY <4>3, <5>1
      <4>5. e = [run |-> TrendRun(line, n + 1, i, n + 1), found |-> found(i)]
        BY <4>1, <4>4 DEF TrendRun
      <4> QED
        BY <4>2, <4>5 DEF TrendKnows, e, o, obs, gap, found
    <3>3. CASE ~GoesOn(obs, gap, n, i, l)
      <4>1. e = [run |-> Drift!NewRun(o), found |-> found(i) \cup Drift!Qualified(run, end, minDuration)]
        BY <2>2, <2>7, <2>8, <3>1, <3>3
      <4>2. Current(obs, gap, n + 1, n + 1, n + 1) /\ LastOf(obs, gap, i) = l
        BY <1>1, <1>5, <2>7, <3>3, Deviates DEF o
      <4>3. Drift!Qualified(run, end, minDuration)
              = TrendCharged(line, minDuration, mergeGap, horizon, i)
        <5>1. TrendEvent(line, mergeGap, horizon, i)
                = [start |-> run.start, dir |-> run.dir, end |-> end, high |-> run.high]
          <6>1. l < Len(line)
            BY <1>1, <2>1 DEF IsLine
          <6>2. TrendEvent(line, mergeGap, horizon, i)
                  = [start |-> line[i].time, dir |-> line[i].dir,
                     end |-> IF l < Len(line) THEN line[l + 1].time ELSE horizon,
                     high |-> IsHigh(line, i, l)]
            BY <4>2, Zenon DEF TrendEvent, obs, gap
          <6> QED
            BY <2>2, <2>5, <6>1, <6>2
        <5> QED
          BY <5>1 DEF TrendCharged, LongEnough, Drift!Qualified
      <4>4. found(n + 1) = found(i) \cup TrendCharged(line, minDuration, mergeGap, horizon, i)
        <5>1. {k \in RunStarts(obs, gap) : k < n + 1} = {k \in RunStarts(obs, gap) : k < i} \cup {i}
          <6>1. IsLine(obs, N) /\ n \in 0..N /\ n < N /\ Current(obs, gap, n, i, l)
            BY <1>1, <1>5
          <6> HIDE DEF obs, gap
          <6> QED
            BY ONLY <6>1, NewBefore
        <5> QED
          BY <5>1 DEF found
      <4> QED
        BY <1>3, <4>1, <4>2, <4>3, <4>4 DEF TrendKnows, e, o, obs, gap, found
    <3> QED
      BY <3>2, <3>3
  <2> QED
    BY <2>6, <2>7
<1> QED
  BY <1>4, <1>5 DEF TrendKnows, obs, gap, e, o, found

\* The state machine finds the merged runs.
LEMMA TrendRunsFound ==
  ASSUME NEW line, NEW N, IsTrendLine(line, N), NEW minDuration \in Nat, NEW mergeGap \in Nat,
         NEW horizon
  PROVE  Drift!DetectTrendRuns(line, minDuration, mergeGap, horizon)
           = LongRuns(line, minDuration, mergeGap, horizon)
<1> DEFINE obs == TrendObs(line)
           gap == TrendGap(mergeGap)
           charged(i) == TrendCharged(line, minDuration, mergeGap, horizon, i)
<1>1. N \in Nat /\ Len(line) = N /\ IsLine(line, N) /\ IsLine(obs, N)
  BY TrendObsIs DEF IsTrendLine, IsLine
<1>0. Len(line) \in Nat
  BY <1>1
<1>2. PICK g : /\ g[0] = [run |-> Drift!NoRun, found |-> {}]
               /\ \A i \in 1..Len(line) : g[i] = Drift!TrendStep(g[i - 1], line[i], minDuration,
                                                                  mergeGap)
               /\ Drift!DetectTrendRuns(line, minDuration, mergeGap, horizon)
                    = TrendResult(g[Len(line)], minDuration, horizon)
  <2>1. \E g : TrendTrace(g, line, minDuration, mergeGap, horizon)
    BY <1>0, TrendTraceExists
  <2> QED
    BY <2>1 DEF TrendTrace
<1> DEFINE Knows(n) == TrendKnows(line, minDuration, mergeGap, horizon, n, g[n])
           T == {n \in Nat : n <= N => Knows(n)}
<1>3. 0 \in T
  <2>1. \A k \in 1..0 : line[k].dir = "none"
    OBVIOUS
  <2> QED
    BY <1>2, <2>1 DEF TrendKnows
<1>4. ASSUME NEW n \in Nat, n \in T PROVE n + 1 \in T
  <2> SUFFICES ASSUME n + 1 <= N PROVE Knows(n + 1)
    OBVIOUS
  <2>1. Knows(n) /\ n \in 0..N /\ n < N /\ n + 1 \in 1..N /\ (n + 1) - 1 = n
    BY <1>1, <1>4
  <2>2. g[n + 1] = Drift!TrendStep(g[n], line[n + 1], minDuration, mergeGap)
    BY <1>1, <1>2, <2>1
  <2> QED
    BY <2>1, <2>2, TrendStepKnows
<1> HIDE DEF T
<1>5. Nat \subseteq T
  BY <1>3, <1>4, SetInduction
<1>6. Knows(N)
  BY <1>1, <1>5 DEF T
<1>7. LongRuns(line, minDuration, mergeGap, horizon)
        = UNION {charged(i) : i \in RunStarts(obs, gap)}
  BY <1>1, LongRunsAre
<1> DEFINE d == g[N]
<1> HIDE DEF d
<1>8. ASSUME \A k \in 1..N : line[k].dir = "none", d = [run |-> Drift!NoRun, found |-> {}]
      PROVE  TrendResult(d, minDuration, horizon) = UNION {charged(k) : k \in RunStarts(obs, gap)}
  <2>1. RunStarts(obs, gap) = {}
    BY <1>1, <1>8, TrendObsIs DEF RunStarts, IsLine
  <2>2. TrendResult(d, minDuration, horizon) = {}
    BY <1>8 DEF TrendResult
  <2> HIDE DEF charged, obs, gap
  <2> QED
    BY <2>1, <2>2
<1>9. ASSUME NEW i, NEW l, Current(obs, gap, N, i, l),
             d = [run |-> TrendRun(line, N, i, l),
                  found |-> UNION {charged(k) : k \in {x \in RunStarts(obs, gap) : x < i}}]
      PROVE  TrendResult(d, minDuration, horizon) = UNION {charged(k) : k \in RunStarts(obs, gap)}
  <2> DEFINE run == TrendRun(line, N, i, l)
             before == {x \in RunStarts(obs, gap) : x < i}
  <2>1. LastOf(obs, gap, i) = l /\ l \in i..N /\ i \in 1..N
    <3>1. N \in 0..N
      BY <1>1
    <3> QED
      BY <1>1, <1>9, <3>1, LastIs
  <2>2. RunStarts(obs, gap) = before \cup {i}
    BY <1>1, <1>9, AllBefore
  <2>3. /\ run.dir = line[i].dir /\ run.start = line[i].time /\ run.high = IsHigh(line, i, l)
        /\ run.pending = IF l = N THEN 0 ELSE line[l + 1].time
    BY DEF TrendRun
  <2>4. run # Drift!NoRun
    <3>1. obs[i].dir # "none" /\ obs[i].dir = line[i].dir
      BY <1>1, <1>9, <2>1, TrendObsIs, ZenonT(40) DEF Current, RunStarts
    <3> QED
      BY <2>3, <3>1 DEF Drift!NoRun
  <2> DEFINE last == IF run.pending # 0 THEN run.pending ELSE horizon
  <2>5. last = IF l < N THEN line[l + 1].time ELSE horizon
    <3>1. l < N => l + 1 \in 1..N /\ line[l + 1].time # 0
      BY <1>1, <2>1 DEF IsTrendLine
    <3> QED
      BY <1>1, <2>1, <2>3, <3>1
  <2>6. Drift!Qualified(run, last, minDuration) = charged(i)
    <3> HIDE DEF run, last
    <3>1. TrendEvent(line, mergeGap, horizon, i)
            = [start |-> run.start, dir |-> run.dir, end |-> last, high |-> run.high]
      BY <1>1, <2>1, <2>3, <2>5 DEF TrendEvent
    <3> QED
      BY <3>1 DEF TrendCharged, LongEnough, Drift!Qualified
  <2>7. TrendResult(d, minDuration, horizon)
          = (UNION {charged(k) : k \in before}) \cup Drift!Qualified(run, last, minDuration)
    <3>1. d.run = run /\ d.found = UNION {charged(k) : k \in before}
      BY <1>9
    <3> DEFINE f == UNION {charged(k) : k \in before}
    <3> HIDE DEF f, run
    <3>2. d.run = run /\ d.found = f
      BY <3>1 DEF f
    <3>3. TrendResult(d, minDuration, horizon)
            = f \cup Drift!Qualified(run, last, minDuration)
      BY <2>4, <3>2 DEF TrendResult
    <3> HIDE DEF last, charged, before
    <3> QED
      BY <3>3 DEF f
  <2> HIDE DEF before, run, last
  <2>8. UNION {charged(k) : k \in RunStarts(obs, gap)}
          = (UNION {charged(k) : k \in before}) \cup charged(i)
    <3> DEFINE S == RunStarts(obs, gap)
    <3> HIDE DEF S
    <3>1. S = before \cup {i}
      BY <2>2 DEF S
    <3> QED
      BY <3>1 DEF S
  <2> QED
    BY <2>6, <2>7, <2>8
<1>10. TrendResult(d, minDuration, horizon) = UNION {charged(k) : k \in RunStarts(obs, gap)}
  BY <1>6, <1>7, <1>8, <1>9 DEF TrendKnows, d
<1> QED
  BY <1>1, <1>2, <1>7, <1>10 DEF d

-----------------------------------------------------------------------------
\* The elements that are taken from the beginnings of s.
TakenTrace(g, s, P) ==
  /\ g[0] = <<>>
  /\ \A i \in 1..Len(s) : g[i] = IF i \in P THEN Append(g[i - 1], s[i]) ELSE g[i - 1]
  /\ Subsequence(s, P) = g[Len(s)]

\* The steps in which Subsequence chooses elements exist.
LEMMA TakenTraceExists ==
  ASSUME NEW s, NEW P, Len(s) \in Nat
  PROVE  \E g : TakenTrace(g, s, P)
<1> DEFINE c == <<>>
           E(x, i) == IF i \in P THEN Append(x, s[i]) ELSE x
           Is(g, n) == g = [i \in 0..n |-> IF i = 0 THEN c ELSE E(g[i - 1], i)]
           T == {n \in Nat : \E g : Is(g, n)}
<1> HIDE DEF c, E
<1>1. 0 \in T
  <2>1. Is([i \in 0..0 |-> c], 0)
    OBVIOUS
  <2> QED
    BY <2>1
<1>2. ASSUME NEW n \in Nat, n \in T PROVE n + 1 \in T
  <2>1. PICK g : Is(g, n)
    BY <1>2
  <2> DEFINE h == [i \in 0..(n + 1) |-> IF i = n + 1 THEN E(g[n], n + 1) ELSE g[i]]
  <2>2. \A i \in 0..(n + 1) : h[i] = IF i = 0 THEN c ELSE E(h[i - 1], i)
    <3> TAKE i \in 0..(n + 1)
    <3>1. CASE i = n + 1
      BY <3>1
    <3>2. CASE i # n + 1
      BY <2>1, <3>2
    <3> QED
      BY <3>1, <3>2
  <2>3. Is(h, n + 1)
    <3>1. h = [i \in 0..(n + 1) |-> h[i]]
      OBVIOUS
    <3> HIDE DEF h
    <3> QED
      BY <2>2, <3>1
  <2> HIDE DEF Is
  <2> QED
    BY <2>3
<1> HIDE DEF T
<1>3. Nat \subseteq T
  BY <1>1, <1>2, SetInduction
<1>4. \E g : Is(g, Len(s))
  BY <1>3 DEF T
<1> DEFINE a == CHOOSE g : Is(g, Len(s))
<1>5. Is(a, Len(s))
  BY <1>4
<1>6. Subsequence(s, P) = a[Len(s)]
  BY DEF Subsequence, c, E
<1> HIDE DEF a
<1>7. a[0] = c /\ \A i \in 1..Len(s) : a[i] = E(a[i - 1], i)
  BY <1>5
<1>8. TakenTrace(a, s, P)
  BY <1>6, <1>7 DEF TakenTrace, c, E
<1> QED
  BY <1>8

\* q consists of the elements of s at the positions P, the k-th from pos[k].
IsTaken(q, s, n, P, pos) ==
  /\ Len(q) \in Nat /\ DOMAIN q = 1..Len(q) /\ q = [k \in 1..Len(q) |-> q[k]]
  /\ \A k \in 1..Len(q) : pos[k] \in 1..n /\ pos[k] \in P /\ q[k] = s[pos[k]]
  /\ \A k, m \in 1..Len(q) : k < m => pos[k] < pos[m]
  /\ \A i \in 1..n : i \in P => \E k \in 1..Len(q) : pos[k] = i

\* Append for sequences of anything.
LEMMA AppendIs ==
  ASSUME NEW q, Len(q) \in Nat, q = [k \in 1..Len(q) |-> q[k]], NEW e
  PROVE  LET r == Append(q, e)
         IN  /\ Len(r) = Len(q) + 1 /\ DOMAIN r = 1..(Len(q) + 1)
             /\ r = [k \in 1..(Len(q) + 1) |-> r[k]]
             /\ \A k \in 1..Len(q) : r[k] = q[k]
             /\ r[Len(q) + 1] = e
             /\ r # <<>>
<1> DEFINE X == Range(q) \cup {e}
           n == Len(q)
           r == Append(q, e)
<1>1. q \in Seq(X)
  <2>1. DOMAIN q = 1..n
    OBVIOUS
  <2>2. q \in [1..n -> X]
    BY <2>1 DEF Range
  <2> HIDE DEF X
  <2> QED
    BY <2>2
<1>2. e \in X
  OBVIOUS
<1> HIDE DEF X
<1>3. r \in Seq(X) /\ Len(r) = n + 1
  BY <1>1, <1>2
<1>4. \A k \in 1..n : r[k] = q[k]
  BY <1>1, <1>2
<1>5. r[n + 1] = e
  BY <1>1, <1>2
<1> HIDE DEF r
<1>6. DOMAIN r = 1..(n + 1) /\ r = [k \in 1..(n + 1) |-> r[k]]
  BY <1>3
<1>7. r # <<>>
  BY <1>3
<1> QED
  BY <1>3, <1>4, <1>5, <1>6, <1>7 DEF r

\* Subsequence chooses the elements at the given positions, in order.
LEMMA SubsequenceIs ==
  ASSUME NEW s, NEW P, Len(s) \in Nat
  PROVE  \E pos : IsTaken(Subsequence(s, P), s, Len(s), P, pos)
<1> DEFINE N == Len(s)
<1>1. PICK g : TakenTrace(g, s, P)
  BY TakenTraceExists
<1>2. /\ g[0] = <<>> /\ Subsequence(s, P) = g[N]
      /\ \A i \in 1..N : g[i] = IF i \in P THEN Append(g[i - 1], s[i]) ELSE g[i - 1]
  BY <1>1 DEF TakenTrace
<1> DEFINE T == {n \in Nat : n <= N => \E pos : IsTaken(g[n], s, n, P, pos)}
<1>3. 0 \in T
  <2>1. IsTaken(<<>>, s, 0, P, <<>>)
    BY DEF IsTaken
  <2> QED
    BY <1>2, <2>1
<1>4. ASSUME NEW n \in Nat, n \in T PROVE n + 1 \in T
  <2> SUFFICES ASSUME n + 1 <= N PROVE \E pos : IsTaken(g[n + 1], s, n + 1, P, pos)
    OBVIOUS
  <2>1. n + 1 \in 1..N /\ (n + 1) - 1 = n /\ n <= N
    OBVIOUS
  <2>2. PICK pos : IsTaken(g[n], s, n, P, pos)
    BY <1>4, <2>1
  <2> DEFINE q == g[n]
  <2>3. g[n + 1] = IF n + 1 \in P THEN Append(q, s[n + 1]) ELSE q
    BY <1>2, <2>1
  <2>4. /\ Len(q) \in Nat /\ DOMAIN q = 1..Len(q) /\ q = [k \in 1..Len(q) |-> q[k]]
        /\ \A k \in 1..Len(q) : pos[k] \in 1..n /\ pos[k] \in P /\ q[k] = s[pos[k]]
        /\ \A k, m \in 1..Len(q) : k < m => pos[k] < pos[m]
        /\ \A i \in 1..n : i \in P => \E k \in 1..Len(q) : pos[k] = i
    BY <2>2 DEF IsTaken
  <2> HIDE DEF q
  <2>5. CASE n + 1 \notin P
    <3>1. IsTaken(q, s, n + 1, P, pos)
      <4>1. \A i \in 1..(n + 1) : i \in P => i \in 1..n
        BY <2>5
      <4>2. \A i \in 1..n : i \in 1..(n + 1)
        OBVIOUS
      <4> QED
        BY <2>4, <4>1, <4>2 DEF IsTaken
    <3> QED
      BY <2>3, <2>5, <3>1
  <2>6. CASE n + 1 \in P
    <3> DEFINE r == Append(q, s[n + 1])
               m == Len(q)
               at == [k \in 1..(m + 1) |-> IF k = m + 1 THEN n + 1 ELSE pos[k]]
    <3>1. /\ Len(r) = m + 1 /\ DOMAIN r = 1..(m + 1) /\ r = [k \in 1..(m + 1) |-> r[k]]
          /\ \A k \in 1..m : r[k] = q[k]
          /\ r[m + 1] = s[n + 1]
      BY <2>4, AppendIs
    <3>2. m \in Nat /\ at[m + 1] = n + 1 /\ \A k \in 1..m : at[k] = pos[k] /\ k \in 1..(m + 1)
      BY <2>4
    <3>3. \A k \in 1..(m + 1) : k = m + 1 \/ k \in 1..m
      BY <3>2
    <3> HIDE DEF r, m, at
    <3>4. \A k \in 1..(m + 1) : at[k] \in 1..(n + 1) /\ at[k] \in P /\ r[k] = s[at[k]]
      <4> TAKE k \in 1..(m + 1)
      <4>1. CASE k = m + 1
        BY <2>6, <3>1, <3>2, <4>1
      <4>2. CASE k \in 1..m
        <5>1. pos[k] \in 1..n /\ pos[k] \in P /\ q[k] = s[pos[k]]
          BY <2>4, <4>2 DEF m
        <5>2. pos[k] \in 1..(n + 1)
          BY <5>1
        <5> QED
          BY <3>1, <3>2, <4>2, <5>1, <5>2
      <4> QED
        BY <3>3, <4>1, <4>2
    <3>5. \A k, j \in 1..(m + 1) : k < j => at[k] < at[j]
      <4> TAKE k, j \in 1..(m + 1)
      <4> SUFFICES ASSUME k < j PROVE at[k] < at[j]
        OBVIOUS
      <4>1. k \in 1..m
        BY <3>2
      <4>2. at[k] = pos[k] /\ pos[k] \in 1..n
        BY <2>4, <3>2, <4>1 DEF m
      <4>3. CASE j = m + 1
        BY <3>2, <4>2, <4>3
      <4>4. CASE j \in 1..m
        BY <2>4, <3>2, <4>1, <4>4 DEF m
      <4> QED
        BY <3>3, <4>3, <4>4
    <3>6. \A i \in 1..(n + 1) : i \in P => \E k \in 1..(m + 1) : at[k] = i
      <4> SUFFICES ASSUME NEW i \in 1..(n + 1), i \in P PROVE \E k \in 1..(m + 1) : at[k] = i
        OBVIOUS
      <4>1. CASE i = n + 1
        <5>1. m + 1 \in 1..(m + 1)
          BY <3>2
        <5> QED
          BY <3>2, <4>1, <5>1
      <4>2. CASE i \in 1..n
        BY <2>4, <3>2, <4>2 DEF m
      <4> QED
        BY <4>1, <4>2
    <3>7. IsTaken(r, s, n + 1, P, at)
      <4>1. Len(r) \in Nat
        BY <3>1, <3>2
      <4> QED
        BY <3>1, <3>4, <3>5, <3>6, <4>1 DEF IsTaken
    <3> QED
      BY <2>3, <2>6, <3>7 DEF r
  <2> QED
    BY <2>5, <2>6
<1> HIDE DEF T
<1>5. Nat \subseteq T
  BY <1>3, <1>4, SetInduction
<1>6. N \in T
  BY <1>5
<1> QED
  BY <1>2, <1>6 DEF T

\* Chosen from a sequence in the order of time, they are in the order of time.
LEMMA TimedSubsequence ==
  ASSUME NEW s, NEW P, Timed(s)
  PROVE  /\ Timed(Subsequence(s, P))
         /\ \A k \in 1..Len(Subsequence(s, P)) : \E i \in 1..Len(s) :
              i \in P /\ Subsequence(s, P)[k] = s[i]
<1> DEFINE q == Subsequence(s, P)
<1>1. Len(s) \in Nat
  BY TimedShape
<1>2. PICK pos : IsTaken(q, s, Len(s), P, pos)
  BY <1>1, SubsequenceIs
<1> HIDE DEF q
<1>3. /\ Len(q) \in Nat /\ DOMAIN q = 1..Len(q) /\ q = [k \in 1..Len(q) |-> q[k]]
      /\ \A k \in 1..Len(q) : pos[k] \in 1..Len(s) /\ pos[k] \in P /\ q[k] = s[pos[k]]
      /\ \A k, m \in 1..Len(q) : k < m => pos[k] < pos[m]
  BY <1>2 DEF IsTaken
<1>4. \A k \in 1..Len(q) : q[k].time \in Nat \ {0}
  BY <1>3 DEF Timed
<1>5. ASSUME NEW k \in 1..Len(q), NEW m \in 1..Len(q), k <= m PROVE q[k].time <= q[m].time
  <2>1. pos[k] <= pos[m]
    <3>1. k = m \/ k < m
      BY <1>3, <1>5
    <3> QED
      BY <1>1, <1>3, <3>1
  <2> QED
    BY <1>3, <2>1 DEF Timed
<1>6. Timed(q)
  BY <1>3, <1>4, <1>5, MakeTimed
<1> QED
  BY <1>3, <1>6 DEF q

-----------------------------------------------------------------------------
IsSequence(q) == Len(q) \in Nat /\ DOMAIN q = 1..Len(q) /\ q = [k \in 1..Len(q) |-> q[k]]

\* What prepare_numeric_history has made of the first n samples.
Prepared(p, samples, n) ==
  /\ p = [segments |-> p.segments, current |-> p.current, breaks |-> p.breaks]
  /\ IsSequence(p.segments)
  /\ \A k \in 1..Len(p.segments) :
       /\ Timed(p.segments[k]) /\ p.segments[k] # <<>>
       /\ \A i \in 1..Len(p.segments[k]) : \E j \in 1..n : p.segments[k][i] = samples[j]
  /\ Timed(p.current)
  /\ \A i \in 1..Len(p.current) : \E j \in 1..n : p.current[i] = samples[j]

\* Closing a segment keeps all segments parts of the history.
LEMMA CloseSegmentIs ==
  ASSUME NEW p, NEW samples, NEW n \in Nat, Prepared(p, samples, n)
  PROVE  /\ Prepared(CloseSegment(p), samples, n)
         /\ CloseSegment(p).current = <<>>
         /\ CloseSegment(p).breaks = p.breaks
<1> DEFINE c == CloseSegment(p)
           r == IF p.current = <<>> THEN p.segments ELSE Append(p.segments, p.current)
<1>1. /\ p = [segments |-> p.segments, current |-> p.current, breaks |-> p.breaks]
      /\ Len(p.segments) \in Nat /\ p.segments = [k \in 1..Len(p.segments) |-> p.segments[k]]
      /\ DOMAIN p.segments = 1..Len(p.segments)
      /\ \A k \in 1..Len(p.segments) :
           /\ Timed(p.segments[k]) /\ p.segments[k] # <<>>
           /\ \A i \in 1..Len(p.segments[k]) : \E j \in 1..n : p.segments[k][i] = samples[j]
      /\ Timed(p.current)
      /\ \A i \in 1..Len(p.current) : \E j \in 1..n : p.current[i] = samples[j]
  BY DEF Prepared, IsSequence
<1>2. c = [segments |-> r, current |-> <<>>, breaks |-> p.breaks]
  <2> DEFINE a == p.segments
             b == p.current
             d == p.breaks
  <2>1. p = [segments |-> a, current |-> b, breaks |-> d]
    BY <1>1
  <2> HIDE DEF a, b, d
  <2> DEFINE x == IF b = <<>> THEN a ELSE Append(a, b)
  <2>2. c = [p EXCEPT !.segments = x, !.current = <<>>]
    BY DEF CloseSegment, a, b
  <2> HIDE DEF x, c
  <2>3. c = [segments |-> x, current |-> <<>>, breaks |-> d]
    BY <2>1, <2>2
  <2> QED
    BY <2>3 DEF a, b, d, x
<1>3. /\ IsSequence(r)
      /\ \A k \in 1..Len(r) :
           /\ Timed(r[k]) /\ r[k] # <<>>
           /\ \A i \in 1..Len(r[k]) : \E j \in 1..n : r[k][i] = samples[j]
  <2>1. CASE p.current = <<>>
    BY <1>1, <2>1 DEF IsSequence
  <2>2. CASE p.current # <<>>
    <3> DEFINE q == p.segments
               e == p.current
               a == Append(q, e)
    <3>1. /\ Len(a) = Len(q) + 1 /\ DOMAIN a = 1..(Len(q) + 1)
          /\ a = [k \in 1..(Len(q) + 1) |-> a[k]]
          /\ \A k \in 1..Len(q) : a[k] = q[k]
          /\ a[Len(q) + 1] = e
      BY <1>1, AppendIs
    <3>2. r = a
      BY <2>2
    <3>3. /\ Len(q) \in Nat /\ Timed(e) /\ e # <<>>
          /\ \A i \in 1..Len(e) : \E j \in 1..n : e[i] = samples[j]
          /\ \A k \in 1..Len(q) :
               /\ Timed(q[k]) /\ q[k] # <<>>
               /\ \A i \in 1..Len(q[k]) : \E j \in 1..n : q[k][i] = samples[j]
      BY <1>1, <2>2
    <3> HIDE DEF a, q, e, r
    <3>4. \A k \in 1..Len(a) : k \in 1..Len(q) \/ k = Len(q) + 1
      BY <3>1, <3>3
    <3>5. IsSequence(a)
      BY <3>1, <3>3 DEF IsSequence
    <3>6. \A k \in 1..Len(a) :
            /\ Timed(a[k]) /\ a[k] # <<>>
            /\ \A i \in 1..Len(a[k]) : \E j \in 1..n : a[k][i] = samples[j]
      <4> TAKE k \in 1..Len(a)
      <4>1. CASE k = Len(q) + 1
        BY <3>1, <3>3, <4>1
      <4>2. CASE k \in 1..Len(q)
        <5>1. a[k] = q[k]
          BY <3>1, <4>2
        <5> QED
          BY <3>3, <4>2, <5>1
      <4> QED
        BY <3>4, <4>1, <4>2
    <3> QED
      BY <3>2, <3>5, <3>6
  <2> QED
    BY <2>1, <2>2
<1> HIDE DEF r, c
<1>4. c.segments = r /\ c.current = <<>> /\ c.breaks = p.breaks
  BY <1>2
<1>5. \A i \in 1..Len(<<>>) : \E j \in 1..n : <<>>[i] = samples[j]
  OBVIOUS
<1>6. Prepared(c, samples, n)
  BY <1>2, <1>3, <1>4, <1>5, EmptyTimed DEF Prepared
<1> QED
  BY <1>4, <1>6 DEF c

\* What was prepared stays so when more readings come.
LEMMA PreparedLater ==
  ASSUME NEW p, NEW samples, NEW n \in Nat, Prepared(p, samples, n)
  PROVE  Prepared(p, samples, n + 1)
<1>1. \A j \in 1..n : j \in 1..(n + 1)
  OBVIOUS
<1> QED
  BY <1>1 DEF Prepared

\* An element that is not earlier can be appended.
LEMMA TimedAppend ==
  ASSUME NEW s, Timed(s), NEW e, e.time \in Nat \ {0},
         \A i \in 1..Len(s) : s[i].time <= e.time
  PROVE  /\ Timed(Append(s, e)) /\ Len(Append(s, e)) = Len(s) + 1
         /\ \A i \in 1..Len(s) : Append(s, e)[i] = s[i]
         /\ Append(s, e)[Len(s) + 1] = e
<1> DEFINE r == Append(s, e)
<1>1. Len(s) \in Nat /\ s = [k \in 1..Len(s) |-> s[k]]
  BY TimedShape
<1>2. /\ Len(r) = Len(s) + 1 /\ DOMAIN r = 1..(Len(s) + 1)
      /\ r = [k \in 1..(Len(s) + 1) |-> r[k]]
      /\ \A k \in 1..Len(s) : r[k] = s[k]
      /\ r[Len(s) + 1] = e
  BY <1>1, AppendIs
<1> HIDE DEF r
<1>3. \A k \in 1..(Len(s) + 1) : k \in 1..Len(s) \/ k = Len(s) + 1
  BY <1>1
<1>4. \A k \in 1..(Len(s) + 1) : r[k].time \in Nat \ {0}
  BY <1>2, <1>3 DEF Timed
<1>5. ASSUME NEW k \in 1..(Len(s) + 1), NEW m \in 1..(Len(s) + 1), k <= m
      PROVE  r[k].time <= r[m].time
  <2>1. CASE m = Len(s) + 1
    BY <1>2, <1>3, <2>1
  <2>2. CASE m \in 1..Len(s)
    <3>1. k \in 1..Len(s)
      BY <1>1, <1>5, <2>2
    <3> QED
      BY <1>2, <1>5, <2>2, <3>1 DEF Timed
  <2> QED
    BY <1>3, <2>1, <2>2
<1>6. Len(s) + 1 \in Nat
  BY <1>1
<1>7. Timed(r)
  BY <1>2, <1>4, <1>5, <1>6, MakeTimed
<1> QED
  BY <1>2, <1>7 DEF r

\* One reading of prepare_numeric_history keeps all segments parts of the history.
LEMMA AddSampleIs ==
  ASSUME NEW p, NEW samples, Timed(samples), NEW n \in 0..Len(samples), n < Len(samples),
         Prepared(p, samples, n), NEW maxGap
  PROVE  Prepared(AddSample(maxGap, p, samples[n + 1]), samples, n + 1)
<1> DEFINE sample == samples[n + 1]
           late == /\ p.current # <<>> /\ maxGap # 0
                   /\ sample.time - Last(p.current).time > maxGap
           closed == [CloseSegment(p) EXCEPT !.breaks = @ \cup {sample.time}]
           q == IF ~sample.good \/ late THEN closed ELSE p
<1>0. Len(samples) \in Nat /\ n \in Nat /\ n + 1 \in 1..Len(samples)
  <2>1. Len(samples) \in Nat
    BY TimedShape
  <2> QED
    BY <2>1
<1>1. AddSample(maxGap, p, sample)
        = IF sample.good THEN [q EXCEPT !.current = Append(@, sample)] ELSE q
  BY DEF AddSample
<1>2. Prepared(q, samples, n)
  <2>1. Prepared(closed, samples, n)
    <3> DEFINE c == CloseSegment(p)
    <3>1. Prepared(c, samples, n)
      BY <1>0, CloseSegmentIs
    <3> HIDE DEF c
    <3>2. /\ closed.segments = c.segments /\ closed.current = c.current
          /\ closed = [segments |-> closed.segments, current |-> closed.current,
                       breaks |-> closed.breaks]
      <4>1. c = [segments |-> c.segments, current |-> c.current, breaks |-> c.breaks]
        BY <3>1 DEF Prepared
      <4> DEFINE a == c.segments
                 b == c.current
                 d == c.breaks
                 t == sample.time
      <4>2. c = [segments |-> a, current |-> b, breaks |-> d]
        BY <4>1
      <4> HIDE DEF a, b, d, t
      <4> DEFINE x == d \cup {t}
      <4>3. closed = [c EXCEPT !.breaks = x]
        BY DEF c, t, d
      <4> HIDE DEF x, closed
      <4>4. closed = [segments |-> a, current |-> b, breaks |-> x]
        BY <4>2, <4>3
      <4> HIDE DEF closed
      <4> QED
        BY <4>4 DEF a, b
    <3> HIDE DEF closed
    <3> QED
      BY <3>1, <3>2 DEF Prepared
  <2> HIDE DEF closed
  <2> QED
    BY <2>1
<1> HIDE DEF q
<1>3. CASE ~sample.good
  BY <1>0, <1>1, <1>2, <1>3, PreparedLater
<1>4. CASE sample.good
  <2> DEFINE a == q.segments
             b == q.current
             d == q.breaks
  <2>1. q = [segments |-> a, current |-> b, breaks |-> d]
    BY <1>2 DEF Prepared
  <2>2. AddSample(maxGap, p, sample)
          = [segments |-> a, current |-> Append(b, sample), breaks |-> d]
    <3> HIDE DEF a, b, d, sample
    <3>1. [[segments |-> a, current |-> b, breaks |-> d] EXCEPT !.current = Append(@, sample)]
            = [segments |-> a, current |-> Append(b, sample), breaks |-> d]
      OBVIOUS
    <3> QED
      BY <1>1, <1>4, <2>1, <3>1
  <2>3. /\ Timed(b) /\ \A i \in 1..Len(b) : \E j \in 1..n : b[i] = samples[j]
        /\ IsSequence(a)
        /\ \A k \in 1..Len(a) :
             /\ Timed(a[k]) /\ a[k] # <<>>
             /\ \A i \in 1..Len(a[k]) : \E j \in 1..n : a[k][i] = samples[j]
    BY <1>2 DEF Prepared
  <2>4. \A i \in 1..Len(b) : b[i].time <= sample.time
    <3> TAKE i \in 1..Len(b)
    <3>1. PICK j \in 1..n : b[i] = samples[j]
      BY <2>3
    <3>2. j \in 1..Len(samples) /\ j <= n + 1
      BY <1>0
    <3> QED
      BY <1>0, <3>1, <3>2 DEF Timed
  <2>5. sample.time \in Nat \ {0}
    BY <1>0 DEF Timed
  <2> HIDE DEF a, b, d
  <2>6. /\ Timed(Append(b, sample)) /\ Len(Append(b, sample)) = Len(b) + 1
        /\ \A i \in 1..Len(b) : Append(b, sample)[i] = b[i]
        /\ Append(b, sample)[Len(b) + 1] = sample
    BY <2>3, <2>4, <2>5, TimedAppend
  <2>7. \A i \in 1..Len(Append(b, sample)) : \E j \in 1..(n + 1) : Append(b, sample)[i] = samples[j]
    <3> TAKE i \in 1..Len(Append(b, sample))
    <3>0. Len(b) \in Nat
      BY <2>3, TimedShape
    <3>1. CASE i = Len(b) + 1
      <4>1. n + 1 \in 1..(n + 1)
        BY <1>0
      <4> QED
        BY <2>6, <3>1, <4>1
    <3>2. CASE i # Len(b) + 1
      <4>1. i \in 1..Len(b)
        BY <2>6, <3>0, <3>2
      <4>2. PICK j \in 1..n : b[i] = samples[j]
        BY <2>3, <4>1
      <4>3. j \in 1..(n + 1)
        BY <1>0
      <4> QED
        BY <2>6, <4>1, <4>2, <4>3
    <3> QED
      BY <3>1, <3>2
  <2>8. \A j \in 1..n : j \in 1..(n + 1)
    BY <1>0
  <2> DEFINE e == [segments |-> a, current |-> Append(b, sample), breaks |-> d]
  <2>9. e.segments = a /\ e.current = Append(b, sample) /\ e.breaks = d
    OBVIOUS
  <2>10. Prepared(e, samples, n + 1)
    <3>1. e = [segments |-> e.segments, current |-> e.current, breaks |-> e.breaks]
      BY <2>9
    <3> HIDE DEF e
    <3> QED
      BY <2>3, <2>6, <2>7, <2>8, <2>9, <3>1 DEF Prepared
  <2> QED
    BY <2>2, <2>10
<1> QED
  BY <1>3, <1>4

-----------------------------------------------------------------------------
\* The states that prepare_numeric_history goes through.
PreparedTrace(g, samples, maxGap) ==
  /\ g[0] = [segments |-> <<>>, current |-> <<>>, breaks |-> {}]
  /\ \A i \in 1..Len(samples) : g[i] = AddSample(maxGap, g[i - 1], samples[i])
  /\ PrepareNumericHistory(samples, maxGap)
       = [segments |-> CloseSegment(g[Len(samples)]).segments,
          breaks   |-> CloseSegment(g[Len(samples)]).breaks]

\* The steps of prepare_numeric_history exist.
LEMMA PreparedTraceExists ==
  ASSUME NEW samples, NEW maxGap, Len(samples) \in Nat
  PROVE  \E g : PreparedTrace(g, samples, maxGap)
<1> DEFINE c == [segments |-> <<>>, current |-> <<>>, breaks |-> {}]
           E(x, i) == AddSample(maxGap, x, samples[i])
           Is(g, n) == g = [i \in 0..n |-> IF i = 0 THEN c ELSE E(g[i - 1], i)]
           T == {n \in Nat : \E g : Is(g, n)}
<1> HIDE DEF c, E
<1>1. 0 \in T
  <2>1. Is([i \in 0..0 |-> c], 0)
    OBVIOUS
  <2> QED
    BY <2>1
<1>2. ASSUME NEW n \in Nat, n \in T PROVE n + 1 \in T
  <2>1. PICK g : Is(g, n)
    BY <1>2
  <2> DEFINE h == [i \in 0..(n + 1) |-> IF i = n + 1 THEN E(g[n], n + 1) ELSE g[i]]
  <2>2. \A i \in 0..(n + 1) : h[i] = IF i = 0 THEN c ELSE E(h[i - 1], i)
    <3> TAKE i \in 0..(n + 1)
    <3>1. CASE i = n + 1
      BY <3>1
    <3>2. CASE i # n + 1
      BY <2>1, <3>2
    <3> QED
      BY <3>1, <3>2
  <2>3. Is(h, n + 1)
    <3>1. h = [i \in 0..(n + 1) |-> h[i]]
      OBVIOUS
    <3> HIDE DEF h
    <3> QED
      BY <2>2, <3>1
  <2> HIDE DEF Is
  <2> QED
    BY <2>3
<1> HIDE DEF T
<1>3. Nat \subseteq T
  BY <1>1, <1>2, SetInduction
<1>4. \E g : Is(g, Len(samples))
  BY <1>3 DEF T
<1> DEFINE a == CHOOSE g : Is(g, Len(samples))
<1>5. Is(a, Len(samples))
  BY <1>4
<1>6. PrepareNumericHistory(samples, maxGap)
       = [segments |-> CloseSegment(a[Len(samples)]).segments,
          breaks   |-> CloseSegment(a[Len(samples)]).breaks]
  BY DEF PrepareNumericHistory, c, E
<1> HIDE DEF a
<1>7. a[0] = c /\ \A i \in 1..Len(samples) : a[i] = E(a[i - 1], i)
  BY <1>5
<1>8. PreparedTrace(a, samples, maxGap)
  BY <1>6, <1>7 DEF PreparedTrace, c, E
<1> QED
  BY <1>8

PartOf(q, s) == \A i \in 1..Len(q) : \E j \in 1..Len(s) : q[i] = s[j]

\* The segments of a history.
Segmented(segments, samples) ==
  /\ IsSequence(segments)
  /\ \A k \in 1..Len(segments) : Timed(segments[k]) /\ PartOf(segments[k], samples)

\* Its segments are parts of the history, none empty.
LEMMA PreparedSegments ==
  ASSUME NEW samples, Timed(samples), NEW maxGap
  PROVE  Segmented(PrepareNumericHistory(samples, maxGap).segments, samples)
<1> DEFINE N == Len(samples)
<1>1. N \in Nat
  BY TimedShape
<1>2. PICK g : PreparedTrace(g, samples, maxGap)
  BY <1>1, PreparedTraceExists
<1>3. /\ g[0] = [segments |-> <<>>, current |-> <<>>, breaks |-> {}]
      /\ \A i \in 1..N : g[i] = AddSample(maxGap, g[i - 1], samples[i])
      /\ PrepareNumericHistory(samples, maxGap).segments = CloseSegment(g[N]).segments
  BY <1>2 DEF PreparedTrace
<1> DEFINE T == {n \in Nat : n <= N => Prepared(g[n], samples, n)}
<1>4. 0 \in T
  <2> DEFINE c == [segments |-> <<>>, current |-> <<>>, breaks |-> {}]
  <2>1. c.segments = <<>> /\ c.current = <<>> /\ c.breaks = {}
    OBVIOUS
  <2>2. IsSequence(<<>>) /\ Len(<<>>) = 0
    BY DEF IsSequence
  <2>3. Prepared(c, samples, 0)
    BY <2>1, <2>2, EmptyTimed DEF Prepared
  <2> QED
    BY <1>3, <2>3
<1>5. ASSUME NEW n \in Nat, n \in T PROVE n + 1 \in T
  <2> SUFFICES ASSUME n + 1 <= N PROVE Prepared(g[n + 1], samples, n + 1)
    OBVIOUS
  <2>1. n + 1 \in 1..N /\ (n + 1) - 1 = n /\ n \in 0..N /\ n < N
    BY <1>1
  <2>2. Prepared(g[n], samples, n) /\ g[n + 1] = AddSample(maxGap, g[n], samples[n + 1])
    BY <1>3, <1>5, <2>1
  <2> QED
    BY <2>1, <2>2, AddSampleIs
<1> HIDE DEF T
<1>6. Nat \subseteq T
  BY <1>4, <1>5, SetInduction
<1>7. Prepared(g[N], samples, N)
  BY <1>1, <1>6 DEF T
<1>8. Prepared(CloseSegment(g[N]), samples, N)
  BY <1>1, <1>7, CloseSegmentIs
<1> DEFINE segments == CloseSegment(g[N]).segments
<1>9. /\ IsSequence(segments)
      /\ \A k \in 1..Len(segments) :
           /\ Timed(segments[k])
           /\ \A i \in 1..Len(segments[k]) : \E j \in 1..Len(samples) : segments[k][i] = samples[j]
  BY <1>8 DEF Prepared
<1> HIDE DEF segments
<1>10. Segmented(segments, samples)
  BY <1>9 DEF Segmented, PartOf
<1> QED
  BY <1>3, <1>10 DEF segments

-----------------------------------------------------------------------------
\* The partial sums of SumAt.
SumTrace(g, segment, positions) ==
  /\ g[0] = 0
  /\ \A i \in 1..Len(segment) : g[i] = g[i - 1] + (IF i \in positions THEN segment[i].value ELSE 0)
  /\ SumAt(segment, positions) = g[Len(segment)]

\* The steps in which SumAt adds up values exist.
LEMMA SumTraceExists ==
  ASSUME NEW segment, NEW positions, Len(segment) \in Nat
  PROVE  \E g : SumTrace(g, segment, positions)
<1> DEFINE c == 0
           E(x, i) == x + (IF i \in positions THEN segment[i].value ELSE 0)
           Is(g, n) == g = [i \in 0..n |-> IF i = 0 THEN c ELSE E(g[i - 1], i)]
           T == {n \in Nat : \E g : Is(g, n)}
<1> HIDE DEF c, E
<1>1. 0 \in T
  <2>1. Is([i \in 0..0 |-> c], 0)
    OBVIOUS
  <2> QED
    BY <2>1
<1>2. ASSUME NEW n \in Nat, n \in T PROVE n + 1 \in T
  <2>1. PICK g : Is(g, n)
    BY <1>2
  <2> DEFINE h == [i \in 0..(n + 1) |-> IF i = n + 1 THEN E(g[n], n + 1) ELSE g[i]]
  <2>2. \A i \in 0..(n + 1) : h[i] = IF i = 0 THEN c ELSE E(h[i - 1], i)
    <3> TAKE i \in 0..(n + 1)
    <3>1. CASE i = n + 1
      BY <3>1
    <3>2. CASE i # n + 1
      BY <2>1, <3>2
    <3> QED
      BY <3>1, <3>2
  <2>3. Is(h, n + 1)
    <3>1. h = [i \in 0..(n + 1) |-> h[i]]
      OBVIOUS
    <3> HIDE DEF h
    <3> QED
      BY <2>2, <3>1
  <2> HIDE DEF Is
  <2> QED
    BY <2>3
<1> HIDE DEF T
<1>3. Nat \subseteq T
  BY <1>1, <1>2, SetInduction
<1>4. \E g : Is(g, Len(segment))
  BY <1>3 DEF T
<1> DEFINE a == CHOOSE g : Is(g, Len(segment))
<1>5. Is(a, Len(segment))
  BY <1>4
<1>6. SumAt(segment, positions) = a[Len(segment)]
  BY DEF SumAt, c, E
<1> HIDE DEF a
<1>7. a[0] = c /\ \A i \in 1..Len(segment) : a[i] = E(a[i - 1], i)
  BY <1>5
<1>8. SumTrace(a, segment, positions)
  BY <1>6, <1>7 DEF SumTrace, c, E
<1> QED
  BY <1>8

\* A sum of whole values is whole.
LEMMA SumIsWhole ==
  ASSUME NEW segment, Len(segment) \in Nat, \A i \in 1..Len(segment) : segment[i].value \in Int,
         NEW positions
  PROVE  SumAt(segment, positions) \in Int
<1> DEFINE N == Len(segment)
<1>1. PICK g : SumTrace(g, segment, positions)
  BY SumTraceExists
<1>2. /\ g[0] = 0
      /\ \A i \in 1..N : g[i] = g[i - 1] + (IF i \in positions THEN segment[i].value ELSE 0)
      /\ SumAt(segment, positions) = g[N]
  BY <1>1 DEF SumTrace
<1> DEFINE T == {n \in Nat : n <= N => g[n] \in Int}
<1>3. 0 \in T
  BY <1>2
<1>4. ASSUME NEW n \in Nat, n \in T PROVE n + 1 \in T
  <2> SUFFICES ASSUME n + 1 <= N PROVE g[n + 1] \in Int
    OBVIOUS
  <2>1. n + 1 \in 1..N /\ (n + 1) - 1 = n /\ n <= N
    OBVIOUS
  <2>2. g[n + 1] = g[n] + (IF n + 1 \in positions THEN segment[n + 1].value ELSE 0)
    BY <1>2, <2>1
  <2>3. g[n] \in Int /\ segment[n + 1].value \in Int
    BY <1>4, <2>1
  <2> QED
    BY <2>2, <2>3
<1> HIDE DEF T
<1>5. Nat \subseteq T
  BY <1>3, <1>4, SetInduction
<1>6. g[N] \in Int
  BY <1>5 DEF T
<1> QED
  BY <1>2, <1>6

\* The number of some of the positions of a segment.
LEMMA CountIs ==
  ASSUME NEW n \in Nat, NEW P, P \subseteq 1..n
  PROVE  Cardinality(P) \in 0..n
<1>1. IsFiniteSet(1..n) /\ Cardinality(1..n) = n
  BY FS_Interval
<1>2. IsFiniteSet(P) /\ Cardinality(P) <= n
  BY <1>1, FS_Subset
<1>3. Cardinality(P) \in Nat
  BY <1>2, FS_CardinalityType
<1> QED
  BY <1>2, <1>3

\* Whatever the range is, the readings in it are some of the readings.
LEMMA BetweenPart ==
  ASSUME NEW s, Timed(s), NEW from, NEW to
  PROVE  LET q == Between(s, from, to)
         IN  Timed(q) /\ \A i \in 1..Len(q) : \E j \in 1..Len(s) : q[i] = s[j]
<1> DEFINE a == Earlier(s, from)
           b == Earlier(s, to)
           q == SubSeq(s, a + 1, b)
<1>1. Len(s) \in Nat /\ DOMAIN s = 1..Len(s)
  BY TimedShape
<1>2. a \in 0..Len(s) /\ b \in 0..Len(s)
  <2>1. \A t : Earlier(s, t) \in 0..Len(s)
    <3> TAKE t
    <3>1. {i \in DOMAIN s : s[i].time < t} \subseteq 1..Len(s)
      BY <1>1
    <3> QED
      BY <1>1, <3>1, CountIs DEF Earlier
  <2> QED
    BY <2>1
<1>3. Between(s, from, to) = q
  BY DEF Between
<1> HIDE DEF a, b
<1>4. a + 1 \in 1..(Len(s) + 1)
  BY <1>1, <1>2
<1>5. /\ Timed(q)
      /\ \A i \in 1..Len(q) : (a + 1) + i - 1 \in (a + 1)..b /\ q[i] = s[(a + 1) + i - 1]
  BY <1>2, <1>4, TimedSub
<1> HIDE DEF q
<1>6. \A i \in 1..Len(q) : \E j \in 1..Len(s) : q[i] = s[j]
  <2> TAKE i \in 1..Len(q)
  <2>1. (a + 1) + i - 1 \in 1..Len(s) /\ q[i] = s[(a + 1) + i - 1]
    <3>1. (a + 1) + i - 1 \in (a + 1)..b /\ q[i] = s[(a + 1) + i - 1]
      BY <1>5
    <3>2. (a + 1)..b \subseteq 1..Len(s)
      BY <1>1, <1>2
    <3> QED
      BY <3>1, <3>2
  <2> QED
    BY <2>1
<1> QED
  BY <1>3, <1>5, <1>6

-----------------------------------------------------------------------------
\* The readings near a time, their mean, and the readings that have enough of them near.
Near(point, segment, t) ==
  {j \in DOMAIN segment : /\ t - Drift!TrendLeft(point) <= segment[j].time
                          /\ segment[j].time <= t + Drift!TrendRight(point)}
MeanNear(point, segment, t) ==
  SumAt(segment, Near(point, segment, t)) \div Cardinality(Near(point, segment, t))
Enough(point, segment) ==
  {i \in DOMAIN segment : Cardinality(Near(point, segment, segment[i].time)) >= point.minSamples}
EnoughNear(point, segment) == Subsequence(segment, Enough(point, segment))

\* The loop of rolling_mean.
RollingTrace(g, point, segment) ==
  /\ g[0] = <<>>
  /\ \A i \in 1..Len(EnoughNear(point, segment)) : g[i] = Append(g[i - 1], [time  |-> EnoughNear(point, segment)[i].time,
                      pv    |-> EnoughNear(point, segment)[i].value,
                      value |-> MeanNear(point, segment, EnoughNear(point, segment)[i].time)])
  /\ Drift!RollingMean(point, segment) = g[Len(EnoughNear(point, segment))]

\* The steps of the rolling mean exist.
LEMMA RollingTraceExists ==
  ASSUME NEW point, NEW segment, Len(EnoughNear(point, segment)) \in Nat
  PROVE  \E g : RollingTrace(g, point, segment)
<1> DEFINE c == <<>>
           E(x, i) == Append(x, [time  |-> EnoughNear(point, segment)[i].time,
                      pv    |-> EnoughNear(point, segment)[i].value,
                      value |-> MeanNear(point, segment, EnoughNear(point, segment)[i].time)])
           Is(g, n) == g = [i \in 0..n |-> IF i = 0 THEN c ELSE E(g[i - 1], i)]
           T == {n \in Nat : \E g : Is(g, n)}
<1> HIDE DEF c, E
<1>1. 0 \in T
  <2>1. Is([i \in 0..0 |-> c], 0)
    OBVIOUS
  <2> QED
    BY <2>1
<1>2. ASSUME NEW n \in Nat, n \in T PROVE n + 1 \in T
  <2>1. PICK g : Is(g, n)
    BY <1>2
  <2> DEFINE h == [i \in 0..(n + 1) |-> IF i = n + 1 THEN E(g[n], n + 1) ELSE g[i]]
  <2>2. \A i \in 0..(n + 1) : h[i] = IF i = 0 THEN c ELSE E(h[i - 1], i)
    <3> TAKE i \in 0..(n + 1)
    <3>1. CASE i = n + 1
      BY <3>1
    <3>2. CASE i # n + 1
      BY <2>1, <3>2
    <3> QED
      BY <3>1, <3>2
  <2>3. Is(h, n + 1)
    <3>1. h = [i \in 0..(n + 1) |-> h[i]]
      OBVIOUS
    <3> HIDE DEF h
    <3> QED
      BY <2>2, <3>1
  <2> HIDE DEF Is
  <2> QED
    BY <2>3
<1> HIDE DEF T
<1>3. Nat \subseteq T
  BY <1>1, <1>2, SetInduction
<1>4. \E g : Is(g, Len(EnoughNear(point, segment)))
  BY <1>3 DEF T
<1> DEFINE a == CHOOSE g : Is(g, Len(EnoughNear(point, segment)))
<1>5. Is(a, Len(EnoughNear(point, segment)))
  BY <1>4
<1>6. Drift!RollingMean(point, segment) = a[Len(EnoughNear(point, segment))]
  BY DEF Drift!RollingMean, Drift!SumAt, SumAt, Drift!Subsequence, Subsequence,
       Drift!Cardinality, Cardinality, Near, MeanNear, Enough, EnoughNear, c, E
<1> HIDE DEF a
<1>7. a[0] = c /\ \A i \in 1..Len(EnoughNear(point, segment)) : a[i] = E(a[i - 1], i)
  BY <1>5
<1>8. RollingTrace(a, point, segment)
  BY <1>6, <1>7 DEF RollingTrace, c, E
<1> QED
  BY <1>8

\* A trend has its times in order and its values are numbers.
IsTrend(trend) ==
  /\ Timed(trend)
  /\ \A i \in 1..Len(trend) : trend[i].pv \in Int /\ trend[i].value \in Int

\* A rolling mean has whole values at times of the segment, in order.
LEMMA RollingMeanIs ==
  ASSUME NEW point, point.minSamples \in Nat \ {0}, NEW segment, Timed(segment),
         \A i \in 1..Len(segment) : segment[i].value \in Int
  PROVE  IsTrend(Drift!RollingMean(point, segment))
<1> DEFINE e == EnoughNear(point, segment)
           N == Len(e)
           mean(t) == MeanNear(point, segment, t)
<1>1. Len(segment) \in Nat /\ DOMAIN segment = 1..Len(segment)
  BY TimedShape
<1>2. /\ Timed(e)
      /\ \A k \in 1..N : \E i \in 1..Len(segment) : i \in Enough(point, segment) /\ e[k] = segment[i]
  BY TimedSubsequence DEF EnoughNear
<1>3. ASSUME NEW k \in 1..N PROVE e[k].value \in Int /\ mean(e[k].time) \in Int
  <2>1. PICK i \in 1..Len(segment) : i \in Enough(point, segment) /\ e[k] = segment[i]
    BY <1>2
  <2> DEFINE P == Near(point, segment, segment[i].time)
  <2>2. Cardinality(P) >= point.minSamples
    BY <2>1 DEF Enough
  <2>3. P \subseteq 1..Len(segment)
    BY <1>1 DEF Near
  <2> HIDE DEF P
  <2>4. Cardinality(P) \in 0..Len(segment)
    BY <1>1, <2>3, CountIs
  <2>5. Cardinality(P) \in Nat \ {0}
    BY <1>1, <2>2, <2>4
  <2>6. SumAt(segment, P) \in Int
    BY <1>1, SumIsWhole
  <2>7. SumAt(segment, P) \div Cardinality(P) \in Int
    BY <2>5, <2>6
  <2> QED
    BY <2>1, <2>7 DEF MeanNear, P
<1>4. PICK g : RollingTrace(g, point, segment)
  BY <1>2, TimedShape, RollingTraceExists
<1>5. /\ g[0] = <<>>
      /\ \A i \in 1..N : g[i] = Append(g[i - 1], [time |-> e[i].time, pv |-> e[i].value,
                                                  value |-> mean(e[i].time)])
      /\ Drift!RollingMean(point, segment) = g[N]
  BY <1>4 DEF RollingTrace
<1>6. N \in Nat
  BY <1>2, TimedShape
<1> HIDE DEF e, mean
<1> DEFINE Good(q, n) == /\ IsTrend(q) /\ Len(q) = n
                         /\ \A i \in 1..n : q[i].time = e[i].time
           T == {n \in Nat : n <= N => Good(g[n], n)}
<1>7. 0 \in T
  <2>1. Good(<<>>, 0)
    BY EmptyTimed DEF IsTrend
  <2> QED
    BY <1>5, <2>1
<1>8. ASSUME NEW n \in Nat, n \in T PROVE n + 1 \in T
  <2> SUFFICES ASSUME n + 1 <= N PROVE Good(g[n + 1], n + 1)
    OBVIOUS
  <2>1. n + 1 \in 1..N /\ (n + 1) - 1 = n /\ n <= N
    BY <1>6
  <2> DEFINE q == g[n]
             x == [time |-> e[n + 1].time, pv |-> e[n + 1].value, value |-> mean(e[n + 1].time)]
  <2>2. Good(q, n)
    BY <1>8, <2>1
  <2>3. g[n + 1] = Append(q, x)
    BY <1>5, <2>1
  <2>4. x.time = e[n + 1].time /\ x.pv \in Int /\ x.value \in Int
    BY <1>3, <2>1
  <2> HIDE DEF q, x
  <2>5. Timed(q) /\ Len(q) = n /\ x.time \in Nat \ {0}
    BY <1>2, <2>1, <2>2, <2>4 DEF IsTrend, Timed
  <2>6. \A i \in 1..Len(q) : q[i].time <= x.time
    <3> TAKE i \in 1..Len(q)
    <3>1. i \in 1..N /\ i <= n + 1 /\ q[i].time = e[i].time
      BY <2>1, <2>2, <2>5
    <3> QED
      BY <1>2, <2>1, <2>4, <3>1 DEF Timed
  <2> DEFINE r == Append(q, x)
  <2>7. /\ Timed(r) /\ Len(r) = n + 1
        /\ \A i \in 1..n : r[i] = q[i]
        /\ r[n + 1] = x
    BY <2>5, <2>6, TimedAppend
  <2> HIDE DEF r
  <2>8. \A i \in 1..(n + 1) : i \in 1..n \/ i = n + 1
    OBVIOUS
  <2>9. \A i \in 1..(n + 1) : r[i].pv \in Int /\ r[i].value \in Int /\ r[i].time = e[i].time
    BY <2>2, <2>4, <2>5, <2>7, <2>8 DEF IsTrend
  <2>10. Good(r, n + 1)
    BY <2>7, <2>9 DEF IsTrend
  <2> QED
    BY <2>3, <2>10 DEF r
<1> HIDE DEF T
<1>9. Nat \subseteq T
  BY <1>7, <1>8, SetInduction
<1>10. Good(g[N], N)
  BY <1>6, <1>9 DEF T
<1> QED
  BY <1>5, <1>10

-----------------------------------------------------------------------------
\* Drift prepares and reads histories as the modules that it extends.
LEMMA SameTrend ==
  /\ \A samples, maxGap :
       Drift!PrepareNumericHistory(samples, maxGap) = PrepareNumericHistory(samples, maxGap)
  /\ \A s, from, to : Drift!GetHistory(s, from, to) = Between(s, from, to)
  /\ \A s, from, to : Drift!SliceMetric(s, from, to) = Between(s, from, to)
<1>1. \A samples, maxGap :
       Drift!PrepareNumericHistory(samples, maxGap) = PrepareNumericHistory(samples, maxGap)
  BY DEF PrepareNumericHistory, AddSample, CloseSegment, Last, Drift!PrepareNumericHistory,
         Drift!AddSample, Drift!CloseSegment, Drift!Last
<1>2. \A s, from, to : Drift!Between(s, from, to) = Between(s, from, to)
  BY DEF Between, Earlier, Cardinality, Drift!Between, Drift!Earlier, Drift!Cardinality
<1> QED
  BY <1>1, <1>2 DEF Drift!GetHistory, Drift!SliceMetric

\* The trends that evaluate reads of a point.
LEMMA TrendsReadAre ==
  ASSUME HistoryInv, NEW point \in TrendPoints, NEW w \in Window, rule = "trend",
         NEW trend \in TrendsRead(point, w)
  PROVE  IsTrend(trend)
<1> DEFINE from == Start(w) - Drift!LeftPadding(point)
           to == End(w) + Drift!TrendRight(point)
           samples == Between(recorded[point.tag], from, to)
           segments == PrepareNumericHistory(samples, point.maxGap).segments
<1>1. point.tag \in DOMAIN recorded
  BY TagsAssumption DEF HistoryInv
<1>2. /\ Timed(recorded[point.tag])
      /\ \A i \in 1..Len(recorded[point.tag]) : recorded[point.tag][i].value \in Int
  <2> DEFINE s == recorded[point.tag]
  <2>1. s \in Seq(Sample) /\ Timed(s)
    BY <1>1 DEF HistoryInv
  <2> HIDE DEF s
  <2>2. \A i \in 1..Len(s) : s[i] \in Sample
    BY <2>1
  <2>3. \A i \in 1..Len(s) : s[i].value \in Int
    BY <2>2 DEF Sample
  <2> QED
    BY <2>1, <2>3 DEF s
<1> HIDE DEF from, to
<1>3. Timed(samples) /\ \A i \in 1..Len(samples) : samples[i].value \in Int
  BY <1>2, BetweenPart
<1>4. TrendsRead(point, w) = {Drift!RollingMean(point, segments[i]) : i \in DOMAIN segments}
  BY SameTrend DEF TrendsRead, Drift!TrendsFor, Drift!TrendsOf, Drift!NumericSegments, from, to
<1> HIDE DEF samples
<1>5. /\ IsSequence(segments)
      /\ \A k \in 1..Len(segments) :
           /\ Timed(segments[k])
           /\ \A i \in 1..Len(segments[k]) : \E j \in 1..Len(samples) : segments[k][i] = samples[j]
  <2>1. Segmented(segments, samples)
    BY <1>3, PreparedSegments
  <2> HIDE DEF segments
  <2> QED
    BY <2>1 DEF Segmented, PartOf
<1> HIDE DEF segments
<1>6. PICK k \in DOMAIN segments : trend = Drift!RollingMean(point, segments[k])
  BY <1>4
<1>7. k \in 1..Len(segments)
  BY <1>5 DEF IsSequence
<1>8. Timed(segments[k]) /\ \A i \in 1..Len(segments[k]) : segments[k][i].value \in Int
  BY <1>3, <1>5, <1>7
<1>9. point.minSamples \in Nat \ {0}
  BY PointsAreValid DEF Drift!ValidTrendPoint
<1> QED
  BY <1>6, <1>8, <1>9, RollingMeanIs

\* The largest of the times of a trend, 0 if it has none, but not more than end.
LEMMA HorizonIs ==
  ASSUME NEW trend, Timed(trend), NEW end \in Nat
  PROVE  /\ Drift!ObservationEnd(Drift!Times(trend), end) \in Nat
         /\ Drift!ObservationEnd(Drift!Times(trend), end) <= end
<1> DEFINE N == Len(trend)
           T == {0} \cup Drift!Times(trend)
           last == IF N = 0 THEN 0 ELSE trend[N].time
           M == Drift!Max(T)
<1>1. N \in Nat /\ DOMAIN trend = 1..N
  BY TimedShape
<1>2. last \in Nat
  <2>1. N # 0 => N \in 1..N
    BY <1>1
  <2> QED
    BY <2>1 DEF Timed
<1>3. T \subseteq 0..last
  <2> SUFFICES ASSUME NEW i \in 1..N PROVE trend[i].time \in 0..last
    BY <1>1, <1>2 DEF Drift!Times, Drift!Range
  <2>1. N \in 1..N /\ i <= N /\ N # 0
    BY <1>1
  <2> QED
    BY <1>2, <2>1 DEF Timed
<1> HIDE DEF last
<1> HIDE DEF T
<1>4. T # {}
  BY DEF T
<1>5. \E x \in T : \A y \in T : y <= x
  BY <1>2, <1>3, <1>4, GreatestNumber
<1>6. T \subseteq Nat
  BY <1>2, <1>3
<1>7. M \in Nat
  <2>1. \E x \in T : \A y \in T : x >= y
    BY <1>5, <1>6
  <2>2. M \in T
    BY <2>1 DEF Drift!Max
  <2> QED
    BY <1>6, <2>2
<1> HIDE DEF M
<1> DEFINE S == {end, M}
<1>8. \E x \in S : \A y \in S : x <= y
  <2>1. end <= M \/ M <= end
    BY <1>7
  <2> QED
    BY <1>7, <2>1
<1>9. Drift!Min(S) \in S /\ \A y \in S : Drift!Min(S) <= y
  <2> HIDE DEF S
  <2> QED
    BY <1>8 DEF Drift!Min
<1> QED
  BY <1>7, <1>9 DEF Drift!ObservationEnd, M, T

\* The deviations that stability looks at are in order, and in the window.
LEMMA StabilityLineIs ==
  ASSUME NEW point \in TrendPoints, NEW trend, IsTrend(trend), NEW start \in Nat, NEW end \in Nat
  PROVE  LET line == Drift!StabilityLine(point, trend, start, end)
         IN  /\ IsTrendLine(line, Len(line))
             /\ \A i \in 1..Len(line) : start <= line[i].time /\ line[i].time < end
<1> DEFINE slice == Between(trend, start, end)
           N == Len(slice)
           line == [i \in DOMAIN slice |-> Drift!StabilityObs(point, slice[i])]
<1>1. Drift!StabilityLine(point, trend, start, end) = line
  BY SameTrend DEF Drift!StabilityLine
<1>2. /\ Timed(slice)
      /\ \A i \in 1..N : start <= slice[i].time /\ slice[i].time < end
  BY BetweenIs DEF IsTrend
<1>3. \A i \in 1..N : slice[i].pv \in Int /\ slice[i].value \in Int
  BY BetweenPart DEF IsTrend
<1> HIDE DEF slice
<1>4. N \in Nat /\ DOMAIN slice = 1..N
  BY <1>2, TimedShape
<1>5. Len(line) = N /\ DOMAIN line = 1..N
  BY <1>4
<1>6. point.stability.warning \in Nat /\ point.stability.high \in Nat
      /\ point.stability.warning < point.stability.high
  BY PointsAreValid DEF Drift!ValidTrendPoint
<1>7. ASSUME NEW i \in 1..N
      PROVE  /\ line[i].time = slice[i].time /\ line[i].time \in Nat \ {0}
             /\ line[i].dir \in {"none", "off", "up", "down"}
             /\ line[i].high \in BOOLEAN
             /\ line[i].high => line[i].dir # "none"
  <2> DEFINE size == Drift!Size(slice[i].pv - slice[i].value)
  <2>1. size \in Int
    BY <1>3 DEF Drift!Size
  <2>2. /\ line[i].time = slice[i].time
        /\ line[i].high = (size > point.stability.high)
        /\ line[i].dir = IF size > point.stability.warning THEN "off" ELSE "none"
    BY <1>4 DEF Drift!StabilityObs
  <2> HIDE DEF size, line
  <2>3. (size > point.stability.high) \in BOOLEAN
    OBVIOUS
  <2>4. size > point.stability.high => size > point.stability.warning
    BY <1>6, <2>1
  <2>5. slice[i].time \in Nat \ {0}
    BY <1>2 DEF Timed
  <2> QED
    BY <2>2, <2>3, <2>4, <2>5
<1> HIDE DEF line
<1>8. IsTrendLine(line, N)
  BY <1>4, <1>5, <1>7 DEF IsTrendLine, IsLine
<1> QED
  BY <1>1, <1>2, <1>5, <1>7, <1>8

\* Runs that lie in a window are not clipped to it.
LEMMA ClippedIsSame ==
  ASSUME NEW found, NEW start \in Int, NEW end \in Int,
         \A e \in found : /\ e = [start |-> e.start, end |-> e.end, dir |-> e.dir, high |-> e.high]
                          /\ e.start \in Int /\ e.end \in Int
                          /\ start <= e.start /\ e.start < e.end /\ e.end <= end
  PROVE  Drift!Clipped(found, start, end) = found
<1>1. ASSUME NEW f \in found
      PROVE  [f EXCEPT !.start = Drift!Max({@, start}), !.end = Drift!Min({@, end})] = f
  <2> DEFINE a == f.start
             b == f.end
             c == f.dir
             d == f.high
             x == Drift!Max({a, start})
             y == Drift!Min({b, end})
  <2>1. /\ f = [start |-> a, end |-> b, dir |-> c, high |-> d]
        /\ a \in Int /\ b \in Int /\ start <= a /\ a < b /\ b <= end
    OBVIOUS
  <2> HIDE DEF a, b, c, d
  <2>2. x = a
    <3> DEFINE S == {a, start}
    <3>1. a \in S /\ \A z \in S : a >= z
      BY <2>1
    <3>2. \A z \in S : (\A u \in S : z >= u) => z = a
      BY <2>1
    <3> HIDE DEF S
    <3>3. Drift!Max(S) \in S /\ \A u \in S : Drift!Max(S) >= u
      BY <3>1 DEF Drift!Max
    <3> QED
      BY <3>2, <3>3 DEF S
  <2>3. y = b
    <3> DEFINE S == {b, end}
    <3>1. b \in S /\ \A z \in S : b <= z
      BY <2>1
    <3>2. \A z \in S : (\A u \in S : z <= u) => z = b
      BY <2>1
    <3> HIDE DEF S
    <3>3. Drift!Min(S) \in S /\ \A u \in S : Drift!Min(S) <= u
      BY <3>1 DEF Drift!Min
    <3> QED
      BY <3>2, <3>3 DEF S
  <2>4. [f EXCEPT !.start = Drift!Max({@, start}), !.end = Drift!Min({@, end})]
          = [f EXCEPT !.start = x, !.end = y]
    BY DEF a, b
  <2> HIDE DEF x, y
  <2>5. [f EXCEPT !.start = x, !.end = y] = f
    <3> DEFINE q == [f EXCEPT !.start = x, !.end = y]
    <3>1. q = [f EXCEPT !.start = x, !.end = y]
      OBVIOUS
    <3> HIDE DEF q
    <3>2. q = [start |-> x, end |-> y, dir |-> c, high |-> d]
      BY <2>1, <3>1
    <3>3. q = f
      BY <2>1, <2>2, <2>3, <3>2
    <3> QED
      BY <3>3 DEF q
  <2> QED
    BY <2>4, <2>5
<1>2. {[f EXCEPT !.start = Drift!Max({@, start}), !.end = Drift!Min({@, end})] : f \in found}
        = found
  BY <1>1
<1> QED
  BY <1>2 DEF Drift!Clipped

\* The long runs of a line that lies in a window, with a horizon not after its end.
LEMMA LongRunsWithin ==
  ASSUME NEW line, NEW N, IsTrendLine(line, N), NEW minDuration, NEW mergeGap,
         NEW horizon \in Int, NEW start \in Int, NEW end \in Int, horizon <= end,
         \A i \in 1..N : start <= line[i].time /\ line[i].time < end,
         NEW e \in LongRuns(line, minDuration, mergeGap, horizon)
  PROVE  /\ e = [start |-> e.start, end |-> e.end, dir |-> e.dir, high |-> e.high]
         /\ e.start \in Int /\ e.end \in Int
         /\ start <= e.start /\ e.start < e.end /\ e.end <= end
<1> DEFINE obs == TrendObs(line)
           gap == TrendGap(mergeGap)
<1>1. /\ IsLine(obs, N) /\ IsLine(line, N)
      /\ \A i \in 1..N : line[i].time \in Nat \ {0}
  BY TrendObsIs DEF IsTrendLine
<1>2. PICK i \in RunStarts(obs, gap) : e \in TrendCharged(line, minDuration, mergeGap, horizon, i)
  BY <1>1, LongRunsAre
<1> DEFINE l == LastOf(obs, gap, i)
           last == IF l < Len(line) THEN line[l + 1].time ELSE horizon
<1>3. l \in 1..N /\ i \in 1..N
  BY <1>1, <1>2, LastInLine
<1>4. e = [start |-> line[i].time, dir |-> line[i].dir, end |-> last,
           high |-> IsHigh(line, i, l)] /\ LongEnough(e, minDuration)
  BY <1>2 DEF TrendCharged, TrendEvent
<1> HIDE DEF obs, gap, l
<1>5. last \in Int /\ last <= end
  <2>1. l < N => l + 1 \in 1..N
    BY <1>1, <1>3 DEF IsLine
  <2> QED
    BY <1>1, <2>1 DEF IsLine
<1> HIDE DEF last
<1>6. e.start = line[i].time /\ e.end = last /\ e.dir = line[i].dir /\ e.high = IsHigh(line, i, l)
  BY <1>4
<1>7. e.end > e.start
  BY <1>4 DEF LongEnough
<1> QED
  BY <1>1, <1>3, <1>4, <1>5, <1>6, <1>7

\* The rule analog_trend_stability charges for instability exactly the merged runs of
\* deviations in the window: detect_stability_events loses none, splits none at a short
\* recovery, joins none across a long one and calls high those that are high somewhere.
THEOREM StabilityCharged == Spec => []StabilityFound
<1>1. ASSUME HistoryInv PROVE StabilityFound
  <2> SUFFICES ASSUME NEW point \in TrendPoints, NEW w \in Window, TrendAssessed(point, w),
                      point.stability.enabled, NEW trend \in TrendsRead(point, w)
               PROVE  Drift!StabilityEvents(point, trend, Start(w), End(w))
                        = LongRuns(Drift!StabilityLine(point, trend, Start(w), End(w)),
                                   point.stability.minDuration, point.stability.mergeGap,
                                   Drift!ObservationEnd(Drift!Times(trend), End(w)))
    BY DEF StabilityFound
  <2> DEFINE line == Drift!StabilityLine(point, trend, Start(w), End(w))
             horizon == Drift!ObservationEnd(Drift!Times(trend), End(w))
             duration == point.stability.minDuration
             gap == point.stability.mergeGap
             found == Drift!DetectTrendRuns(line, duration, gap, horizon)
  <2>1. Start(w) \in Nat /\ End(w) \in Nat /\ Start(w) < End(w)
    BY <1>1, WindowIs
  <2>2. IsTrend(trend)
    BY <1>1, TrendsReadAre DEF TrendAssessed
  <2>3. horizon \in Nat /\ horizon <= End(w)
    BY <2>1, <2>2, HorizonIs DEF IsTrend
  <2>4. /\ IsTrendLine(line, Len(line))
        /\ \A i \in 1..Len(line) : Start(w) <= line[i].time /\ line[i].time < End(w)
    BY <2>1, <2>2, StabilityLineIs
  <2>5. duration \in Nat /\ gap \in Nat
    BY PointsAreValid DEF Drift!ValidTrendPoint
  <2>6. Drift!StabilityEvents(point, trend, Start(w), End(w))
          = Drift!Clipped(found, Start(w), End(w))
    BY DEF Drift!StabilityEvents
  <2> HIDE DEF line, horizon, duration, gap
  <2>7. found = LongRuns(line, duration, gap, horizon)
    BY <2>3, <2>4, <2>5, TrendRunsFound
  <2> HIDE DEF found
  <2>8. \A e \in found :
          /\ e = [start |-> e.start, end |-> e.end, dir |-> e.dir, high |-> e.high]
          /\ e.start \in Int /\ e.end \in Int
          /\ Start(w) <= e.start /\ e.start < e.end /\ e.end <= End(w)
    BY <2>1, <2>3, <2>4, <2>7, LongRunsWithin, SMTT(30)
  <2>9. Drift!Clipped(found, Start(w), End(w)) = found
    BY <2>1, <2>8, ClippedIsSame
  <2> QED
    BY <2>6, <2>7, <2>9 DEF line, horizon, duration, gap
<1> QED
  BY <1>1, HistoryOrdered, PTL

-----------------------------------------------------------------------------
\* The direction of a value, and the runs that SegmentExceedances takes of a line.
DirOf(point, v) ==
  IF Limit!Classify(point, v) = "normal" THEN "none" ELSE Limit!Classify(point, v)
LimitGap(point) == [side \in Limit!Sides |-> point[side].mergeGap]
LimitEvent(point, line, horizon, boundary, i) ==
  LET l == LastOf(line, LimitGap(point), i)
  IN  [start |-> line[i].time, type |-> line[i].dir,
       open  |-> ~(l < Len(line)) /\ boundary = 0,
       end   |-> IF l < Len(line) THEN line[l + 1].time
                 ELSE IF boundary # 0 THEN boundary ELSE horizon]
LimitCharged(point, line, horizon, boundary, i) ==
  {e \in {LimitEvent(point, line, horizon, boundary, i)} :
     e.end - e.start > point[e.type].minDuration}
LimitRuns(point, line, horizon, boundary) ==
  UNION {LimitCharged(point, line, horizon, boundary, i) : i \in RunStarts(line, LimitGap(point))}

IsLimitLine(point, line, items, N) ==
  /\ IsLine(line, N)
  /\ \A i \in 1..N : /\ line[i].time = items[i].time /\ line[i].time \in Nat \ {0}
                     /\ line[i].dir = DirOf(point, items[i].value)
                     /\ line[i].fresh = FALSE

\* A value is low, high or normal.
LEMMA ClassifyIs ==
  ASSUME NEW point, NEW v
  PROVE  /\ Limit!Classify(point, v) \in {"low", "high", "normal"}
         /\ DirOf(point, v) \in {"low", "high", "none"}
         /\ DirOf(point, v) = "none" <=> Limit!Classify(point, v) = "normal"
         /\ DirOf(point, v) # "none" => DirOf(point, v) = Limit!Classify(point, v)
BY DEF Limit!Classify, DirOf

\* The long runs of a line, one by one.
LEMMA LimitRunsAre ==
  ASSUME NEW point, NEW line, NEW N, IsLine(line, N), \A i \in 1..N : line[i].fresh = FALSE,
         NEW horizon, NEW boundary
  PROVE  LET event(run) ==
               [start |-> line[run.first].time, type |-> line[run.first].dir,
                open  |-> ~Over(line, run) /\ boundary = 0,
                end   |-> IF Over(line, run) THEN OverAt(line, run)
                          ELSE IF boundary # 0 THEN boundary ELSE horizon]
         IN  {e \in {event(run) : run \in MergedRuns(line, LimitGap(point))} :
                e.end - e.start > point[e.type].minDuration}
               = LimitRuns(point, line, horizon, boundary)
<1> DEFINE gap == LimitGap(point)
           event(run) ==
             [start |-> line[run.first].time, type |-> line[run.first].dir,
              open  |-> ~Over(line, run) /\ boundary = 0,
              end   |-> IF Over(line, run) THEN OverAt(line, run)
                        ELSE IF boundary # 0 THEN boundary ELSE horizon]
<1>1. MergedRuns(line, gap) = {RunAt(line, gap, i) : i \in RunStarts(line, gap)}
  BY MergedRunsAre
<1> HIDE DEF gap
<1>2. ASSUME NEW i \in RunStarts(line, gap)
      PROVE  event(RunAt(line, gap, i)) = LimitEvent(point, line, horizon, boundary, i)
  <2> DEFINE r == RunAt(line, gap, i)
             l == LastOf(line, gap, i)
  <2>1. r.first = i /\ r.last = l
    BY DEF RunAt
  <2>2. l \in 1..N
    BY LastInLine
  <2>3. Over(line, r) <=> l < Len(line)
    BY <2>1 DEF Over
  <2>4. l < Len(line) => OverAt(line, r) = line[l + 1].time
    <3>1. l < Len(line) => l + 1 \in 1..N
      BY <2>2 DEF IsLine
    <3> QED
      BY <2>1, <3>1 DEF OverAt
  <2> HIDE DEF r, l
  <2>5. event(r) = [start |-> line[i].time, type |-> line[i].dir,
                    open  |-> ~(l < Len(line)) /\ boundary = 0,
                    end   |-> IF l < Len(line) THEN line[l + 1].time
                              ELSE IF boundary # 0 THEN boundary ELSE horizon]
    BY <2>1, <2>3, <2>4
  <2> QED
    BY <2>5 DEF LimitEvent, r, l, gap
<1> HIDE DEF event
<1>3. {event(run) : run \in MergedRuns(line, gap)}
        = {LimitEvent(point, line, horizon, boundary, i) : i \in RunStarts(line, gap)}
  BY <1>1, <1>2
<1>4. {e \in {event(run) : run \in MergedRuns(line, gap)} :
         e.end - e.start > point[e.type].minDuration}
        = LimitRuns(point, line, horizon, boundary)
  BY <1>3 DEF LimitRuns, LimitCharged, gap
<1> QED
  BY <1>4 DEF event, gap

-----------------------------------------------------------------------------
\* One reading while no run is known.
LEMMA StepIdleIs ==
  ASSUME NEW s, NEW f, NEW kind, NEW time, NEW allow, NEW d,
         d = [state |-> s, run |-> Limit!NoRun, found |-> f]
  PROVE  Limit!StepIdle(d, kind, time, allow)
           = [state |-> kind,
              run   |-> IF kind # "normal" /\ kind # s /\ (s = "unknown" => allow)
                        THEN Limit!NewRun(kind, time) ELSE Limit!NoRun,
              found |-> f]
<1> DEFINE x == IF kind # "normal" /\ kind # s /\ (s = "unknown" => allow)
                THEN Limit!NewRun(kind, time) ELSE Limit!NoRun
           e == Limit!StepIdle(d, kind, time, allow)
<1>1. d.state = s
  OBVIOUS
<1>2. e = [d EXCEPT !.state = kind, !.run = x]
  BY <1>1 DEF Limit!StepIdle
<1> HIDE DEF x, e
<1>3. e = [state |-> kind, run |-> x, found |-> f]
  BY <1>2
<1> QED
  BY <1>3 DEF x, e

\* One reading while there is a run: what becomes of it.
RunStep(point, s, a, b, p, f, kind, time, d) ==
  LET run == [side |-> a, start |-> b, pending |-> p]
      e   == Limit!StepRun(point, d, kind, time)
      end == IF p # 0 THEN p ELSE time
      go  == kind = a /\ (p = 0 \/ time - p <= point[a].mergeGap)
  IN  /\ kind = "normal" =>
           e = [state |-> s, run |-> [side |-> a, start |-> b, pending |-> end], found |-> f]
      /\ kind # "normal" /\ go =>
           e = [state |-> s, run |-> [side |-> a, start |-> b, pending |-> 0], found |-> f]
      /\ kind # "normal" /\ ~go =>
           e = [state |-> kind, run |-> Limit!NewRun(kind, time),
                found |-> f \cup Limit!Closed(point, run, end)]

\* The three ways in which a state with a run may look.
LEMMA StepRunIs ==
  ASSUME NEW point, NEW s, NEW a, NEW b, NEW p, NEW f, NEW kind, NEW time, NEW d,
         a # "normal",
         d = [state |-> s, run |-> [side |-> a, start |-> b, pending |-> p], found |-> f]
  PROVE  RunStep(point, s, a, b, p, f, kind, time, d)
<1> DEFINE run == [side |-> a, start |-> b, pending |-> p]
           e   == Limit!StepRun(point, d, kind, time)
           end == IF p # 0 THEN p ELSE time
           go  == kind = a /\ (p = 0 \/ time - p <= point[a].mergeGap)
<1>1. d.run = run /\ d.found = f /\ run.side = a /\ run.pending = p
  OBVIOUS
<1>2. Limit!Resumes(point, run, time) <=> (p = 0 \/ time - p <= point[a].mergeGap)
  BY DEF Limit!Resumes
<1>3. ASSUME kind = "normal"
      PROVE  e = [state |-> s, run |-> [side |-> a, start |-> b, pending |-> end], found |-> f]
  <2>1. e = [d EXCEPT !.run.pending = end]
    BY <1>1, <1>3 DEF Limit!StepRun
  <2> HIDE DEF e, end
  <2> QED
    BY <2>1
<1>4. ASSUME kind # "normal", go
      PROVE  e = [state |-> s, run |-> [side |-> a, start |-> b, pending |-> 0], found |-> f]
  <2>1. e = [d EXCEPT !.run.pending = 0]
    BY <1>1, <1>2, <1>4 DEF Limit!StepRun
  <2> HIDE DEF e
  <2> QED
    BY <2>1
<1>5. ASSUME kind # "normal", ~go
      PROVE  e = [state |-> kind, run |-> Limit!NewRun(kind, time),
                  found |-> f \cup Limit!Closed(point, run, end)]
  BY <1>1, <1>2, <1>5 DEF Limit!StepRun
<1> QED
  BY <1>3, <1>4, <1>5 DEF RunStep

-----------------------------------------------------------------------------
\* The detector after n observations of a line: with a run, whose last deviation was at l,
\* or idle, and then a deviation that is next begins one.
LimitRun(line, n, i, l) ==
  [side |-> line[i].dir, start |-> line[i].time,
   pending |-> IF l = n THEN 0 ELSE line[l + 1].time]
LimitReady(state, dir, allow) ==
  dir = "none" \/ (dir # state /\ (state = "unknown" => allow))
LimitFound(point, line, horizon, boundary, i) ==
  UNION {LimitCharged(point, line, horizon, boundary, k) :
           k \in {x \in RunStarts(line, LimitGap(point)) : x < i}}
LimitKnows(point, line, horizon, boundary, allow, n, d) ==
  \/ /\ \A k \in 1..n : line[k].dir = "none"
     /\ d = [state |-> d.state, run |-> Limit!NoRun, found |-> {}]
     /\ n < Len(line) => LimitReady(d.state, line[n + 1].dir, allow)
  \/ \E i, l :
       /\ Current(line, LimitGap(point), n, i, l)
       /\ d = [state |-> d.state, run |-> LimitRun(line, n, i, l),
               found |-> LimitFound(point, line, horizon, boundary, i)]

\* One step of the detector keeps what it knows of the line so far.
LEMMA LimitStepKnows ==
  ASSUME NEW point, NEW line, NEW items, NEW N, IsLimitLine(point, line, items, N),
         NEW horizon, NEW boundary, NEW allow, NEW n \in 0..N, n < N, NEW d,
         LimitKnows(point, line, horizon, boundary, allow, n, d)
  PROVE  LimitKnows(point, line, horizon, boundary, allow, n + 1,
                    Limit!Step(point, d, items[n + 1], allow))
<1> DEFINE gap == LimitGap(point)
           o == line[n + 1]
           kind == Limit!Classify(point, items[n + 1].value)
           found(i) == LimitFound(point, line, horizon, boundary, i)
           e == Limit!Step(point, d, items[n + 1], allow)
<1>1. /\ IsLine(line, N) /\ N \in Nat /\ Len(line) = N /\ n \in Nat /\ n + 1 \in 1..N
      /\ \A i \in 1..N : /\ line[i].time \in Nat \ {0} /\ line[i].fresh = FALSE
                         /\ line[i].dir \in {"none", "low", "high"}
      /\ items[n + 1].time = o.time
      /\ kind \in {"low", "high", "normal"}
      /\ o.dir = "none" <=> kind = "normal"
      /\ o.dir # "none" => o.dir = kind
  <2>1. IsLine(line, N) /\ N \in Nat /\ Len(line) = N
    BY DEF IsLimitLine, IsLine
  <2>2. n \in Nat /\ n + 1 \in 1..N
    BY <2>1
  <2>3. \A i \in 1..N : /\ line[i].time \in Nat \ {0} /\ line[i].fresh = FALSE
                        /\ line[i].dir \in {"none", "low", "high"}
    BY ClassifyIs DEF IsLimitLine
  <2>4. items[n + 1].time = o.time /\ o.dir = DirOf(point, items[n + 1].value)
    BY <2>2 DEF IsLimitLine
  <2> QED
    BY <2>1, <2>2, <2>3, <2>4, ClassifyIs
<1>2. \A k \in 1..(n + 1) : k \in 1..n \/ k = n + 1
  BY <1>1
<1> HIDE DEF gap, o, found, e, kind
<1>3. o.dir # "none" => Limit!NewRun(kind, o.time) = LimitRun(line, n + 1, n + 1, n + 1)
  BY <1>1 DEF LimitRun, Limit!NewRun, o
<1>4. CASE /\ \A k \in 1..n : line[k].dir = "none"
           /\ d = [state |-> d.state, run |-> Limit!NoRun, found |-> {}]
           /\ n < Len(line) => LimitReady(d.state, line[n + 1].dir, allow)
  <2> DEFINE s == d.state
             x == IF kind # "normal" /\ kind # s /\ (s = "unknown" => allow)
                  THEN Limit!NewRun(kind, o.time) ELSE Limit!NoRun
  <2>1. e = [state |-> kind, run |-> x, found |-> {}]
    <3>1. d.run = Limit!NoRun
      BY <1>4
    <3>2. e = Limit!StepIdle(d, kind, o.time, allow)
      BY <1>1, <3>1 DEF e, Limit!Step, kind
    <3>3. d = [state |-> s, run |-> Limit!NoRun, found |-> {}]
      BY <1>4
    <3> HIDE DEF s
    <3> QED
      BY <3>2, <3>3, StepIdleIs
  <2>2. e.state = kind /\ e = [state |-> e.state, run |-> x, found |-> {}]
    <3> HIDE DEF x
    <3> QED
      BY <2>1
  <2>3. CASE o.dir = "none"
    <3>1. x = Limit!NoRun
      BY <1>1, <2>3
    <3>2. \A k \in 1..(n + 1) : line[k].dir = "none"
      BY <1>2, <1>4, <2>3 DEF o
    <3>3. n + 1 < Len(line) => LimitReady(e.state, line[(n + 1) + 1].dir, allow)
      <4>1. n + 1 < Len(line) => (n + 1) + 1 \in 1..N
        BY <1>1
      <4>2. e.state = "normal"
        BY <1>1, <2>2, <2>3
      <4> QED
        BY <1>1, <4>1, <4>2 DEF LimitReady
    <3> HIDE DEF x
    <3> QED
      BY <2>2, <3>1, <3>2, <3>3 DEF LimitKnows, e
  <2>4. CASE o.dir # "none"
    <3>1. x = LimitRun(line, n + 1, n + 1, n + 1)
      <4>1. LimitReady(s, o.dir, allow)
        BY <1>1, <1>4 DEF o
      <4> QED
        BY <1>1, <1>3, <2>4, <4>1 DEF LimitReady
    <3>2. Current(line, gap, n + 1, n + 1, n + 1)
      BY <1>1, <1>4, <2>4, FirstDeviation DEF o
    <3>3. found(n + 1) = {}
      <4>1. \A k \in RunStarts(line, gap) : ~(k < n + 1)
        <5> SUFFICES ASSUME NEW k \in RunStarts(line, gap), k < n + 1 PROVE FALSE
          OBVIOUS
        <5>1. k \in 1..n /\ line[k].dir # "none"
          BY <1>1 DEF RunStarts, IsLine
        <5> QED
          BY <1>4, <5>1
      <4>2. {y \in RunStarts(line, gap) : y < n + 1} = {}
        BY <4>1
      <4> QED
        BY <4>2 DEF found, LimitFound, gap
    <3> HIDE DEF x
    <3>4. e = [state |-> e.state, run |-> LimitRun(line, n + 1, n + 1, n + 1),
               found |-> found(n + 1)]
      BY <2>2, <3>1, <3>3
    <3> QED
      BY <3>2, <3>4 DEF LimitKnows, e, gap, found
  <2> QED
    BY <2>3, <2>4
<1>5. ASSUME NEW i, NEW l, Current(line, gap, n, i, l),
             d = [state |-> d.state, run |-> LimitRun(line, n, i, l), found |-> found(i)]
      PROVE  LimitKnows(point, line, horizon, boundary, allow, n + 1, e)
  <2> DEFINE s == d.state
             a == line[i].dir
             b == line[i].time
             p == IF l = n THEN 0 ELSE line[l + 1].time
             f == found(i)
             run == [side |-> a, start |-> b, pending |-> p]
             end == IF p # 0 THEN p ELSE o.time
             go == kind = a /\ (p = 0 \/ o.time - p <= point[a].mergeGap)
  <2>1. /\ i \in 1..N /\ l \in i..n /\ l \in Nat /\ i \in Nat /\ l \in 1..N /\ l <= n
        /\ a # "none" /\ a \in {"low", "high"}
    BY <1>1, <1>5 DEF Current, RunStarts, IsLine
  <2>2. l + 1 \in 1..N /\ (l # n => line[l + 1].time # 0)
    BY <1>1, <2>1
  <2>3. end = line[l + 1].time /\ (p = 0 <=> l = n)
    BY <1>1, <2>1, <2>2 DEF o
  <2>4. d = [state |-> s, run |-> run, found |-> f] /\ run = LimitRun(line, n, i, l)
    BY <1>5 DEF LimitRun
  <2>5. run # Limit!NoRun
    BY <2>1 DEF Limit!NoRun
  <2>6. e = Limit!StepRun(point, d, kind, o.time)
    <3>1. d.run = run
      BY <2>4
    <3> HIDE DEF run
    <3> QED
      BY <1>1, <2>5, <3>1 DEF e, Limit!Step, kind
  <2> HIDE DEF s, a, b, p, f
  <2>7. /\ kind = "normal" =>
             e = [state |-> s, run |-> [side |-> a, start |-> b, pending |-> end], found |-> f]
        /\ kind # "normal" /\ go =>
             e = [state |-> s, run |-> [side |-> a, start |-> b, pending |-> 0], found |-> f]
        /\ kind # "normal" /\ ~go =>
             e = [state |-> kind, run |-> Limit!NewRun(kind, o.time),
                  found |-> f \cup Limit!Closed(point, run, end)]
    <3>1. a # "normal"
      BY <2>1
    <3>0. d = [state |-> s, run |-> [side |-> a, start |-> b, pending |-> p], found |-> f]
      BY <2>4
    <3>2. RunStep(point, s, a, b, p, f, kind, o.time, d)
      BY <3>0, <3>1, StepRunIs
    <3> QED
      BY <2>6, <3>2 DEF RunStep
  <2>8. CASE kind = "normal"
    <3>1. LimitRun(line, n + 1, i, l) = [side |-> a, start |-> b, pending |-> end]
      BY <2>1, <2>3 DEF LimitRun, a, b
    <3> HIDE DEF end
    <3>2. e = [state |-> e.state, run |-> LimitRun(line, n + 1, i, l), found |-> f]
      BY <2>7, <2>8, <3>1
    <3>3. Current(line, gap, n + 1, i, l)
      BY <1>1, <1>5, <2>8, Recovers DEF o
    <3> QED
      BY <3>2, <3>3 DEF LimitKnows, e, gap, found, f
  <2>9. CASE kind # "normal"
    <3>0. o.dir # "none" /\ o.dir = kind
      BY <1>1, <2>9
    <3>1. GoesOn(line, gap, n, i, l) <=> go
      <4>1. ~ Broken(line, l, n + 1)
        <5>1. \A k \in (l + 1)..(n + 1) : k \in 1..N
          BY <1>1, <2>1
        <5> QED
          BY <1>1, <5>1 DEF Broken
      <4>2. gap[kind] = point[kind].mergeGap
        BY <1>1, <2>9 DEF gap, LimitGap, Limit!Sides
      <4>3. l < n => end = p /\ p # 0
        BY <2>3, <2>1
      <4>4. line[n + 1].dir = kind /\ line[n + 1].time = o.time /\ line[l + 1].time = end
        BY <2>3, <3>0 DEF o
      <4>5. l < n <=> p # 0
        BY <2>1, <2>3
      <4>6. GoesOn(line, gap, n, i, l)
              <=> kind = a /\ (l < n => o.time - end <= point[kind].mergeGap)
        <5> HIDE DEF end
        <5> QED
          BY <4>1, <4>2, <4>4 DEF GoesOn, a
      <4> HIDE DEF end
      <4> QED
        BY <4>3, <4>5, <4>6
    <3>2. CASE go
      <4>1. LimitRun(line, n + 1, i, n + 1) = [side |-> a, start |-> b, pending |-> 0]
        BY DEF LimitRun, a, b
      <4>2. e = [state |-> e.state, run |-> LimitRun(line, n + 1, i, n + 1), found |-> f]
        <5> HIDE DEF end
        <5> QED
          BY <2>7, <2>9, <3>2, <4>1
      <4>3. Current(line, gap, n + 1, i, n + 1)
        <5> HIDE DEF go
        <5> QED
          BY <1>1, <1>5, <3>0, <3>1, <3>2, Deviates DEF o
      <4> QED
        BY <4>2, <4>3 DEF LimitKnows, e, gap, found, f
    <3>3. CASE ~go
      <4>1. Current(line, gap, n + 1, n + 1, n + 1) /\ LastOf(line, gap, i) = l
        <5> HIDE DEF go
        <5> QED
          BY <1>1, <1>5, <3>0, <3>1, <3>3, Deviates DEF o
      <4>2. Limit!Closed(point, run, end) = LimitCharged(point, line, horizon, boundary, i)
        <5>1. LimitEvent(point, line, horizon, boundary, i)
                = [start |-> b, type |-> a, open |-> FALSE, end |-> end]
          <6>1. l < Len(line)
            BY <1>1, <2>1
          <6>2. (~(l < Len(line)) /\ boundary = 0) = FALSE
            BY <6>1
          <6> HIDE DEF end
          <6> QED
            BY <2>3, <4>1, <6>1, <6>2 DEF LimitEvent, gap, a, b
        <5>2. run.side = a /\ run.start = b
          OBVIOUS
        <5> HIDE DEF run, end
        <5>3. Limit!Closed(point, run, end)
                = IF end - b > point[a].minDuration
                  THEN {[start |-> b, end |-> end, type |-> a, open |-> FALSE]} ELSE {}
          BY <5>2 DEF Limit!Closed, Limit!Qualified
        <5> QED
          BY <5>1, <5>3 DEF LimitCharged
      <4>3. found(n + 1) = f \cup LimitCharged(point, line, horizon, boundary, i)
        <5>1. {k \in RunStarts(line, gap) : k < n + 1} = {k \in RunStarts(line, gap) : k < i} \cup {i}
          BY <1>1, <1>5, NewBefore
        <5> QED
          BY <5>1 DEF found, f, LimitFound, gap
      <4> HIDE DEF run, end
      <4>4. e = [state |-> e.state, run |-> LimitRun(line, n + 1, n + 1, n + 1),
                 found |-> found(n + 1)]
        <5>1. e = [state |-> kind, run |-> LimitRun(line, n + 1, n + 1, n + 1),
                   found |-> found(n + 1)]
          BY <1>3, <2>7, <2>9, <3>0, <3>3, <4>2, <4>3
        <5> QED
          BY <5>1
      <4> QED
        BY <4>1, <4>4 DEF LimitKnows, e, gap, found
    <3> QED
      BY <3>2, <3>3
  <2> QED
    BY <2>8, <2>9
<1> QED
  BY <1>4, <1>5 DEF LimitKnows, gap, e, found

\* What the detector reports when the line is over.
LEMMA LimitResult ==
  ASSUME NEW point, NEW line, NEW items, NEW N, IsLimitLine(point, line, items, N),
         NEW horizon, NEW boundary, NEW allow, NEW d,
         LimitKnows(point, line, horizon, boundary, allow, N, d)
  PROVE  d.found \cup Limit!Remaining(point, d.run, horizon, boundary)
           = LimitRuns(point, line, horizon, boundary)
<1> DEFINE gap == LimitGap(point)
           charged(i) == LimitCharged(point, line, horizon, boundary, i)
<1>1. /\ IsLine(line, N) /\ N \in Nat /\ Len(line) = N
      /\ \A i \in 1..N : line[i].time \in Nat \ {0}
  BY DEF IsLimitLine, IsLine
<1>2. CASE /\ \A k \in 1..N : line[k].dir = "none"
           /\ d = [state |-> d.state, run |-> Limit!NoRun, found |-> {}]
  <2>1. RunStarts(line, gap) = {}
    BY <1>1, <1>2 DEF RunStarts, IsLine
  <2>2. d.found = {} /\ d.run = Limit!NoRun
    BY <1>2
  <2>3. Limit!Remaining(point, d.run, horizon, boundary) = {}
    BY <2>2 DEF Limit!Remaining
  <2> HIDE DEF gap
  <2>4. LimitRuns(point, line, horizon, boundary) = {}
    BY <2>1 DEF LimitRuns, gap
  <2> QED
    BY <2>2, <2>3, <2>4
<1>3. ASSUME NEW i, NEW l, Current(line, gap, N, i, l),
             d = [state |-> d.state, run |-> LimitRun(line, N, i, l),
                  found |-> LimitFound(point, line, horizon, boundary, i)]
      PROVE  d.found \cup Limit!Remaining(point, d.run, horizon, boundary)
               = LimitRuns(point, line, horizon, boundary)
  <2> DEFINE run == LimitRun(line, N, i, l)
             before == {x \in RunStarts(line, gap) : x < i}
             last == IF l < N THEN line[l + 1].time ELSE IF boundary # 0 THEN boundary ELSE horizon
             open == ~(l < N) /\ boundary = 0
  <2>1. LastOf(line, gap, i) = l /\ l \in i..N /\ i \in 1..N
    <3>1. N \in 0..N
      BY <1>1
    <3> QED
      BY <1>1, <1>3, <3>1, LastIs
  <2>2. RunStarts(line, gap) = before \cup {i}
    BY <1>1, <1>3, AllBefore
  <2>3. /\ run.side = line[i].dir /\ run.start = line[i].time
        /\ run.pending = IF l = N THEN 0 ELSE line[l + 1].time
    BY DEF LimitRun
  <2>4. run # Limit!NoRun
    <3>1. line[i].dir # "none"
      BY <1>3 DEF Current, RunStarts
    <3> QED
      BY <2>3, <3>1 DEF Limit!NoRun
  <2>5. run.pending # 0 <=> l < N
    <3>1. l < N => l + 1 \in 1..N /\ line[l + 1].time # 0
      BY <1>1, <2>1
    <3> QED
      BY <1>1, <2>1, <2>3, <3>1
  <2>6. LimitEvent(point, line, horizon, boundary, i)
          = [start |-> run.start, type |-> run.side, open |-> open, end |-> last]
    BY <1>1, <2>1, <2>3 DEF LimitEvent
  <2>7. d.run = run /\ d.found = LimitFound(point, line, horizon, boundary, i)
    BY <1>3
  <2>8. Limit!Remaining(point, run, horizon, boundary) = Limit!Qualified(point, run, last, open)
    <3>1. CASE l < N
      <4>1. run.pending = last /\ open = FALSE
        BY <1>1, <2>1, <2>3, <3>1
      <4> HIDE DEF run, last, open
      <4> QED
        BY <2>4, <2>5, <3>1, <4>1 DEF Limit!Remaining, Limit!Closed
    <3>2. CASE ~(l < N) /\ boundary # 0
      <4>1. last = boundary /\ open = FALSE
        BY <3>2
      <4> HIDE DEF run, last, open
      <4> QED
        BY <2>4, <2>5, <3>2, <4>1 DEF Limit!Remaining, Limit!Closed
    <3>3. CASE ~(l < N) /\ boundary = 0
      <4>1. last = horizon /\ open = TRUE
        BY <3>3
      <4> HIDE DEF run, last, open
      <4> QED
        BY <2>4, <2>5, <3>3, <4>1 DEF Limit!Remaining
    <3> QED
      BY <3>1, <3>2, <3>3
  <2> HIDE DEF run, last, open
  <2>9. Limit!Qualified(point, run, last, open) = charged(i)
    BY <2>6 DEF LimitCharged, Limit!Qualified
  <2> HIDE DEF charged, before
  <2>10. LimitRuns(point, line, horizon, boundary)
           = LimitFound(point, line, horizon, boundary, i) \cup charged(i)
    <3> DEFINE S == RunStarts(line, gap)
    <3> HIDE DEF S
    <3>1. S = before \cup {i}
      BY <2>2 DEF S
    <3>2. LimitRuns(point, line, horizon, boundary) = UNION {charged(k) : k \in S}
      BY DEF LimitRuns, charged, S
    <3>3. LimitFound(point, line, horizon, boundary, i) = UNION {charged(k) : k \in before}
      BY DEF LimitFound, charged, before
    <3> QED
      BY <3>1, <3>2, <3>3
  <2> QED
    BY <2>7, <2>8, <2>9, <2>10
<1> QED
  BY <1>2, <1>3 DEF LimitKnows

-----------------------------------------------------------------------------
\* The states that detect goes through.
DetectTrace(g, point, samples, start, horizon, boundary, allow) ==
  /\ g[0] = Limit!DetectorFrom(point, SubSeq(samples, 1, Earlier(samples, start)))
  /\ \A i \in 1..Len(Between(samples, start, horizon)) : g[i] = Limit!Step(point, g[i - 1], Between(samples, start, horizon)[i], allow)
  /\ Limit!Detect(point, samples, start, horizon, boundary, allow)
       = {o \in g[Len(Between(samples, start, horizon))].found
                 \cup Limit!Remaining(point, g[Len(Between(samples, start, horizon))].run,
                                      horizon, boundary) :
            start <= o.start /\ o.start < horizon}

\* The steps of detect over a segment exist.
LEMMA DetectTraceExists ==
  ASSUME NEW point, NEW samples, NEW start, NEW horizon, NEW boundary, NEW allow, Len(Between(samples, start, horizon)) \in Nat
  PROVE  \E g : DetectTrace(g, point, samples, start, horizon, boundary, allow)
<1> DEFINE c == Limit!DetectorFrom(point, SubSeq(samples, 1, Earlier(samples, start)))
           E(x, i) == Limit!Step(point, x, Between(samples, start, horizon)[i], allow)
           Is(g, n) == g = [i \in 0..n |-> IF i = 0 THEN c ELSE E(g[i - 1], i)]
           T == {n \in Nat : \E g : Is(g, n)}
<1> HIDE DEF c, E
<1>1. 0 \in T
  <2>1. Is([i \in 0..0 |-> c], 0)
    OBVIOUS
  <2> QED
    BY <2>1
<1>2. ASSUME NEW n \in Nat, n \in T PROVE n + 1 \in T
  <2>1. PICK g : Is(g, n)
    BY <1>2
  <2> DEFINE h == [i \in 0..(n + 1) |-> IF i = n + 1 THEN E(g[n], n + 1) ELSE g[i]]
  <2>2. \A i \in 0..(n + 1) : h[i] = IF i = 0 THEN c ELSE E(h[i - 1], i)
    <3> TAKE i \in 0..(n + 1)
    <3>1. CASE i = n + 1
      BY <3>1
    <3>2. CASE i # n + 1
      BY <2>1, <3>2
    <3> QED
      BY <3>1, <3>2
  <2>3. Is(h, n + 1)
    <3>1. h = [i \in 0..(n + 1) |-> h[i]]
      OBVIOUS
    <3> HIDE DEF h
    <3> QED
      BY <2>2, <3>1
  <2> HIDE DEF Is
  <2> QED
    BY <2>3
<1> HIDE DEF T
<1>3. Nat \subseteq T
  BY <1>1, <1>2, SetInduction
<1>4. \E g : Is(g, Len(Between(samples, start, horizon)))
  BY <1>3 DEF T
<1> DEFINE a == CHOOSE g : Is(g, Len(Between(samples, start, horizon)))
<1>5. Is(a, Len(Between(samples, start, horizon)))
  BY <1>4
<1>6. Limit!Detect(point, samples, start, horizon, boundary, allow)
       = {o \in a[Len(Between(samples, start, horizon))].found
                 \cup Limit!Remaining(point, a[Len(Between(samples, start, horizon))].run,
                                      horizon, boundary) :
            start <= o.start /\ o.start < horizon}
  BY DEF Limit!Detect, Limit!GetHistory, Limit!Between, Limit!Earlier, Limit!Cardinality, Between,
       Earlier, Cardinality, c, E
<1> HIDE DEF a
<1>7. a[0] = c /\ \A i \in 1..Len(Between(samples, start, horizon)) : a[i] = E(a[i - 1], i)
  BY <1>5
<1>8. DetectTrace(a, point, samples, start, horizon, boundary, allow)
  BY <1>6, <1>7 DEF DetectTrace, c, E
<1> QED
  BY <1>8

\* From some observation on, the detector takes one after the other.
LEMMA LimitGoesOn ==
  ASSUME NEW point, NEW line, NEW items, NEW N, IsLimitLine(point, line, items, N),
         NEW horizon, NEW boundary, NEW allow, NEW g, NEW n \in 0..N, NEW k \in Nat,
         LimitKnows(point, line, horizon, boundary, allow, n, g[k]),
         \A j \in 1..(N - n) : g[k + j] = Limit!Step(point, g[k + j - 1], items[n + j], allow)
  PROVE  LimitKnows(point, line, horizon, boundary, allow, N, g[k + (N - n)])
<1> DEFINE Knows(m, d) == LimitKnows(point, line, horizon, boundary, allow, m, d)
           T == {j \in Nat : j <= N - n => Knows(n + j, g[k + j])}
<1>1. N \in Nat /\ n \in Nat /\ n <= N
  BY DEF IsLimitLine, IsLine
<1>2. 0 \in T
  BY <1>1
<1>3. ASSUME NEW j \in Nat, j \in T PROVE j + 1 \in T
  <2> SUFFICES ASSUME j + 1 <= N - n PROVE Knows(n + (j + 1), g[k + (j + 1)])
    OBVIOUS
  <2>1. /\ j + 1 \in 1..(N - n) /\ n + j \in 0..N /\ n + j < N /\ j <= N - n
        /\ k + (j + 1) - 1 = k + j /\ n + (j + 1) = (n + j) + 1
    BY <1>1
  <2>2. Knows(n + j, g[k + j])
    BY <1>3, <2>1
  <2>3. g[k + (j + 1)] = Limit!Step(point, g[k + j], items[(n + j) + 1], allow)
    BY <2>1
  <2> DEFINE m == n + j
             d == g[k + j]
  <2> HIDE DEF m, d
  <2>4. LimitKnows(point, line, horizon, boundary, allow, m + 1,
                   Limit!Step(point, d, items[m + 1], allow))
    BY <2>1, <2>2, LimitStepKnows DEF m, d
  <2> QED
    BY <2>1, <2>3, <2>4 DEF m, d
<1> HIDE DEF T
<1>4. Nat \subseteq T
  BY <1>2, <1>3, SetInduction
<1>5. N - n \in Nat /\ n + (N - n) = N
  BY <1>1
<1>6. Knows(n + (N - n), g[k + (N - n)])
  BY <1>4, <1>5 DEF T
<1> QED
  BY <1>5, <1>6

-----------------------------------------------------------------------------
\* An observation of a sample, and a line of observations of the samples after the first c.
Sees(point, o, sample) ==
  o.time = sample.time /\ o.dir = DirOf(point, sample.value) /\ o.fresh = FALSE
SeenFrom(point, line, samples, c) ==
  /\ IsLine(line, Len(samples) - c)
  /\ \A i \in 1..(Len(samples) - c) : Sees(point, line[i], samples[c + i])

\* The readings of a segment from some position on are a line to the detector.
LEMMA SeenIsLine ==
  ASSUME NEW point, NEW samples, Timed(samples), NEW c \in 0..Len(samples),
         NEW line, SeenFrom(point, line, samples, c)
  PROVE  IsLimitLine(point, line, [i \in 1..(Len(samples) - c) |-> samples[c + i]],
                     Len(samples) - c)
<1> DEFINE N == Len(samples) - c
<1>1. Len(samples) \in Nat /\ N \in Nat
  <2>1. Len(samples) \in Nat
    BY TimedShape
  <2> QED
    BY <2>1
<1>2. \A i \in 1..N : c + i \in 1..Len(samples)
  BY <1>1
<1>3. \A i \in 1..N : samples[c + i].time \in Nat \ {0}
  BY <1>2 DEF Timed
<1> QED
  BY <1>3 DEF IsLimitLine, SeenFrom, Sees

\* What detect is given: from the last reading before start.
LEMMA ObservedIs ==
  ASSUME NEW point, NEW samples, Timed(samples), NEW start \in Int
  PROVE  LET e == Earlier(samples, start)
         IN  SeenFrom(point, Observed(point, samples, start), samples, IF e = 0 THEN 0 ELSE e - 1)
<1> DEFINE e == Earlier(samples, start)
           c == IF e = 0 THEN 0 ELSE e - 1
           a == IF e = 0 THEN 1 ELSE e
           N == Len(samples)
           kept == SubSeq(samples, a, N)
           obs == [i \in DOMAIN kept |->
                     [time |-> kept[i].time, dir |-> DirOf(point, kept[i].value), fresh |-> FALSE]]
<1>1. N \in Nat /\ e \in 0..N
  BY TimedShape, EarlierIs
<1>2. Observed(point, samples, start) = obs
  BY DEF Observed, DirOf, Earlier
<1> HIDE DEF e
<1>3. a \in 1..(N + 1) /\ c \in 0..N /\ a = c + 1 /\ c \in Nat
  BY <1>1
<1> HIDE DEF c, a
<1>4. /\ Timed(kept) /\ Len(kept) = N - c
      /\ \A i \in 1..Len(kept) : kept[i] = samples[c + i]
  <2>1. N \in 0..N
    BY <1>1
  <2>2. /\ Timed(kept) /\ Len(kept) = IF a <= N THEN N - a + 1 ELSE 0
        /\ \A i \in 1..Len(kept) : kept[i] = samples[a + i - 1]
    BY <1>3, <2>1, TimedSub
  <2> HIDE DEF kept
  <2>3. Len(kept) = N - c
    BY <1>1, <1>3, <2>2
  <2>4. \A i \in 1..Len(kept) : a + i - 1 = c + i
    BY <1>1, <1>3, <2>3
  <2> QED
    BY <2>2, <2>3, <2>4
<1> HIDE DEF kept
<1>5. N - c \in Nat /\ DOMAIN kept = 1..(N - c)
  <2>1. DOMAIN kept = 1..Len(kept)
    BY <1>4, TimedShape
  <2> QED
    BY <1>1, <1>3, <1>4, <2>1
<1>6. Len(obs) = N - c /\ DOMAIN obs = 1..(N - c)
  BY <1>5
<1>7. \A i \in 1..(N - c) : Sees(point, obs[i], samples[c + i])
  BY <1>4, <1>5 DEF Sees
<1> QED
  BY <1>2, <1>5, <1>6, <1>7 DEF SeenFrom, IsLine, c, e

\* A part of a line, as Proven takes it.
LEMMA LaterSeen ==
  ASSUME NEW point, NEW samples, Timed(samples), NEW c \in 0..Len(samples),
         NEW line, SeenFrom(point, line, samples, c), NEW m \in 0..(Len(samples) - c)
  PROVE  SeenFrom(point, SubSeq(line, m + 1, Len(line)), samples, c + m)
<1> DEFINE M == Len(samples) - c
           rest == SubSeq(line, m + 1, Len(line))
<1>1. Len(samples) \in Nat /\ c \in Nat /\ M \in Nat /\ m \in Nat /\ Len(line) = M /\ m <= M
  <2>1. Len(samples) \in Nat
    BY TimedShape
  <2> QED
    BY <2>1 DEF SeenFrom, IsLine
<1>2. rest = [i \in 1..(M - m) |-> line[m + i]]
  <2>1. rest = [i \in 1..(Len(line) - (m + 1) + 1) |-> line[(m + 1) + i - 1]]
    OBVIOUS
  <2>2. Len(line) - (m + 1) + 1 = M - m
    BY <1>1
  <2>3. \A i \in 1..(M - m) : (m + 1) + i - 1 = m + i
    BY <1>1
  <2> HIDE DEF rest
  <2> QED
    BY <2>1, <2>2, <2>3
<1>3. M - m \in Nat /\ Len(samples) - (c + m) = M - m
  BY <1>1
<1> HIDE DEF rest
<1>4. Len(rest) = M - m /\ DOMAIN rest = 1..(M - m)
  BY <1>2, <1>3
<1>5. \A i \in 1..(M - m) : Sees(point, rest[i], samples[(c + m) + i])
  <2> TAKE i \in 1..(M - m)
  <2>1. m + i \in 1..M /\ c + (m + i) = (c + m) + i
    BY <1>1
  <2>2. rest[i] = line[m + i]
    BY <1>2
  <2> QED
    BY <2>1, <2>2 DEF SeenFrom
<1> QED
  BY <1>3, <1>4, <1>5 DEF SeenFrom, IsLine, rest

-----------------------------------------------------------------------------
\* What Proven leaves out is a first part of the line, of one direction.
LEMMA ProvenIs ==
  ASSUME NEW obs, NEW N, IsLine(obs, N), NEW start
  PROVE  \E m \in 0..N :
           /\ Proven(obs, start) = SubSeq(obs, m + 1, Len(obs))
           /\ \A i \in 1..m : obs[i].dir = obs[1].dir /\ obs[1].dir # "none"
           /\ m > 0 => obs[1].time >= start
           /\ obs[1].time >= start /\ obs[1].dir # "none" /\ m < N =>
                m > 0 /\ obs[m + 1].dir # obs[1].dir
<1> DEFINE same == {k \in DOMAIN obs : obs[1].time >= start /\ obs[1].dir # "none"
                                       /\ \A i \in 1..k : obs[i].dir = obs[1].dir}
           T == {m \in 0..N : \A k \in same : k <= m}
<1>0. N \in Nat /\ DOMAIN obs = 1..N /\ same \subseteq 1..N
  BY DEF IsLine
<1>1. N \in T /\ T \subseteq Nat
  BY <1>0
<1>2. PICK m \in T : \A y \in T : m <= y
  BY <1>1, LeastNumber
<1>3. m \in 0..N /\ \A k \in same : k <= m
  BY <1>2
<1>4. m > 0 => m \in same
  <2> SUFFICES ASSUME m > 0, m \notin same PROVE FALSE
    OBVIOUS
  <2>1. m - 1 \in 0..N
    BY <1>0, <1>3
  <2>2. \A k \in same : k <= m - 1
    BY <1>0, <1>3
  <2>3. m - 1 \in T
    BY <2>1, <2>2
  <2> HIDE DEF T
  <2> QED
    BY <1>2, <1>3, <2>3
<1> HIDE DEF T
<1>5. same = 1..m
  <2>1. \A k \in same : k \in 1..m
    BY <1>0, <1>3
  <2>2. ASSUME NEW k \in 1..m PROVE k \in same
    <3>1. m > 0 /\ m \in same /\ k \in 1..N
      BY <1>0, <1>3, <1>4
    <3>2. \A i \in 1..k : i \in 1..m
      BY <1>3
    <3> QED
      BY <1>0, <3>1, <3>2
  <2> QED
    BY <2>1, <2>2
<1>6. Cardinality(same) = m
  <2>1. Cardinality(1..m) = m
    BY <1>3, FS_Interval
  <2> HIDE DEF same
  <2> QED
    BY <1>5, <2>1
<1>7. Proven(obs, start) = SubSeq(obs, m + 1, Len(obs))
  BY <1>6 DEF Proven
<1>8. \A i \in 1..m : obs[i].dir = obs[1].dir /\ obs[1].dir # "none" /\ obs[1].time >= start
  BY <1>5
<1>9. m > 0 => obs[1].time >= start
  <2>1. m > 0 => m \in 1..m
    BY <1>3
  <2> QED
    BY <1>8, <2>1
<1>10. ASSUME obs[1].time >= start, obs[1].dir # "none", m < N
       PROVE  m > 0 /\ obs[m + 1].dir # obs[1].dir
  <2>1. 1 \in same
    <3>1. 1 \in 1..N
      BY <1>0, <1>3, <1>10
    <3>2. \A i \in 1..1 : i = 1
      OBVIOUS
    <3> QED
      BY <1>0, <1>10, <3>1, <3>2
  <2>2. m > 0
    BY <1>3, <2>1
  <2>3. m + 1 \notin same /\ m + 1 \in 1..N
    BY <1>0, <1>3, <1>10
  <2>4. \A i \in 1..(m + 1) : i \in 1..m \/ i = m + 1
    BY <1>3
  <2> QED
    BY <1>0, <1>8, <1>10, <2>2, <2>3, <2>4
<1> HIDE DEF same
<1> QED
  BY <1>3, <1>7, <1>8, <1>9, <1>10

-----------------------------------------------------------------------------
Idle(d, s) == d = [state |-> s, run |-> Limit!NoRun, found |-> {}]

\* A reading that is like the first of those that nobody saw begin changes nothing.
LEMMA SkippedStep ==
  ASSUME NEW point, NEW item, NEW d, NEW s, Idle(d, s),
         s = Limit!Classify(point, item.value) \/ s = "unknown"
  PROVE  Idle(Limit!Step(point, d, item, FALSE), Limit!Classify(point, item.value))
<1> DEFINE e == Limit!Step(point, d, item, FALSE)
           kind == Limit!Classify(point, item.value)
<1>1. d.run = Limit!NoRun /\ d.state = s
  BY DEF Idle
<1>2. e = Limit!StepIdle(d, kind, item.time, FALSE)
  BY <1>1 DEF Limit!Step
<1> DEFINE x == Limit!NoRun
<1>3. e = [d EXCEPT !.state = kind, !.run = x]
  BY <1>1, <1>2 DEF Limit!StepIdle
<1>4. d = [state |-> s, run |-> x, found |-> {}]
  BY DEF Idle
<1> HIDE DEF e, x, kind
<1>5. e = [state |-> kind, run |-> x, found |-> {}]
  BY <1>3, <1>4
<1> QED
  BY <1>5 DEF e, x, kind, Idle

\* The detector has seen the last reading before start.
LEMMA FromPrevious ==
  ASSUME NEW point, NEW samples, Timed(samples), NEW e \in 1..Len(samples),
         NEW line, SeenFrom(point, line, samples, e - 1),
         NEW horizon, NEW boundary, NEW allow
  PROVE  LimitKnows(point, line, horizon, boundary, allow, 1,
                    Limit!DetectorFrom(point, SubSeq(samples, 1, e)))
<1> DEFINE previous == SubSeq(samples, 1, e)
           d == Limit!DetectorFrom(point, previous)
           N == Len(samples) - (e - 1)
           gap == LimitGap(point)
           kind == Limit!Classify(point, samples[e].value)
<1>1. Len(samples) \in Nat /\ e \in Nat /\ N \in Nat /\ 1 \in 1..N /\ 0 \in 0..N /\ 0 < N
      /\ (e - 1) + 1 = e
  <2>1. Len(samples) \in Nat
    BY TimedShape
  <2> QED
    BY <2>1
<1>2. previous # <<>> /\ Limit!Last(previous) = samples[e]
  <2>1. 1 \in 1..(Len(samples) + 1) /\ e \in 0..Len(samples)
    BY <1>1
  <2>2. /\ Timed(previous)
        /\ Len(previous) = IF 1 <= e THEN e - 1 + 1 ELSE 0
        /\ \A i \in 1..Len(previous) : previous[i] = samples[1 + i - 1]
    BY <2>1, TimedSub
  <2> HIDE DEF previous
  <2>3. Len(previous) = e
    BY <1>1, <2>2
  <2>4. previous[e] = samples[e]
    <3>1. e \in 1..Len(previous) /\ 1 + e - 1 = e
      BY <1>1, <2>3
    <3> QED
      BY <2>2, <3>1
  <2>5. previous # <<>>
    BY <1>1, <2>2, <2>3, EmptyIs
  <2> QED
    BY <2>3, <2>4, <2>5 DEF Limit!Last
<1>3. /\ IsLine(line, N) /\ line[1].time = samples[e].time
      /\ line[1].dir = DirOf(point, samples[e].value)
  BY <1>1 DEF SeenFrom, Sees
<1>4. d = [state |-> kind, found |-> {},
           run   |-> IF kind \in Limit!Sides THEN Limit!NewRun(kind, samples[e].time)
                     ELSE Limit!NoRun]
  <2> HIDE DEF previous
  <2> QED
    BY <1>2 DEF Limit!DetectorFrom
<1> HIDE DEF previous, d, kind, gap
<1>5. /\ kind \in {"low", "high", "normal"}
      /\ line[1].dir = "none" <=> kind = "normal"
      /\ line[1].dir # "none" => line[1].dir = kind
  BY <1>3, ClassifyIs DEF kind
<1>6. CASE kind = "normal"
  <2>1. d = [state |-> d.state, run |-> Limit!NoRun, found |-> {}] /\ d.state = "normal"
    BY <1>4, <1>6 DEF Limit!Sides
  <2>2. \A k \in 1..1 : line[k].dir = "none"
    BY <1>5, <1>6
  <2>3. 1 < Len(line) => LimitReady(d.state, line[1 + 1].dir, allow)
    <3>1. 1 < Len(line) => 2 \in 1..N
      BY <1>1, <1>3 DEF IsLine
    <3>2. \A i \in 1..N : line[i].dir \in {"low", "high", "none"}
      BY ClassifyIs DEF SeenFrom, Sees
    <3> QED
      BY <2>1, <3>1, <3>2 DEF LimitReady
  <2> QED
    BY <2>1, <2>2, <2>3 DEF LimitKnows, d, previous
<1>7. CASE kind # "normal"
  <2>1. Current(line, gap, 1, 1, 1)
    <3>1. line[0 + 1].dir # "none"
      BY <1>5, <1>7
    <3>2. \A k \in 1..0 : line[k].dir = "none"
      OBVIOUS
    <3>3. Current(line, gap, 0 + 1, 0 + 1, 0 + 1)
      BY <1>1, <1>3, <3>1, <3>2, FirstDeviation
    <3> QED
      BY <3>3
  <2>2. LimitFound(point, line, horizon, boundary, 1) = {}
    <3>1. \A k \in RunStarts(line, gap) : ~(k < 1)
      BY <1>3 DEF RunStarts, IsLine
    <3>2. {x \in RunStarts(line, gap) : x < 1} = {}
      BY <3>1
    <3> QED
      BY <3>2 DEF LimitFound, gap
  <2>3. Limit!NewRun(kind, samples[e].time) = LimitRun(line, 1, 1, 1)
    BY <1>3, <1>5, <1>7 DEF Limit!NewRun, LimitRun
  <2>4. d = [state |-> d.state, run |-> LimitRun(line, 1, 1, 1),
             found |-> LimitFound(point, line, horizon, boundary, 1)]
    BY <1>4, <1>5, <1>7, <2>2, <2>3 DEF Limit!Sides
  <2> QED
    BY <2>1, <2>4 DEF LimitKnows, gap, d, previous
<1> QED
  BY <1>6, <1>7

-----------------------------------------------------------------------------
\* The line of a segment that SegmentExceedances looks at.
LimitLine(point, samples, start, allow) ==
  IF allow THEN Observed(point, samples, start) ELSE Proven(Observed(point, samples, start), start)

\* The exceedances of a segment are the long runs of its line.
LEMMA SegmentRunsAre ==
  ASSUME NEW point, NEW samples, NEW start, NEW horizon, NEW boundary, NEW allow, NEW N,
         IsLine(LimitLine(point, samples, start, allow), N),
         \A i \in 1..N : LimitLine(point, samples, start, allow)[i].fresh = FALSE
  PROVE  SegmentExceedances(point, samples, start, horizon, boundary, allow)
           = LimitRuns(point, LimitLine(point, samples, start, allow), horizon, boundary)
<1> DEFINE line == LimitLine(point, samples, start, allow)
<1>1. SegmentExceedances(point, samples, start, horizon, boundary, allow)
        = LET event(run) ==
                [start |-> line[run.first].time, type |-> line[run.first].dir,
                 open  |-> ~Over(line, run) /\ boundary = 0,
                 end   |-> IF Over(line, run) THEN OverAt(line, run)
                           ELSE IF boundary # 0 THEN boundary ELSE horizon]
          IN  {e \in {event(run) : run \in MergedRuns(line, LimitGap(point))} :
                 e.end - e.start > point[e.type].minDuration}
  BY DEF SegmentExceedances, LimitLine, LimitGap
<1> HIDE DEF line
<1>2. IsLine(line, N) /\ \A i \in 1..N : line[i].fresh = FALSE
  BY DEF line
<1> QED
  BY <1>1, <1>2, LimitRunsAre DEF line

\* The first m of N readings are those of a deviation that nobody saw begin.
Unseen(obs, N, m, allow) ==
  /\ allow => m = 0
  /\ \A i \in 1..m : obs[i].dir = obs[1].dir /\ obs[1].dir # "none"
  /\ ~allow /\ m < N /\ obs[1].dir # "none" => m > 0 /\ obs[m + 1].dir # obs[1].dir

\* Where no reading lies before start, and its line leaves out the first m of them.
LEMMA FromNothing ==
  ASSUME NEW point, NEW samples, Timed(samples), NEW m \in 0..Len(samples),
         NEW obs, SeenFrom(point, obs, samples, 0), NEW line, SeenFrom(point, line, samples, m),
         NEW horizon, NEW boundary, NEW allow \in BOOLEAN, NEW g,
         g[0] = [state |-> "unknown", found |-> {}, run |-> Limit!NoRun],
         \A j \in 1..m : g[j] = Limit!Step(point, g[j - 1], samples[j], allow),
         Unseen(obs, Len(samples), m, allow)
  PROVE  LimitKnows(point, line, horizon, boundary, allow, 0, g[m])
<1> DEFINE kind(i) == Limit!Classify(point, samples[i].value)
           N == Len(samples)
<1>1. N \in Nat /\ m \in Nat /\ m <= N /\ N - 0 = N
  BY TimedShape
<1>0. /\ allow => m = 0
      /\ \A i \in 1..m : obs[i].dir = obs[1].dir /\ obs[1].dir # "none"
      /\ ~allow /\ m < N /\ obs[1].dir # "none" => m > 0 /\ obs[m + 1].dir # obs[1].dir
  BY DEF Unseen
<1>2. \A i \in 1..N : obs[i].dir = DirOf(point, samples[i].value)
  BY <1>1 DEF SeenFrom, Sees
<1>3. \A i \in 1..N : /\ kind(i) \in {"low", "high", "normal"}
                      /\ obs[i].dir \in {"low", "high", "none"}
                      /\ obs[i].dir = "none" <=> kind(i) = "normal"
                      /\ obs[i].dir # "none" => obs[i].dir = kind(i)
  BY <1>2, ClassifyIs
<1> HIDE DEF kind
<1> DEFINE Skipped(j) == g[j] = [state |-> IF j = 0 THEN "unknown" ELSE obs[1].dir,
                                 run |-> Limit!NoRun, found |-> {}]
           T == {j \in Nat : j <= m => Skipped(j)}
<1>4. 0 \in T
  OBVIOUS
<1>5. ASSUME NEW j \in Nat, j \in T PROVE j + 1 \in T
  <2> SUFFICES ASSUME j + 1 <= m PROVE Skipped(j + 1)
    OBVIOUS
  <2>1. j + 1 \in 1..m /\ (j + 1) - 1 = j /\ j <= m /\ j + 1 \in 1..N /\ 1 \in 1..m /\ j + 1 # 0
    BY <1>1
  <2> DEFINE s == IF j = 0 THEN "unknown" ELSE obs[1].dir
             d == g[j]
             item == samples[j + 1]
  <2>2. d = [state |-> s, run |-> Limit!NoRun, found |-> {}]
    BY <1>5, <2>1
  <2>3. allow = FALSE
    BY <1>0, <2>1
  <2>4. g[j + 1] = Limit!Step(point, d, item, FALSE)
    BY <2>1, <2>3
  <2>5. kind(j + 1) = obs[1].dir
    BY <1>0, <1>3, <2>1
  <2>6. s = kind(j + 1) \/ s = "unknown"
    BY <2>5
  <2>7. kind(j + 1) = Limit!Classify(point, item.value)
    BY DEF kind
  <2> HIDE DEF s, d, item
  <2>8. Idle(d, s) /\ (s = Limit!Classify(point, item.value) \/ s = "unknown")
    BY <2>2, <2>6, <2>7 DEF Idle
  <2>9. Idle(Limit!Step(point, d, item, FALSE), Limit!Classify(point, item.value))
    BY <2>8, SkippedStep
  <2> QED
    BY <2>1, <2>4, <2>5, <2>7, <2>9 DEF Idle
<1> HIDE DEF T
<1>6. Nat \subseteq T
  BY <1>4, <1>5, SetInduction
<1>7. Skipped(m)
  BY <1>1, <1>6 DEF T
<1> DEFINE d == g[m]
           s == IF m = 0 THEN "unknown" ELSE obs[1].dir
<1>8. d.state = s /\ d = [state |-> d.state, run |-> Limit!NoRun, found |-> {}]
  BY <1>7
<1> HIDE DEF d
<1>9. 0 < Len(line) => LimitReady(s, line[1].dir, allow)
  <2> SUFFICES ASSUME 0 < Len(line) PROVE LimitReady(s, line[1].dir, allow)
    OBVIOUS
  <2> USE <1>0
  <2>1. m < N /\ 1 \in 1..(N - m) /\ m + 1 \in 1..N
    BY <1>1 DEF SeenFrom, IsLine
  <2>2. line[1].dir = obs[m + 1].dir
    BY <1>2, <2>1 DEF SeenFrom, Sees
  <2>3. CASE m = 0
    <3>1. allow \/ line[1].dir = "none"
      BY <2>1, <2>2, <2>3
    <3>2. line[1].dir # "unknown"
      BY <1>3, <2>1, <2>2
    <3> QED
      BY <2>3, <3>1, <3>2 DEF LimitReady
  <2>4. CASE m # 0
    <3>1. 1 \in 1..m /\ 1 \in 1..N
      BY <1>1, <2>4
    <3>2. ~allow /\ obs[1].dir # "none"
      BY <2>4, <3>1
    <3>3. line[1].dir # obs[1].dir /\ obs[1].dir # "unknown"
      BY <1>3, <2>1, <2>2, <3>1, <3>2
    <3> QED
      BY <2>4, <3>3 DEF LimitReady
  <2> QED
    BY <2>3, <2>4
<1> HIDE DEF s
<1>10. 0 < Len(line) => LimitReady(d.state, line[0 + 1].dir, allow)
  BY <1>8, <1>9
<1>11. \A k \in 1..0 : line[k].dir = "none"
  OBVIOUS
<1> QED
  BY <1>8, <1>10, <1>11 DEF LimitKnows, d

\* detect of analog_limit_exceedance finds the merged exceedances of a segment.
LEMMA DetectFinds ==
  ASSUME NEW point, NEW samples, Timed(samples), NEW start \in Int, NEW horizon \in Int,
         start <= horizon, \A i \in 1..Len(samples) : samples[i].time < horizon,
         NEW boundary, NEW allow \in BOOLEAN
  PROVE  /\ Limit!Detect(point, samples, start, horizon, boundary, allow)
              = {o \in SegmentExceedances(point, samples, start, horizon, boundary, allow) :
                   start <= o.start /\ o.start < horizon}
         /\ \A o \in SegmentExceedances(point, samples, start, horizon, boundary, allow) :
              o.start \in Nat
<1> DEFINE N == Len(samples)
           e == Earlier(samples, start)
           current == Between(samples, start, horizon)
           line == LimitLine(point, samples, start, allow)
           obs == Observed(point, samples, start)
<1>1. /\ N \in Nat /\ e \in 0..N /\ e \in Nat
      /\ \A i \in 1..N : samples[i].time < start <=> i <= e
  BY TimedShape, EarlierIs
<1>2. Earlier(samples, horizon) = N
  <2>1. /\ Earlier(samples, horizon) \in 0..N
        /\ \A i \in 1..N : i <= Earlier(samples, horizon)
    BY EarlierIs
  <2>2. N > 0 => N \in 1..N
    BY <1>1
  <2> QED
    BY <1>1, <2>1, <2>2
<1>3. /\ Timed(current) /\ Len(current) = N - e /\ Len(current) \in Nat
      /\ \A i \in 1..(N - e) : current[i] = samples[e + i]
  <2>1. /\ Timed(current) /\ Len(current) = IF e < N THEN N - e ELSE 0
        /\ \A i \in 1..Len(current) : current[i] = samples[e + i]
    BY <1>2, BetweenIs
  <2>2. Len(current) = N - e
    BY <1>1, <2>1
  <2> QED
    BY <1>1, <2>1, <2>2
<1>4. PICK g : DetectTrace(g, point, samples, start, horizon, boundary, allow)
  BY <1>3, DetectTraceExists
<1>5. /\ g[0] = Limit!DetectorFrom(point, SubSeq(samples, 1, e))
      /\ \A i \in 1..(N - e) : g[i] = Limit!Step(point, g[i - 1], samples[e + i], allow)
      /\ Limit!Detect(point, samples, start, horizon, boundary, allow)
           = {o \in g[N - e].found \cup Limit!Remaining(point, g[N - e].run, horizon, boundary) :
                start <= o.start /\ o.start < horizon}
  BY <1>3, <1>4 DEF DetectTrace
<1>6. SeenFrom(point, obs, samples, IF e = 0 THEN 0 ELSE e - 1)
  BY ObservedIs
<1> HIDE DEF current, obs, e
<1>7. \E c \in 0..N : /\ SeenFrom(point, line, samples, c)
                      /\ LimitKnows(point, line, horizon, boundary, allow, N - c, g[N - e])
  <2>1. CASE e # 0
    <3> DEFINE c == e - 1
    <3>1. c \in 0..N /\ e \in 1..N /\ c \in Nat /\ N - c \in Nat /\ 1 \in 0..(N - c)
          /\ (N - c) - 1 = N - e
      BY <1>1, <2>1
    <3>2. SeenFrom(point, obs, samples, c) /\ IsLine(obs, N - c)
      BY <1>6, <2>1 DEF SeenFrom
    <3>3. SeenFrom(point, line, samples, c)
      <4>1. CASE allow
        BY <3>2, <4>1 DEF LimitLine, obs
      <4>2. CASE ~allow
        <5>1. PICK m \in 0..(N - c) : /\ Proven(obs, start) = SubSeq(obs, m + 1, Len(obs))
                                      /\ m > 0 => obs[1].time >= start
          BY <3>2, ProvenIs
        <5>2. m = 0
          <6>1. obs[1].time = samples[e].time /\ samples[e].time \in Nat
            <7>1. 1 \in 1..(N - c) /\ c + 1 = e
              BY <1>1, <2>1
            <7> QED
              BY <3>1, <3>2, <7>1 DEF SeenFrom, Sees, Timed
          <6>2. samples[e].time < start
            BY <1>1, <3>1
          <6>3. m \in Nat /\ ~(m > 0)
            BY <3>1, <5>1, <6>1, <6>2
          <6> QED
            BY <6>3
        <5>3. SeenFrom(point, SubSeq(obs, m + 1, Len(obs)), samples, c + m)
          BY <3>1, <3>2, LaterSeen
        <5>4. c + m = c
          BY <3>1, <5>2
        <5> QED
          BY <4>2, <5>1, <5>3, <5>4 DEF LimitLine, obs
      <4> QED
        BY <4>1, <4>2
    <3> DEFINE items == [i \in 1..(N - c) |-> samples[c + i]]
    <3>4. IsLimitLine(point, line, items, N - c)
      BY <3>1, <3>3, SeenIsLine
    <3>5. LimitKnows(point, line, horizon, boundary, allow, 1, g[0])
      BY <1>5, <3>1, <3>3, FromPrevious
    <3>6. \A j \in 1..((N - c) - 1) : g[0 + j] = Limit!Step(point, g[0 + j - 1], items[1 + j], allow)
      <4> TAKE j \in 1..((N - c) - 1)
      <4>1. /\ j \in 1..(N - e) /\ 1 + j \in 1..(N - c) /\ c + (1 + j) = e + j
            /\ 0 + j = j /\ 0 + j - 1 = j - 1
        BY <1>1, <3>1
      <4>2. items[1 + j] = samples[e + j]
        BY <4>1
      <4> QED
        BY <1>5, <4>1, <4>2
    <3> HIDE DEF c, items
    <3>7. LimitKnows(point, line, horizon, boundary, allow, N - c, g[0 + ((N - c) - 1)])
      <4> DEFINE M == N - c
      <4> HIDE DEF M
      <4>1. LimitKnows(point, line, horizon, boundary, allow, M, g[0 + (M - 1)])
        BY <3>1, <3>4, <3>5, <3>6, LimitGoesOn DEF M
      <4> QED
        BY <4>1 DEF M
    <3>8. 0 + ((N - c) - 1) = N - e
      BY <1>1, <3>1
    <3> QED
      BY <3>1, <3>3, <3>7, <3>8
  <2>2. CASE e = 0
    <3>1. SeenFrom(point, obs, samples, 0) /\ IsLine(obs, N - 0) /\ N - 0 = N
      BY <1>1, <1>6, <2>2 DEF SeenFrom
    <3>2. g[0] = [state |-> "unknown", found |-> {}, run |-> Limit!NoRun]
      <4>1. SubSeq(samples, 1, e) = <<>>
        <5>1. 1 \in 1..(N + 1) /\ 0 \in 0..N
          BY <1>1
        <5>2. Timed(SubSeq(samples, 1, 0)) /\ Len(SubSeq(samples, 1, 0)) = IF 1 <= 0 THEN 0 - 1 + 1 ELSE 0
          BY <5>1, TimedSub
        <5> QED
          BY <2>2, <5>2, EmptyIs
      <4> QED
        BY <1>5, <4>1 DEF Limit!DetectorFrom, Limit!Sides
    <3>3. PICK m \in 0..N :
            /\ SeenFrom(point, line, samples, m)
            /\ allow => m = 0
            /\ \A i \in 1..m : obs[i].dir = obs[1].dir /\ obs[1].dir # "none"
            /\ ~allow /\ m < N /\ obs[1].dir # "none" => m > 0 /\ obs[m + 1].dir # obs[1].dir
      <4>1. CASE allow
        <5>1. SeenFrom(point, line, samples, 0) /\ 0 \in 0..N
          BY <1>1, <3>1, <4>1 DEF LimitLine, obs
        <5>2. /\ \A i \in 1..0 : obs[i].dir = obs[1].dir /\ obs[1].dir # "none"
              /\ allow => 0 = 0
          OBVIOUS
        <5> DEFINE z == 0
        <5>3. /\ z \in 0..N /\ SeenFrom(point, line, samples, z)
              /\ allow => z = 0
              /\ \A i \in 1..z : obs[i].dir = obs[1].dir /\ obs[1].dir # "none"
              /\ ~allow /\ z < N /\ obs[1].dir # "none" => z > 0 /\ obs[z + 1].dir # obs[1].dir
          BY <4>1, <5>1, <5>2
        <5> HIDE DEF z, line
        <5> QED
          BY <5>3
      <4>2. CASE ~allow
        <5>1. PICK m \in 0..N :
                /\ Proven(obs, start) = SubSeq(obs, m + 1, Len(obs))
                /\ \A i \in 1..m : obs[i].dir = obs[1].dir /\ obs[1].dir # "none"
                /\ obs[1].time >= start /\ obs[1].dir # "none" /\ m < N =>
                     m > 0 /\ obs[m + 1].dir # obs[1].dir
          BY <3>1, ProvenIs
        <5>2. m < N => obs[1].time >= start
          <6> SUFFICES ASSUME m < N PROVE obs[1].time >= start
            OBVIOUS
          <6>1. 1 \in 1..N
            BY <1>1
          <6>2. obs[1].time = samples[1].time /\ samples[1].time \in Nat
            BY <3>1, <6>1 DEF SeenFrom, Sees, Timed
          <6>3. ~(samples[1].time < start)
            BY <1>1, <2>2, <6>1
          <6> QED
            BY <6>2, <6>3
        <5>3. SeenFrom(point, SubSeq(obs, m + 1, Len(obs)), samples, 0 + m)
          <6>1. 0 \in 0..N /\ m \in 0..(N - 0)
            BY <1>1
          <6> QED
            BY <3>1, <6>1, LaterSeen
        <5>4. 0 + m = m
          BY <1>1
        <5>5. SeenFrom(point, line, samples, m)
          BY <4>2, <5>1, <5>3, <5>4 DEF LimitLine, obs
        <5> QED
          BY <4>2, <5>1, <5>2, <5>5
      <4> QED
        BY <4>1, <4>2
    <3>4. \A j \in 1..m : g[j] = Limit!Step(point, g[j - 1], samples[j], allow)
      <4> TAKE j \in 1..m
      <4>1. j \in 1..(N - e) /\ e + j = j
        BY <1>1, <2>2
      <4> QED
        BY <1>5, <4>1
    <3>5. LimitKnows(point, line, horizon, boundary, allow, 0, g[m])
      <4>1. Unseen(obs, N, m, allow)
        BY <3>3 DEF Unseen
      <4> HIDE DEF line
      <4> QED
        BY <3>1, <3>2, <3>3, <3>4, <4>1, FromNothing
    <3> DEFINE items == [i \in 1..(N - m) |-> samples[m + i]]
    <3>6. IsLimitLine(point, line, items, N - m)
      BY <3>3, SeenIsLine
    <3>7. \A j \in 1..((N - m) - 0) : g[m + j] = Limit!Step(point, g[m + j - 1], items[0 + j], allow)
      <4> TAKE j \in 1..((N - m) - 0)
      <4>1. m + j \in 1..(N - e) /\ 0 + j \in 1..(N - m) /\ 0 + j = j /\ e + (m + j) = m + j
        BY <1>1, <2>2
      <4>2. items[0 + j] = samples[m + j]
        BY <4>1
      <4> QED
        BY <1>5, <4>1, <4>2
    <3> HIDE DEF items
    <3>8. LimitKnows(point, line, horizon, boundary, allow, N - m, g[m + ((N - m) - 0)])
      <4> DEFINE M == N - m
      <4>0. 0 \in 0..M /\ m \in Nat
        BY <1>1
      <4> HIDE DEF M
      <4>1. LimitKnows(point, line, horizon, boundary, allow, M, g[m + (M - 0)])
        BY <3>5, <3>6, <3>7, <4>0, LimitGoesOn DEF M
      <4> QED
        BY <4>1 DEF M
    <3>9. m + ((N - m) - 0) = N - e
      BY <1>1, <2>2
    <3> QED
      BY <3>3, <3>8, <3>9
  <2> QED
    BY <2>1, <2>2
<1>8. PICK c \in 0..N : /\ SeenFrom(point, line, samples, c)
                        /\ LimitKnows(point, line, horizon, boundary, allow, N - c, g[N - e])
  BY <1>7
<1> DEFINE items == [i \in 1..(N - c) |-> samples[c + i]]
           M == N - c
           d == g[N - e]
<1>9. IsLimitLine(point, line, items, M)
  BY <1>8, SeenIsLine
<1>10. IsLine(line, M) /\ \A i \in 1..M : line[i].fresh = FALSE
  BY <1>9 DEF IsLimitLine
<1>11. SegmentExceedances(point, samples, start, horizon, boundary, allow)
         = LimitRuns(point, line, horizon, boundary)
  BY <1>10, SegmentRunsAre
<1> HIDE DEF items, M, d, line
<1>12. d.found \cup Limit!Remaining(point, d.run, horizon, boundary)
         = LimitRuns(point, line, horizon, boundary)
  BY <1>8, <1>9, LimitResult DEF M, d
<1>13. ASSUME NEW o \in LimitRuns(point, line, horizon, boundary) PROVE o.start \in Nat
  <2>1. PICK i \in RunStarts(line, LimitGap(point)) :
          o = LimitEvent(point, line, horizon, boundary, i)
    BY DEF LimitRuns, LimitCharged
  <2>2. i \in 1..M
    BY <1>10, <2>1 DEF RunStarts, IsLine
  <2>3. o.start = line[i].time
    BY <2>1 DEF LimitEvent
  <2> QED
    BY <1>9, <2>2, <2>3 DEF IsLimitLine
<1> QED
  BY <1>5, <1>11, <1>12, <1>13 DEF d

-----------------------------------------------------------------------------
\* Limit prepares and smooths histories as the modules that it extends.
LEMMA SameLimit ==
  /\ \A samples, maxGap :
       Limit!PrepareNumericHistory(samples, maxGap) = PrepareNumericHistory(samples, maxGap)
  /\ \A segment, smoothing : Limit!Smooth(segment, smoothing) = Smooth(segment, smoothing)
<1>1. \A samples, maxGap :
       Limit!PrepareNumericHistory(samples, maxGap) = PrepareNumericHistory(samples, maxGap)
  BY DEF PrepareNumericHistory, AddSample, CloseSegment, Last, Limit!PrepareNumericHistory,
         Limit!AddSample, Limit!CloseSegment, Limit!Last
<1>2. \A segment, smoothing : Limit!Smooth(segment, smoothing) = Smooth(segment, smoothing)
  BY DEF Smooth, TrailingMean, SumAt, Subsequence, Cardinality, Limit!Smooth, Limit!TrailingMean,
         Limit!SumAt, Limit!Subsequence, Limit!Cardinality
<1> QED
  BY <1>1, <1>2

\* The lookback of analog_limit_exceedance.
LEMMA SameLimitLookBack ==
  /\ \A r, tags, from, to :
       Limit!GetHistories(r, tags, from, to) = GetHistories(r, tags, from, to)
  /\ \A r, steps, start, c, i :
       Limit!LookBack(r, steps, start, c, i) = LookBack(r, steps, start, c, i)
  /\ \A s, start : Limit!PreviousAndRange(s, start) = PreviousAndRange(s, start)
<1>1. \A r, tags, from, to :
        Limit!GetHistories(r, tags, from, to) = GetHistories(r, tags, from, to)
  BY DEF GetHistories, GetHistory, Between, Earlier, Cardinality, Limit!GetHistories,
         Limit!GetHistory, Limit!Between, Limit!Earlier, Limit!Cardinality
<1>2. \A r, steps, start, c, i :
        Limit!LookBack(r, steps, start, c, i) = LookBack(r, steps, start, c, i)
  BY DEF LookBack, GetHistories, GetHistory, Between, Earlier, Cardinality, Limit!LookBack,
         Limit!GetHistories, Limit!GetHistory, Limit!Between, Limit!Earlier, Limit!Cardinality
<1>3. \A s, start : Limit!PreviousAndRange(s, start) = PreviousAndRange(s, start)
  BY DEF PreviousAndRange, Last, Earlier, Cardinality, Limit!PreviousAndRange, Limit!Last,
         Limit!Earlier, Limit!Cardinality
<1> QED
  BY <1>1, <1>2, <1>3

\* Limit looks back for previous readings round by round.
LEMMA LimitLooksBack ==
  ASSUME NEW rec, NEW tags, NEW start, NEW end, NEW steps, Len(steps) \in Nat
  PROVE  LooksBack(rec, tags, start, end, steps,
                   Limit!WithPreviousSamples(rec, tags, start, end, steps))
<1> DEFINE N == Len(steps)
           c == [collected |-> Limit!GetHistories(rec, tags, start, end), missing |-> tags]
           E(x, i) == Limit!LookBack(rec, steps, start, x, i)
           Is(g, n) == g = [i \in 0..n |-> IF i = 0 THEN c ELSE E(g[i - 1], i)]
           T == {n \in Nat : \E g : Is(g, n)}
<1> HIDE DEF c, E
<1>1. 0 \in T
  <2>1. Is([i \in 0..0 |-> c], 0)
    OBVIOUS
  <2> QED
    BY <2>1
<1>2. ASSUME NEW n \in Nat, n \in T PROVE n + 1 \in T
  <2>1. PICK g : Is(g, n)
    BY <1>2
  <2> DEFINE h == [i \in 0..(n + 1) |-> IF i = n + 1 THEN E(g[n], n + 1) ELSE g[i]]
  <2>2. \A i \in 0..(n + 1) : h[i] = IF i = 0 THEN c ELSE E(h[i - 1], i)
    <3> TAKE i \in 0..(n + 1)
    <3>1. CASE i = n + 1
      BY <3>1
    <3>2. CASE i # n + 1
      BY <2>1, <3>2
    <3> QED
      BY <3>1, <3>2
  <2>3. Is(h, n + 1)
    <3>1. h = [i \in 0..(n + 1) |-> h[i]]
      OBVIOUS
    <3> HIDE DEF h
    <3> QED
      BY <2>2, <3>1
  <2> HIDE DEF Is
  <2> QED
    BY <2>3
<1> HIDE DEF T
<1>3. Nat \subseteq T
  BY <1>1, <1>2, SetInduction
<1>4. \E g : Is(g, N)
  BY <1>3 DEF T
<1> DEFINE a == CHOOSE g : Is(g, N)
<1>5. Is(a, N)
  BY <1>4
<1>6. Limit!WithPreviousSamples(rec, tags, start, end, steps)
        = [tag \in tags |-> Limit!PreviousAndRange(a[N].collected[tag], start)]
  BY DEF Limit!WithPreviousSamples, c, E
<1> HIDE DEF a
<1>7. a[0] = c /\ \A i \in 1..N : a[i] = E(a[i - 1], i)
  BY <1>5
<1>8. c = [collected |-> GetHistories(rec, tags, start, end), missing |-> tags]
  BY SameLimitLookBack DEF c
<1>9. \A i \in 1..N : a[i] = LookBack(rec, steps, start, a[i - 1], i)
  BY <1>7, SameLimitLookBack DEF E
<1> HIDE DEF c, E
<1>10. Limit!WithPreviousSamples(rec, tags, start, end, steps)
         = [tag \in tags |-> PreviousAndRange(a[N].collected[tag], start)]
  BY <1>6, SameLimitLookBack
<1> QED
  BY <1>7, <1>8, <1>9, <1>10 DEF LooksBack

\* The readings that a rule is given are readings that are recorded.
LEMMA SeenPart ==
  ASSUME NEW s, Timed(s), NEW start \in Int, NEW end \in Int, start <= end, NEW back \in Nat
  PROVE  LET q == Seen(s, start, end, back)
         IN  Timed(q) /\ \A i \in 1..Len(q) : \E j \in 1..Len(s) : q[i] = s[j]
<1> DEFINE e == Earlier(s, start)
           x == Earlier(s, start - back)
           b == Earlier(s, end)
           a == IF x = e THEN e + 1 ELSE e
           q == SubSeq(s, a, b)
<1>1. start - back \in Int /\ start - back <= start
  OBVIOUS
<1>2. Len(s) \in Nat /\ e \in 0..Len(s) /\ x \in 0..Len(s) /\ b \in 0..Len(s) /\ x <= e
  BY <1>1, TimedShape, EarlierIs, EarlierMonotone
<1>3. Seen(s, start, end, back) = q
  BY SeenIs
<1> HIDE DEF e, x, b
<1>4. a \in 1..(Len(s) + 1)
  BY <1>2
<1> HIDE DEF a
<1>5. /\ Timed(q)
      /\ \A i \in 1..Len(q) : a + i - 1 \in a..b /\ q[i] = s[a + i - 1]
  BY <1>2, <1>4, TimedSub
<1> HIDE DEF q
<1>6. a..b \subseteq 1..Len(s)
  BY <1>2, <1>4
<1> QED
  BY <1>3, <1>5, <1>6

-----------------------------------------------------------------------------
\* A smoothed segment has times of the segment, in order.
TimesOf(q, s) == Timed(q) /\ \A k \in 1..Len(q) : \E i \in 1..Len(s) : q[k].time = s[i].time

\* A smoothed segment has times of the segment, in order.
LEMMA SmoothTimes ==
  ASSUME NEW segment, Timed(segment), \A i \in 1..Len(segment) : segment[i] \in Sample,
         NEW smoothing
  PROVE  TimesOf(Smooth(segment, smoothing), segment)
<1>1. CASE ~smoothing.enabled
  BY <1>1 DEF Smooth, TimesOf
<1>2. CASE smoothing.enabled
  <2> DEFINE window == smoothing.window
             recent(i) == {j \in 1..i : segment[j].time >= segment[i].time - window}
             mean(i) == SumAt(segment, recent(i)) \div Cardinality(recent(i))
             enough == {i \in DOMAIN segment : Cardinality(recent(i)) >= smoothing.minSamples}
             line == [i \in DOMAIN segment |-> [segment[i] EXCEPT !.value = mean(i)]]
  <2>1. Smooth(segment, smoothing) = Subsequence(line, enough)
    BY <1>2 DEF Smooth, TrailingMean
  <2>2. Len(segment) \in Nat /\ DOMAIN segment = 1..Len(segment)
    BY TimedShape
  <2> HIDE DEF mean, enough
  <2>3. \A i \in 1..Len(segment) : line[i].time = segment[i].time
    <3> TAKE i \in 1..Len(segment)
    <3> DEFINE r == segment[i]
               v == mean(i)
               q == [r EXCEPT !.value = v]
    <3>1. line[i] = q
      BY <2>2
    <3>2. r \in Sample
      OBVIOUS
    <3> HIDE DEF r, v
    <3>3. q.time = r.time
      BY <3>2 DEF Sample
    <3> QED
      BY <3>1, <3>3 DEF r
  <2>4. Timed(line) /\ Len(line) = Len(segment)
    <3>1. DOMAIN line = 1..Len(segment) /\ line = [i \in 1..Len(segment) |-> line[i]]
      BY <2>2
    <3> HIDE DEF line
    <3>2. \A i \in 1..Len(segment) : line[i].time \in Nat \ {0}
      BY <2>3 DEF Timed
    <3>3. \A i, j \in 1..Len(segment) : i <= j => line[i].time <= line[j].time
      BY <2>3 DEF Timed
    <3> QED
      BY <2>2, <3>1, <3>2, <3>3, MakeTimed
  <2> HIDE DEF line
  <2>5. /\ Timed(Subsequence(line, enough))
        /\ \A k \in 1..Len(Subsequence(line, enough)) : \E i \in 1..Len(line) :
             i \in enough /\ Subsequence(line, enough)[k] = line[i]
    BY <2>4, TimedSubsequence
  <2> DEFINE q == Subsequence(line, enough)
  <2> HIDE DEF q
  <2>6. Timed(q) /\ \A k \in 1..Len(q) : \E i \in 1..Len(segment) : q[k].time = segment[i].time
    BY <2>3, <2>4, <2>5 DEF q
  <2> QED
    BY <2>1, <2>6 DEF TimesOf, q
<1> QED
  BY <1>1, <1>2

\* The smoothed segments of a history have times of the history, in order.
LEMMA SmoothSegmentsAre ==
  ASSUME NEW samples, Timed(samples), \A i \in 1..Len(samples) : samples[i] \in Sample,
         NEW smoothing, NEW segment \in Limit!SmoothSegments(samples, smoothing)
  PROVE  /\ Timed(segment.samples)
         /\ \A k \in 1..Len(segment.samples) : \E i \in 1..Len(samples) :
              segment.samples[k].time = samples[i].time
<1> DEFINE gap == 0
           segments == PrepareNumericHistory(samples, gap).segments
<1>1. PICK k \in DOMAIN segments : segment.samples = Smooth(segments[k], smoothing)
  BY SameLimit DEF Limit!SmoothSegments
<1> HIDE DEF gap
<1>2. /\ IsSequence(segments)
      /\ \A m \in 1..Len(segments) :
           /\ Timed(segments[m])
           /\ \A i \in 1..Len(segments[m]) : \E j \in 1..Len(samples) : segments[m][i] = samples[j]
  <2>1. Segmented(segments, samples)
    BY PreparedSegments
  <2> HIDE DEF segments
  <2> QED
    BY <2>1 DEF Segmented, PartOf
<1> HIDE DEF segments
<1>3. k \in 1..Len(segments)
  BY <1>2 DEF IsSequence
<1>4. /\ Timed(segments[k])
      /\ \A i \in 1..Len(segments[k]) : \E j \in 1..Len(samples) : segments[k][i] = samples[j]
  BY <1>2, <1>3
<1>5. \A i \in 1..Len(segments[k]) : segments[k][i] \in Sample
  BY <1>4
<1> DEFINE q == Smooth(segments[k], smoothing)
<1>6. /\ Timed(q)
      /\ \A m \in 1..Len(q) : \E i \in 1..Len(segments[k]) : q[m].time = segments[k][i].time
  <2>1. TimesOf(q, segments[k])
    BY <1>4, <1>5, SmoothTimes
  <2> HIDE DEF q
  <2> QED
    BY <2>1 DEF TimesOf
<1> HIDE DEF q
<1>7. \A m \in 1..Len(q) : \E i \in 1..Len(samples) : q[m].time = samples[i].time
  BY <1>4, <1>6, ZenonT(40)
<1> QED
  BY <1>1, <1>6, <1>7 DEF q

-----------------------------------------------------------------------------
\* Numbers that belong to the elements of a finite set have a bound.
LEMMA FiniteBound ==
  ASSUME NEW S, IsFiniteSet(S), NEW f, \A x \in S : f[x] \in Nat
  PROVE  \E b \in Nat : \A x \in S : f[x] <= b
<1>1. PICK seq \in Seq(S) : \A s \in S : \E n \in 1..Len(seq) : seq[n] = s
  BY DEF IsFiniteSet
<1>2. Len(seq) \in Nat /\ \A n \in 1..Len(seq) : seq[n] \in S
  OBVIOUS
<1> DEFINE Bounds(n, b) == \A i \in 1..n : f[seq[i]] <= b
           T == {n \in Nat : n <= Len(seq) => \E b \in Nat : Bounds(n, b)}
<1>3. 0 \in T
  <2>1. Bounds(0, 0)
    OBVIOUS
  <2> QED
    BY <2>1
<1>4. ASSUME NEW n \in Nat, n \in T PROVE n + 1 \in T
  <2> SUFFICES ASSUME n + 1 <= Len(seq) PROVE \E b \in Nat : Bounds(n + 1, b)
    OBVIOUS
  <2>1. PICK b \in Nat : Bounds(n, b)
    BY <1>2, <1>4
  <2> DEFINE c == f[seq[n + 1]]
             d == IF b <= c THEN c ELSE b
  <2>2. c \in Nat
    BY <1>2
  <2>3. d \in Nat /\ b <= d /\ c <= d
    BY <2>2
  <2>4. \A i \in 1..n : f[seq[i]] \in Nat
    BY <1>2
  <2>5. \A i \in 1..(n + 1) : i \in 1..n \/ i = n + 1
    OBVIOUS
  <2> HIDE DEF d
  <2>6. \A i \in 1..(n + 1) : f[seq[i]] <= d
    BY <2>1, <2>2, <2>3, <2>4, <2>5
  <2> QED
    BY <2>3, <2>6
<1> HIDE DEF T
<1>5. Nat \subseteq T
  BY <1>3, <1>4, SetInduction
<1>6. Len(seq) \in T
  BY <1>2, <1>5
<1>7. PICK b \in Nat : Bounds(Len(seq), b)
  BY <1>6 DEF T
<1> QED
  BY <1>1, <1>7 DEF Bounds

\* The greatest of some bounded numbers, or 0.
LEMMA LimitMaxIs ==
  ASSUME NEW b \in Nat, NEW T, T \subseteq 0..b
  PROVE  Limit!Max({0} \cup T) \in Nat
<1> DEFINE S == {0} \cup T
<1>1. S \subseteq 0..b /\ S # {}
  OBVIOUS
<1> HIDE DEF S
<1>2. \E x \in S : \A y \in S : y <= x
  BY <1>1, GreatestNumber
<1>3. S \subseteq Nat
  BY <1>1
<1>4. \E x \in S : \A y \in S : x >= y
  BY <1>2, <1>3
<1>5. Limit!Max(S) \in S
  BY <1>4 DEF Limit!Max
<1> QED
  BY <1>3, <1>5 DEF S

\* How far analog_limit_exceedance reads before and after a window.
LEMMA LimitReach ==
  /\ Limit!SmoothingWindow(LimitPoints) \in Nat
  /\ Limit!ConfirmationTail(LimitPoints) \in Nat
<1>1. IsFiniteSet(LimitPoints)
  BY PointsAreValid DEF Limit!ValidPoints, Limit!IsFiniteSet, IsFiniteSet
<1>2. \A p \in LimitPoints :
        /\ p.smoothing.window \in Nat
        /\ p.low.minDuration \in Nat /\ p.low.mergeGap \in Nat
        /\ p.high.minDuration \in Nat /\ p.high.mergeGap \in Nat
  BY PointsAreValid DEF Limit!ValidPoints, Limit!ValidPoint, Limit!ValidSide, Limit!ValidSmoothing
<1>3. Limit!SmoothingWindow(LimitPoints) \in Nat
  <2> DEFINE f == [p \in LimitPoints |-> p.smoothing.window]
             T == {p.smoothing.window : p \in {q \in LimitPoints : q.smoothing.enabled}}
  <2>1. PICK b \in Nat : \A p \in LimitPoints : f[p] <= b
    <3>1. \A p \in LimitPoints : f[p] \in Nat
      BY <1>2
    <3> HIDE DEF f
    <3> QED
      BY <1>1, <3>1, FiniteBound
  <2>2. T \subseteq 0..b
    BY <1>2, <2>1
  <2> HIDE DEF T
  <2>3. Limit!Max({0} \cup T) \in Nat
    BY <2>2, LimitMaxIs
  <2> QED
    BY <2>3 DEF Limit!SmoothingWindow, T
<1>4. Limit!ConfirmationTail(LimitPoints) \in Nat
  <2> DEFINE sum(p, side) == p[side].minDuration + p[side].mergeGap
             f == [p \in LimitPoints |-> sum(p, "low") + sum(p, "high")]
             T == {ps[1][ps[2]].minDuration + ps[1][ps[2]].mergeGap :
                     ps \in {qs \in LimitPoints \X Limit!Sides : qs[1][qs[2]].enabled}}
  <2>1. \A p \in LimitPoints : sum(p, "low") \in Nat /\ sum(p, "high") \in Nat
    BY <1>2
  <2>2. PICK b \in Nat : \A p \in LimitPoints : f[p] <= b
    <3>1. \A p \in LimitPoints : f[p] \in Nat
      BY <2>1
    <3> HIDE DEF f
    <3> QED
      BY <1>1, <3>1, FiniteBound
  <2>3. \A p \in LimitPoints, side \in Limit!Sides : sum(p, side) \in 0..b
    BY <2>1, <2>2 DEF Limit!Sides
  <2>4. T \subseteq 0..b
    <3> SUFFICES ASSUME NEW ps \in LimitPoints \X Limit!Sides PROVE sum(ps[1], ps[2]) \in 0..b
      OBVIOUS
    <3>1. ps[1] \in LimitPoints /\ ps[2] \in Limit!Sides
      OBVIOUS
    <3> HIDE DEF sum
    <3> QED
      BY <2>3, <3>1
  <2> HIDE DEF T
  <2>5. Limit!Max({0} \cup T) \in Nat
    BY <2>4, LimitMaxIs
  <2> QED
    BY <2>5 DEF Limit!ConfirmationTail, T
<1> QED
  BY <1>3, <1>4

-----------------------------------------------------------------------------
\* What the rule makes of the recorded readings of a point.
LEMMA LimitSegmentsAre ==
  ASSUME HistoryInv, rule = "limit", NEW point \in LimitPoints, NEW w \in Window,
         NEW until \in Int, Start(w) <= until,
         NEW segment \in Limit!SmoothSegments(
               Limit!Histories(LimitPoints, recorded, Start(w), until, Lookback)[point.tag],
               point.smoothing)
  PROVE  /\ Timed(segment.samples)
         /\ \A k \in 1..Len(segment.samples) : segment.samples[k].time < now
<1> DEFINE tags == {p.tag : p \in LimitPoints}
           from == Start(w) - Limit!SmoothingWindow(LimitPoints)
           s == recorded[point.tag]
           q == Seen(s, from, until, Last(Lookback))
<1>1. from \in Int /\ from <= until
  BY LimitReach, WindowIs
<1>2. tags \subseteq DOMAIN recorded
  BY TagsAssumption DEF HistoryInv
<1>3. point.tag \in tags
  OBVIOUS
<1>4. \A tag \in tags : Timed(recorded[tag])
  BY <1>2 DEF HistoryInv
<1> DEFINE result == Limit!WithPreviousSamples(recorded, tags, from, until, Lookback)
<1>5. Limit!Histories(LimitPoints, recorded, Start(w), until, Lookback) = result
  BY DEF Limit!Histories
<1> HIDE DEF tags, from
<1>6. result = AllSeen(recorded, tags, from, until, Last(Lookback))
  <2>1. LooksBack(recorded, tags, from, until, Lookback, result)
    BY LookbackAssumption, LimitLooksBack
  <2> HIDE DEF result
  <2> QED
    BY <1>1, <1>4, <2>1, LookbackAssumption, WithPreviousIs
<1> HIDE DEF result
<1>7. Limit!Histories(LimitPoints, recorded, Start(w), until, Lookback)[point.tag] = q
  BY <1>3, <1>5, <1>6 DEF AllSeen
<1>8. /\ Timed(s) /\ s \in Seq(Sample) /\ Len(s) \in Nat
      /\ \A i \in 1..Len(s) : s[i].time < now
  <2>1. point.tag \in DOMAIN recorded
    BY <1>2, <1>3
  <2>2. Timed(s) /\ s \in Seq(Sample) /\ \A i \in 1..Len(s) : s[i].time < now
    BY <2>1 DEF HistoryInv
  <2> HIDE DEF s
  <2> QED
    BY <2>2, TimedShape
<1> HIDE DEF s
<1>9. \A i \in 1..Len(s) : s[i] \in Sample
  BY <1>8
<1>10. Timed(q) /\ \A i \in 1..Len(q) : \E j \in 1..Len(s) : q[i] = s[j]
  BY <1>1, <1>8, WindowIs, SeenPart
<1> HIDE DEF q
<1>11. \A i \in 1..Len(q) : q[i] \in Sample /\ q[i].time < now
  BY <1>8, <1>9, <1>10
<1>12. /\ Timed(segment.samples)
       /\ \A k \in 1..Len(segment.samples) : \E i \in 1..Len(q) :
            segment.samples[k].time = q[i].time
  BY <1>7, <1>10, <1>11, SmoothSegmentsAre
<1> QED
  BY <1>11, <1>12

DetectsAll(point, samples, start, horizon, boundary) ==
  /\ Limit!Detect(point, samples, start, horizon, boundary, FALSE)
       = {o \in SegmentExceedances(point, samples, start, horizon, boundary, FALSE) :
            start <= o.start /\ o.start < horizon}
  /\ \A o \in SegmentExceedances(point, samples, start, horizon, boundary, FALSE) :
       o.start \in Nat

\* Without allowance, detection of a segment finds its exceedances.
LEMMA WholeDetect ==
  ASSUME NEW point, NEW samples, Timed(samples), NEW start \in Int, NEW horizon \in Int,
         start <= horizon, \A i \in 1..Len(samples) : samples[i].time < horizon,
         NEW boundary
  PROVE  DetectsAll(point, samples, start, horizon, boundary)
<1> DEFINE no == FALSE
           d == Limit!Detect(point, samples, start, horizon, boundary, no)
           e == SegmentExceedances(point, samples, start, horizon, boundary, no)
<1>1. no \in BOOLEAN
  OBVIOUS
<1> HIDE DEF no
<1>2. /\ d = {o \in e : start <= o.start /\ o.start < horizon}
      /\ \A o \in e : o.start \in Nat
  BY <1>1, DetectFinds
<1> QED
  BY <1>2 DEF no, DetectsAll

\* The rule analog_limit_exceedance charges, with their ends, exactly the merged
\* exceedances that begin in a window and last longer than their minimum.
THEOREM MergedExceedancesCharged == Spec => []MergedExceedancesFound
<1>1. ASSUME HistoryInv PROVE MergedExceedancesFound
  <2> DEFINE until(w) == Limit!QueryEnd(LimitPoints, End(w))
  <2> SUFFICES ASSUME NEW w \in Window, NEW point \in LimitPoints, LimitAssessed(w),
                      now = until(w)
               PROVE  LimitEvents(point, w) = Exceedances(point, w, until(w))
    BY DEF MergedExceedancesFound
  <2> DEFINE start == Start(w)
             end == End(w)
             history == Limit!Histories(LimitPoints, recorded, start, now, Lookback)[point.tag]
             segments == Limit!SmoothSegments(history, point.smoothing)
             boundary(s) == IF s.bounded THEN Last(s.samples).time ELSE 0
             found(s) == Limit!Detect(point, s.samples, start, now, boundary(s), FALSE)
             runs(s) == SegmentExceedances(point, s.samples, start, now, boundary(s), FALSE)
  <2>1. start \in Nat /\ end \in Nat /\ start < end /\ now \in Nat
    BY <1>1, WindowIs DEF HistoryInv
  <2>2. end <= now
    BY <2>1, LimitReach DEF Limit!QueryEnd, Limit!CONFIRMATION_MARGIN
  <2>3. rule = "limit"
    BY DEF LimitAssessed
  <2>4. LimitEvents(point, w)
          = Limit!Capped(point, {o \in UNION {found(s) : s \in segments} : Limit!Owned(o, start, end)})
    BY DEF LimitEvents, Limit!PointEvents, Last, Limit!Last
  <2>5. Exceedances(point, w, until(w))
          = Limit!Capped(point, {e \in UNION {runs(s) : s \in segments} :
                                   start <= e.start /\ e.start < end})
    BY DEF Exceedances
  <2>6. ASSUME NEW s \in segments
        PROVE  /\ found(s) = {o \in runs(s) : start <= o.start /\ o.start < now}
               /\ \A o \in runs(s) : o.start \in Nat
    <3>1. Timed(s.samples) /\ \A k \in 1..Len(s.samples) : s.samples[k].time < now
      BY <1>1, <2>1, <2>2, <2>3, LimitSegmentsAre
    <3> DEFINE b == boundary(s)
               q == s.samples
    <3> HIDE DEF b, start
    <3>2. FALSE \in BOOLEAN /\ start \in Int /\ now \in Int /\ start <= now
      BY <2>1, <2>2
    <3>3. Timed(q) /\ \A k \in 1..Len(q) : q[k].time < now
      BY <3>1
    <3> HIDE DEF q
    <3>4. DetectsAll(point, q, start, now, b)
      BY <3>2, <3>3, WholeDetect
    <3> QED
      BY <3>4 DEF b, q, DetectsAll
  <2> HIDE DEF start, end, segments, found, runs
  <2>7. {o \in UNION {found(s) : s \in segments} : Limit!Owned(o, start, end)}
          = {e \in UNION {runs(s) : s \in segments} : start <= e.start /\ e.start < end}
    <3>1. ASSUME NEW s \in segments, NEW o
          PROVE  o \in found(s) /\ Limit!Owned(o, start, end)
                   <=> o \in runs(s) /\ start <= o.start /\ o.start < end
      BY <2>1, <2>2, <2>6 DEF Limit!Owned
    <3> QED
      BY <3>1
  <2> QED
    BY <2>4, <2>5, <2>7
<1> QED
  BY <1>1, HistoryOrdered, PTL

-----------------------------------------------------------------------------
\* The instances of the pump rule choose readings as the modules they extend do.
LEMMA SamePump ==
  /\ \A s, time : Pump!Earlier(s, time) = Earlier(s, time)
  /\ \A s, from, to : Pump!Between(s, from, to) = Between(s, from, to)
  /\ \A s : Pump!Last(s) = Last(s)
<1>1. \A s, time : Pump!Earlier(s, time) = Earlier(s, time)
  BY DEF Pump!Earlier, Earlier, Pump!Cardinality, Cardinality
<1>2. \A s, from, to : Pump!Between(s, from, to) = Between(s, from, to)
  BY <1>1 DEF Pump!Between, Between
<1>3. \A s : Pump!Last(s) = Last(s)
  BY DEF Pump!Last, Last
<1> QED
  BY <1>1, <1>2, <1>3

\* The lookback of pump_flow_compliance.
LEMMA SamePumpLookBack ==
  /\ \A r, tags, from, to :
       Pump!GetHistories(r, tags, from, to) = GetHistories(r, tags, from, to)
  /\ \A r, steps, start, c, i :
       Pump!LookBack(r, steps, start, c, i) = LookBack(r, steps, start, c, i)
  /\ \A s, start : Pump!PreviousAndRange(s, start) = PreviousAndRange(s, start)
<1>1. \A r, tags, from, to :
        Pump!GetHistories(r, tags, from, to) = GetHistories(r, tags, from, to)
  BY DEF GetHistories, GetHistory, Between, Earlier, Cardinality, Pump!GetHistories,
         Pump!GetHistory, Pump!Between, Pump!Earlier, Pump!Cardinality
<1>2. \A r, steps, start, c, i :
        Pump!LookBack(r, steps, start, c, i) = LookBack(r, steps, start, c, i)
  BY DEF LookBack, GetHistories, GetHistory, Between, Earlier, Cardinality, Pump!LookBack,
         Pump!GetHistories, Pump!GetHistory, Pump!Between, Pump!Earlier, Pump!Cardinality
<1>3. \A s, start : Pump!PreviousAndRange(s, start) = PreviousAndRange(s, start)
  BY DEF PreviousAndRange, Last, Earlier, Cardinality, Pump!PreviousAndRange, Pump!Last,
         Pump!Earlier, Pump!Cardinality
<1> QED
  BY <1>1, <1>2, <1>3

\* Pump looks back for previous readings round by round.
LEMMA PumpLooksBack ==
  ASSUME NEW rec, NEW tags, NEW start, NEW end, NEW steps, Len(steps) \in Nat
  PROVE  LooksBack(rec, tags, start, end, steps,
                   Pump!WithPreviousSamples(rec, tags, start, end, steps))
<1> DEFINE N == Len(steps)
           c == [collected |-> Pump!GetHistories(rec, tags, start, end), missing |-> tags]
           E(x, i) == Pump!LookBack(rec, steps, start, x, i)
           Is(g, n) == g = [i \in 0..n |-> IF i = 0 THEN c ELSE E(g[i - 1], i)]
           T == {n \in Nat : \E g : Is(g, n)}
<1> HIDE DEF c, E
<1>1. 0 \in T
  <2>1. Is([i \in 0..0 |-> c], 0)
    OBVIOUS
  <2> QED
    BY <2>1
<1>2. ASSUME NEW n \in Nat, n \in T PROVE n + 1 \in T
  <2>1. PICK g : Is(g, n)
    BY <1>2
  <2> DEFINE h == [i \in 0..(n + 1) |-> IF i = n + 1 THEN E(g[n], n + 1) ELSE g[i]]
  <2>2. \A i \in 0..(n + 1) : h[i] = IF i = 0 THEN c ELSE E(h[i - 1], i)
    <3> TAKE i \in 0..(n + 1)
    <3>1. CASE i = n + 1
      BY <3>1
    <3>2. CASE i # n + 1
      BY <2>1, <3>2
    <3> QED
      BY <3>1, <3>2
  <2>3. Is(h, n + 1)
    <3>1. h = [i \in 0..(n + 1) |-> h[i]]
      OBVIOUS
    <3> HIDE DEF h
    <3> QED
      BY <2>2, <3>1
  <2> HIDE DEF Is
  <2> QED
    BY <2>3
<1> HIDE DEF T
<1>3. Nat \subseteq T
  BY <1>1, <1>2, SetInduction
<1>4. \E g : Is(g, N)
  BY <1>3 DEF T
<1> DEFINE a == CHOOSE g : Is(g, N)
<1>5. Is(a, N)
  BY <1>4
<1>6. Pump!WithPreviousSamples(rec, tags, start, end, steps)
        = [tag \in tags |-> Pump!PreviousAndRange(a[N].collected[tag], start)]
  BY DEF Pump!WithPreviousSamples, c, E
<1> HIDE DEF a
<1>7. a[0] = c /\ \A i \in 1..N : a[i] = E(a[i - 1], i)
  BY <1>5
<1>8. c = [collected |-> GetHistories(rec, tags, start, end), missing |-> tags]
  BY SamePumpLookBack DEF c
<1>9. \A i \in 1..N : a[i] = LookBack(rec, steps, start, a[i - 1], i)
  BY <1>7, SamePumpLookBack DEF E
<1> HIDE DEF c, E
<1>10. Pump!WithPreviousSamples(rec, tags, start, end, steps)
         = [tag \in tags |-> PreviousAndRange(a[N].collected[tag], start)]
  BY <1>6, SamePumpLookBack
<1> QED
  BY <1>7, <1>8, <1>9, <1>10 DEF LooksBack

\* The last value before a time, as one of the readings.
LEMMA ValueBeforeIs ==
  ASSUME NEW s, Timed(s), NEW t \in Int
  PROVE  /\ Earlier(s, t) = 0 => Pump!ValueBefore(s, t) = <<>>
         /\ Earlier(s, t) # 0 => Pump!ValueBefore(s, t) = <<s[Earlier(s, t)].value>>
<1> DEFINE e == Earlier(s, t)
           p == SubSeq(s, 1, e)
<1>1. e \in 0..Len(s) /\ Len(s) \in Nat
  BY EarlierIs, TimedShape
<1>2. Pump!ValueBefore(s, t) = IF p = <<>> THEN <<>> ELSE <<p[Len(p)].value>>
  BY <1>1, SamePump DEF Pump!ValueBefore, Last
<1> HIDE DEF e, p
<1>3. /\ Len(p) = e /\ (p = <<>> <=> e = 0)
      /\ \A i \in 1..Len(p) : p[i] = s[i]
  <2> DEFINE z == 0
             r == SubSeq(s, z + 1, e)
  <2>1. z \in 0..Len(s) /\ z <= e /\ r = p
    BY <1>1 DEF p
  <2>2. z = 0
    OBVIOUS
  <2> HIDE DEF z
  <2>3. /\ Len(r) = e - z /\ (r = <<>> <=> z = e)
        /\ \A i \in 1..Len(r) : z + i \in 1..Len(s) /\ r[i] = s[z + i]
    BY <1>1, <2>1, PartIs, ZenonT(40)
  <2> HIDE DEF r
  <2> QED
    BY <1>1, <2>1, <2>2, <2>3
<1>4. e # 0 => p[Len(p)] = s[e]
  BY <1>1, <1>3
<1> QED
  BY <1>2, <1>3, <1>4 DEF e

\* The last value before t + 1 is the last one at t, if there is one.
LEMMA ValueNow ==
  ASSUME NEW s, Timed(s), NEW t \in Int
  PROVE  Pump!ValueBefore(s, t + 1)
           = LET at == Pump!Between(s, t, t + 1)
             IN  IF at = <<>> THEN Pump!ValueBefore(s, t) ELSE <<Pump!Last(at).value>>
<1> DEFINE e == Earlier(s, t)
           b == Earlier(s, t + 1)
           at == SubSeq(s, e + 1, b)
<1>1. e \in 0..Len(s) /\ b \in 0..Len(s) /\ e <= b /\ Len(s) \in Nat
  BY EarlierIs, EarlierMonotone, TimedShape
<1>2. Pump!Between(s, t, t + 1) = at /\ Pump!Last(at) = at[Len(at)]
  BY SamePump DEF Between, Last
<1>3. /\ b = 0 => Pump!ValueBefore(s, t + 1) = <<>>
      /\ b # 0 => Pump!ValueBefore(s, t + 1) = <<s[b].value>>
      /\ e = 0 => Pump!ValueBefore(s, t) = <<>>
      /\ e # 0 => Pump!ValueBefore(s, t) = <<s[e].value>>
  <2>1. t + 1 \in Int
    OBVIOUS
  <2> QED
    BY <2>1, ValueBeforeIs
<1> HIDE DEF e, b, at
<1>4. /\ Len(at) = b - e /\ (at = <<>> <=> e = b)
      /\ \A i \in 1..Len(at) : e + i \in 1..Len(s) /\ at[i] = s[e + i]
  BY <1>1, PartIs, ZenonT(40) DEF at
<1>5. e # b => at[Len(at)] = s[b]
  BY <1>1, <1>4
<1> QED
  BY <1>1, <1>2, <1>3, <1>4, <1>5

-----------------------------------------------------------------------------
\* The mode of the pumps and whether their flow is too low, at each time.
ModeAt(point, history, t) == Pump!Mode(point, Pump!ValuesBefore(history, t + 1))
LowAt(point, history, t) == Pump!LowFlow(point, Pump!ValuesBefore(history, t + 1))

PumpTimed(history) ==
  Timed(history.pumpA) /\ Timed(history.pumpB) /\ Timed(history.flow)

\* The modes of a group of pumps.
LEMMA ModeIs ==
  ASSUME NEW point, NEW value
  PROVE  Pump!Mode(point, value) \in {"UNKNOWN", "NORMAL_A", "NORMAL_B", "SWITCHING"}
BY DEF Pump!Mode

\* Nothing is known before the first reading.
LEMMA NothingAtZero ==
  ASSUME NEW point, NEW history, PumpTimed(history), NEW t \in Int,
         LowAt(point, history, t) \/ ModeAt(point, history, t) # "UNKNOWN"
  PROVE  t >= 1
<1> SUFFICES ASSUME t <= 0 PROVE FALSE
  OBVIOUS
<1> DEFINE s == history.pumpA
           e == Earlier(s, t + 1)
<1>1. Timed(s) /\ t + 1 \in Int
  BY DEF PumpTimed
<1> HIDE DEF s
<1>2. e \in 0..Len(s) /\ Len(s) \in Nat
      /\ \A i \in 1..Len(s) : s[i].time \in Nat \ {0} /\ (s[i].time < t + 1 <=> i <= e)
  BY <1>1, EarlierIs, TimedShape DEF Timed
<1> HIDE DEF e
<1>3. e = 0
  BY <1>2
<1>4. Pump!ValueBefore(s, t + 1) = <<>>
  BY <1>1, <1>3, ValueBeforeIs DEF e
<1>5. Pump!Mode(point, Pump!ValuesBefore(history, t + 1)) = "UNKNOWN"
  <2> DEFINE value == Pump!ValuesBefore(history, t + 1)
  <2>1. value.pumpA = <<>>
    BY <1>4 DEF Pump!ValuesBefore, s
  <2>2. <<>> # <<point.running>>
    OBVIOUS
  <2> HIDE DEF value
  <2>3. Pump!Mode(point, value) = "UNKNOWN"
    BY <2>1, <2>2 DEF Pump!Mode
  <2> QED
    BY <2>3 DEF value
<1> QED
  BY <1>5 DEF LowAt, ModeAt, Pump!LowFlow

-----------------------------------------------------------------------------
\* A low flow that is going on just before t, since a; one that ended before t; the same
\* of a switch from normal operation.
LowSince(point, history, from, t, a) ==
  /\ a \in from..t
  /\ a = from \/ ~LowAt(point, history, a - 1)
  /\ \A u \in a..(t - 1) : LowAt(point, history, u)

LowDone(point, history, from, t, o) ==
  \E b \in from..(t - 1) :
    /\ ~LowAt(point, history, b)
    /\ \E a \in from..(b - 1) :
         /\ LowSince(point, history, from, b, a)
         /\ o = [type |-> "low_flow", start |-> a, end |-> b, open |-> FALSE]

SwitchSince(point, history, from, t, a) ==
  /\ a \in from..(t - 1)
  /\ ModeAt(point, history, a - 1) \in {"NORMAL_A", "NORMAL_B"}
  /\ \A u \in a..(t - 1) : ModeAt(point, history, u) = "SWITCHING"

SwitchDone(point, history, from, t, o) ==
  \E b \in from..(t - 1) :
    /\ ModeAt(point, history, b) # "SWITCHING"
    /\ \E a \in from..(b - 1) :
         /\ SwitchSince(point, history, from, b, a)
         /\ b - a > point.maxSwitch
         /\ o = [type |-> "switch_timeout", start |-> a + point.maxSwitch, end |-> b,
                 open |-> FALSE]

\* What the detector knows when it has seen everything before t.
PumpShape(d) ==
  d = [value |-> d.value, switchStart |-> d.switchStart, found |-> d.found,
       lowStart |-> d.lowStart]

LowKnown(point, history, from, t, d) ==
  /\ d.lowStart = 0 <=> ~LowAt(point, history, t - 1)
  /\ d.lowStart # 0 => LowSince(point, history, from, t, d.lowStart)

SwitchKnown(point, history, from, t, d) ==
  /\ d.switchStart # 0 => SwitchSince(point, history, from, t, d.switchStart)
  /\ d.switchStart = 0 => \A a \in Int : ~SwitchSince(point, history, from, t, a)

FoundKnown(point, history, from, t, d) ==
  \A o : o \in d.found <=> \/ LowDone(point, history, from, t, o)
                           \/ SwitchDone(point, history, from, t, o)

PumpKnows(point, history, from, t, d) ==
  /\ PumpShape(d)
  /\ d.value = Pump!ValuesBefore(history, t)
  /\ LowKnown(point, history, from, t, d)
  /\ SwitchKnown(point, history, from, t, d)
  /\ FoundKnown(point, history, from, t, d)

\* A low flow, or a switch, has one beginning.
LEMMA OneBeginning ==
  ASSUME NEW point, NEW history, NEW from \in Int, NEW t \in Int, NEW a \in Int, NEW b \in Int
  PROVE  /\ LowSince(point, history, from, t, a) /\ LowSince(point, history, from, t, b)
              /\ a < t /\ b < t => a = b
         /\ SwitchSince(point, history, from, t, a) /\ SwitchSince(point, history, from, t, b)
              => a = b
<1>1. ASSUME NEW x \in Int, NEW y \in Int, x < y, y < t,
             LowSince(point, history, from, t, x), LowSince(point, history, from, t, y)
      PROVE  FALSE
  <2>1. y - 1 \in x..(t - 1) /\ y # from
    BY <1>1 DEF LowSince
  <2> QED
    BY <1>1, <2>1 DEF LowSince
<1>2. ASSUME NEW x \in Int, NEW y \in Int, x < y,
             SwitchSince(point, history, from, t, x), SwitchSince(point, history, from, t, y)
      PROVE  FALSE
  <2>1. y - 1 \in x..(t - 1)
    BY <1>2 DEF SwitchSince
  <2> QED
    BY <1>2, <2>1 DEF SwitchSince
<1> QED
  BY <1>1, <1>2

-----------------------------------------------------------------------------
\* Changes of what the detector knows.
PumpUpdated(d, v, s, f, l, x, y) ==
  /\ [d EXCEPT !.switchStart = x, !.found = y]
       = [value |-> v, switchStart |-> x, found |-> y, lowStart |-> l]
  /\ [d EXCEPT !.switchStart = x]
       = [value |-> v, switchStart |-> x, found |-> f, lowStart |-> l]
  /\ [d EXCEPT !.lowStart = x, !.found = y]
       = [value |-> v, switchStart |-> s, found |-> y, lowStart |-> x]
  /\ [d EXCEPT !.lowStart = x]
       = [value |-> v, switchStart |-> s, found |-> f, lowStart |-> x]
  /\ [d EXCEPT !.value = x]
       = [value |-> x, switchStart |-> s, found |-> f, lowStart |-> l]

\* The fields of an updated detector.
LEMMA PumpUpdate ==
  ASSUME NEW d, NEW v, NEW s, NEW f, NEW l, NEW x, NEW y,
         d = [value |-> v, switchStart |-> s, found |-> f, lowStart |-> l]
  PROVE  PumpUpdated(d, v, s, f, l, x, y)
<1>1. [d EXCEPT !.switchStart = x, !.found = y]
              = [value |-> v, switchStart |-> x, found |-> y, lowStart |-> l]
  <2> DEFINE q == [d EXCEPT !.switchStart = x, !.found = y]
  <2>1. q = [d EXCEPT !.switchStart = x, !.found = y]
    OBVIOUS
  <2> HIDE DEF q
  <2>2. q = [value |-> v, switchStart |-> x, found |-> y, lowStart |-> l]
    BY <2>1
  <2> QED
    BY <2>1, <2>2
<1>2. [d EXCEPT !.switchStart = x]
              = [value |-> v, switchStart |-> x, found |-> f, lowStart |-> l]
  OBVIOUS
<1>3. [d EXCEPT !.lowStart = x, !.found = y]
              = [value |-> v, switchStart |-> s, found |-> y, lowStart |-> x]
  <2> DEFINE q == [d EXCEPT !.lowStart = x, !.found = y]
  <2>1. q = [d EXCEPT !.lowStart = x, !.found = y]
    OBVIOUS
  <2> HIDE DEF q
  <2>2. q = [value |-> v, switchStart |-> s, found |-> y, lowStart |-> x]
    BY <2>1
  <2> QED
    BY <2>1, <2>2
<1>4. [d EXCEPT !.lowStart = x]
              = [value |-> v, switchStart |-> s, found |-> f, lowStart |-> x]
  OBVIOUS
<1>5. [d EXCEPT !.value = x]
              = [value |-> x, switchStart |-> s, found |-> f, lowStart |-> l]
  OBVIOUS
<1> QED
  BY <1>1, <1>2, <1>3, <1>4, <1>5 DEF PumpUpdated

\* The branches of a step of the detector.
SwitchStepOf(point, d, v, t, b, m, step) ==
  /\ b = "SWITCHING" /\ m # "SWITCHING"
       => step = [d EXCEPT !.switchStart = 0,
                           !.found = IF d.switchStart = 0 THEN d.found
                                     ELSE d.found \cup Pump!TimeoutOccurrence(point, d, t, FALSE)]
  /\ b # "SWITCHING" /\ m = "SWITCHING"
       => step = [d EXCEPT !.switchStart = IF b = "UNKNOWN" THEN 0 ELSE t]
  /\ (b = "SWITCHING" <=> m = "SWITCHING") => step = d

LowStepOf(d, t, low, step) ==
  /\ d.lowStart # 0 /\ ~low
       => step = [d EXCEPT !.lowStart = 0,
                           !.found = d.found \cup Pump!LowOccurrence(d, t, FALSE)]
  /\ d.lowStart = 0 /\ low => step = [d EXCEPT !.lowStart = t]
  /\ (d.lowStart = 0 <=> ~low) => step = d

\* What the detector does about switches at one time.
LEMMA SwitchStepIs ==
  ASSUME NEW point, NEW d, NEW v, NEW t
  PROVE  SwitchStepOf(point, d, v, t, Pump!Mode(point, d.value), Pump!Mode(point, v),
                      Pump!SwitchStep(point, d, v, t))
<1> DEFINE b == Pump!Mode(point, d.value)
           m == Pump!Mode(point, v)
           P == b = "SWITCHING" /\ m # "SWITCHING"
           Q == b # "SWITCHING" /\ m = "SWITCHING"
           x == IF d.switchStart = 0 THEN d.found
                ELSE d.found \cup Pump!TimeoutOccurrence(point, d, t, FALSE)
           y == IF b = "UNKNOWN" THEN 0 ELSE t
           e1 == [d EXCEPT !.switchStart = 0, !.found = x]
           e2 == [d EXCEPT !.switchStart = y]
<1>1. Pump!SwitchStep(point, d, v, t) = CASE P -> e1 [] Q -> e2 [] OTHER -> d
  BY Zenon DEF Pump!SwitchStep
<1> HIDE DEF e1, e2
<1>2. P => (CASE P -> e1 [] Q -> e2 [] OTHER -> d) = e1
  OBVIOUS
<1>3. Q => (CASE P -> e1 [] Q -> e2 [] OTHER -> d) = e2
  OBVIOUS
<1>4. ASSUME ~P, ~Q PROVE (CASE P -> e1 [] Q -> e2 [] OTHER -> d) = d
  BY <1>4
<1> QED
  BY <1>1, <1>2, <1>3, <1>4, Zenon DEF e1, e2, SwitchStepOf

\* What it does about the flow.
LEMMA LowStepIs ==
  ASSUME NEW point, NEW d, NEW v, NEW t
  PROVE  LowStepOf(d, t, Pump!LowFlow(point, v), Pump!LowStep(point, d, v, t))
<1> DEFINE P == d.lowStart # 0 /\ ~Pump!LowFlow(point, v)
           Q == d.lowStart = 0 /\ Pump!LowFlow(point, v)
           x == d.found \cup Pump!LowOccurrence(d, t, FALSE)
           e1 == [d EXCEPT !.lowStart = 0, !.found = x]
           e2 == [d EXCEPT !.lowStart = t]
<1>1. Pump!LowStep(point, d, v, t) = CASE P -> e1 [] Q -> e2 [] OTHER -> d
  BY Zenon DEF Pump!LowStep
<1> HIDE DEF e1, e2
<1>2. P => (CASE P -> e1 [] Q -> e2 [] OTHER -> d) = e1
  OBVIOUS
<1>3. Q => (CASE P -> e1 [] Q -> e2 [] OTHER -> d) = e2
  OBVIOUS
<1>4. ASSUME ~P, ~Q PROVE (CASE P -> e1 [] Q -> e2 [] OTHER -> d) = d
  BY <1>4
<1> QED
  BY <1>1, <1>2, <1>3, <1>4, Zenon DEF e1, e2, LowStepOf

\* One time.
PumpStepped(point, history, t, d, e) ==
  LET was == ModeAt(point, history, t - 1)
      mode == ModeAt(point, history, t)
      low == LowAt(point, history, t)
      over == was = "SWITCHING" /\ mode # "SWITCHING"
  IN  /\ PumpShape(e)
      /\ e.value = Pump!ValuesBefore(history, t + 1)
      /\ e.lowStart = IF d.lowStart # 0 /\ ~low THEN 0
                      ELSE IF d.lowStart = 0 /\ low THEN t ELSE d.lowStart
      /\ e.switchStart = IF over THEN 0
                         ELSE IF was # "SWITCHING" /\ mode = "SWITCHING"
                         THEN IF was = "UNKNOWN" THEN 0 ELSE t
                         ELSE d.switchStart
      /\ e.found = d.found
           \cup (IF over /\ d.switchStart # 0
                 THEN Pump!TimeoutOccurrence(point, d, t, FALSE) ELSE {})
           \cup (IF d.lowStart # 0 /\ ~low
                 THEN Pump!LowOccurrence(d, t, FALSE) ELSE {})

\* Both, in one step from one time to the next.
LEMMA PumpStepIs ==
  ASSUME NEW point, NEW history, PumpTimed(history), NEW t \in Int, NEW d, PumpShape(d),
         d.value = Pump!ValuesBefore(history, t)
  PROVE  PumpStepped(point, history, t, d, Pump!StepAt(point, d, history, t))
<1> DEFINE v == Pump!ValuesBefore(history, t + 1)
           was == ModeAt(point, history, t - 1)
           mode == ModeAt(point, history, t)
           low == LowAt(point, history, t)
           over == was = "SWITCHING" /\ mode # "SWITCHING"
           ss == IF over THEN 0
                 ELSE IF was # "SWITCHING" /\ mode = "SWITCHING"
                 THEN IF was = "UNKNOWN" THEN 0 ELSE t
                 ELSE d.switchStart
           sf == IF over /\ d.switchStart # 0
                 THEN d.found \cup Pump!TimeoutOccurrence(point, d, t, FALSE) ELSE d.found
           sw == Pump!SwitchStep(point, d, v, t)
           ls == IF d.lowStart # 0 /\ ~low THEN 0
                 ELSE IF d.lowStart = 0 /\ low THEN t ELSE d.lowStart
           lf == IF d.lowStart # 0 /\ ~low THEN sf \cup Pump!LowOccurrence(d, t, FALSE) ELSE sf
<1>1. Pump!StepAt(point, d, history, t) = [Pump!LowStep(point, sw, v, t) EXCEPT !.value = v]
  <2>1. /\ Pump!ValueBefore(history.pumpA, t + 1)
             = LET at == Pump!Between(history.pumpA, t, t + 1)
               IN  IF at = <<>> THEN d.value.pumpA ELSE <<Pump!Last(at).value>>
        /\ Pump!ValueBefore(history.pumpB, t + 1)
             = LET at == Pump!Between(history.pumpB, t, t + 1)
               IN  IF at = <<>> THEN d.value.pumpB ELSE <<Pump!Last(at).value>>
        /\ Pump!ValueBefore(history.flow, t + 1)
             = LET at == Pump!Between(history.flow, t, t + 1)
               IN  IF at = <<>> THEN d.value.flow ELSE <<Pump!Last(at).value>>
    BY ValueNow DEF PumpTimed, Pump!ValuesBefore
  <2> QED
    BY <2>1 DEF Pump!StepAt, Pump!ValuesBefore
<1>2. /\ Pump!Mode(point, d.value) = was /\ Pump!Mode(point, v) = mode
      /\ Pump!LowFlow(point, v) <=> low
  BY DEF ModeAt, LowAt
<1> DEFINE s0 == d.switchStart
           l0 == d.lowStart
           f0 == d.found
           v0 == d.value
<1>3. d = [value |-> v0, switchStart |-> s0, found |-> f0, lowStart |-> l0]
  BY DEF PumpShape
<1> DEFINE cut == IF d.switchStart = 0 THEN d.found
                  ELSE d.found \cup Pump!TimeoutOccurrence(point, d, t, FALSE)
           from == IF was = "UNKNOWN" THEN 0 ELSE t
<1>4. /\ over => sw = [d EXCEPT !.switchStart = 0, !.found = cut]
      /\ was # "SWITCHING" /\ mode = "SWITCHING" => sw = [d EXCEPT !.switchStart = from]
      /\ (was = "SWITCHING" <=> mode = "SWITCHING") => sw = d
  <2>1. SwitchStepOf(point, d, v, t, was, mode, sw)
    <3> HIDE DEF v
    <3>1. SwitchStepOf(point, d, v, t, Pump!Mode(point, d.value), Pump!Mode(point, v), sw)
      BY SwitchStepIs
    <3> HIDE DEF was, mode, sw
    <3> QED
      BY <1>2, <3>1
  <2> HIDE DEF v, was, mode, sw
  <2> QED
    BY <2>1 DEF SwitchStepOf
<1>5. sw = [value |-> v0, switchStart |-> ss, found |-> sf, lowStart |-> l0]
  <2>1. CASE over
    <3> DEFINE y == IF s0 = 0 THEN f0
                    ELSE f0 \cup Pump!TimeoutOccurrence(point, d, t, FALSE)
    <3>1. sw = [d EXCEPT !.switchStart = 0, !.found = y]
      BY <1>4, <2>1
    <3>2. ss = 0 /\ sf = y
      BY <2>1
    <3> HIDE DEF y, sw, ss, sf, s0, l0, f0, v0
    <3> QED
      BY <1>3, <3>1, <3>2, PumpUpdate DEF PumpUpdated
  <2>2. CASE ~over /\ was # "SWITCHING" /\ mode = "SWITCHING"
    <3> DEFINE x == IF was = "UNKNOWN" THEN 0 ELSE t
    <3>1. sw = [d EXCEPT !.switchStart = x]
      BY <1>4, <2>2
    <3>2. ss = x /\ sf = f0
      BY <2>2
    <3> HIDE DEF x, sw, ss, sf, s0, l0, f0, v0
    <3> QED
      BY <1>3, <3>1, <3>2, PumpUpdate DEF PumpUpdated
  <2>3. CASE ~over /\ ~(was # "SWITCHING" /\ mode = "SWITCHING")
    <3>1. sw = d
      BY <1>4, <2>3
    <3>2. ss = s0 /\ sf = f0
      BY <2>3
    <3> HIDE DEF sw, ss, sf, s0, l0, f0, v0
    <3> QED
      BY <1>3, <3>1, <3>2
  <2> QED
    BY <2>1, <2>2, <2>3
<1> HIDE DEF sw, ss, sf
<1> DEFINE more == sw.found \cup Pump!LowOccurrence(sw, t, FALSE)
           e3 == Pump!LowStep(point, sw, v, t)
<1>6. /\ sw.lowStart # 0 /\ ~low => e3 = [sw EXCEPT !.lowStart = 0, !.found = more]
      /\ sw.lowStart = 0 /\ low => e3 = [sw EXCEPT !.lowStart = t]
      /\ (sw.lowStart = 0 <=> ~low) => e3 = sw
  <2>1. LowStepOf(sw, t, Pump!LowFlow(point, v), e3)
    BY LowStepIs
  <2> HIDE DEF v, e3, sw
  <2>2. Pump!LowFlow(point, v) => low
    BY <1>2
  <2>3. ~Pump!LowFlow(point, v) => ~low
    BY <1>2
  <2> HIDE DEF low
  <2> QED
    BY <2>1, <2>2, <2>3 DEF LowStepOf
<1>7. Pump!LowStep(point, sw, v, t)
        = [value |-> v0, switchStart |-> ss, found |-> lf, lowStart |-> ls]
  <2>1. Pump!LowOccurrence(sw, t, FALSE) = Pump!LowOccurrence(d, t, FALSE)
    BY <1>5 DEF Pump!LowOccurrence
  <2>2. sw.lowStart = l0 /\ sw.found = sf
    BY <1>5
  <2>3. CASE l0 # 0 /\ ~low
    <3> DEFINE y == sf \cup Pump!LowOccurrence(d, t, FALSE)
    <3>1. Pump!LowStep(point, sw, v, t) = [sw EXCEPT !.lowStart = 0, !.found = y]
      BY <1>6, <2>1, <2>2, <2>3
    <3>2. ls = 0 /\ lf = y
      BY <2>3
    <3> HIDE DEF y, ls, lf, s0, l0, f0, v0
    <3> QED
      BY <1>5, <3>1, <3>2, PumpUpdate DEF PumpUpdated
  <2>4. CASE l0 = 0 /\ low
    <3>1. Pump!LowStep(point, sw, v, t) = [sw EXCEPT !.lowStart = t]
      BY <1>6, <2>2, <2>4
    <3>2. ls = t /\ lf = sf
      BY <2>4
    <3> HIDE DEF ls, lf, s0, l0, f0, v0
    <3> QED
      BY <1>5, <3>1, <3>2, PumpUpdate DEF PumpUpdated
  <2>5. CASE ~(l0 # 0 /\ ~low) /\ ~(l0 = 0 /\ low)
    <3>1. Pump!LowStep(point, sw, v, t) = sw
      BY <1>6, <2>2, <2>5
    <3>2. ls = l0 /\ lf = sf
      BY <2>5
    <3> HIDE DEF ls, lf, s0, l0, f0, v0
    <3> QED
      BY <1>5, <3>1, <3>2
  <2> QED
    BY <2>3, <2>4, <2>5
<1>8. Pump!StepAt(point, d, history, t)
        = [value |-> v, switchStart |-> ss, found |-> lf, lowStart |-> ls]
  <2> DEFINE q == Pump!LowStep(point, sw, v, t)
  <2>1. q = [value |-> v0, switchStart |-> ss, found |-> lf, lowStart |-> ls]
    BY <1>7
  <2> HIDE DEF q, v, s0, l0, f0, v0, ss, ls, lf
  <2>2. [q EXCEPT !.value = v]
          = [value |-> v, switchStart |-> ss, found |-> lf, lowStart |-> ls]
    <3>1. PumpUpdated(q, v0, ss, lf, ls, v, v)
      BY <2>1, PumpUpdate
    <3> QED
      BY <3>1 DEF PumpUpdated
  <2> QED
    BY <1>1, <2>2 DEF q
<1> DEFINE e == Pump!StepAt(point, d, history, t)
<1>9. /\ PumpShape(e) /\ e.value = v /\ e.lowStart = ls /\ e.switchStart = ss /\ e.found = lf
  <2> HIDE DEF ls, lf, v, e
  <2>1. e = [value |-> v, switchStart |-> ss, found |-> lf, lowStart |-> ls]
    BY <1>8 DEF e
  <2> QED
    BY <2>1 DEF PumpShape
<1>10. lf = f0 \cup (IF over /\ s0 # 0 THEN Pump!TimeoutOccurrence(point, d, t, FALSE) ELSE {})
              \cup (IF l0 # 0 /\ ~low THEN Pump!LowOccurrence(d, t, FALSE) ELSE {})
  BY DEF sf
<1> HIDE DEF lf
<1> HIDE DEF e
<1> QED
  BY <1>9, <1>10 DEF ss, e, PumpStepped

-----------------------------------------------------------------------------
\* What the detector knows when it starts.
LEMMA PumpBegins ==
  ASSUME NEW point, NEW history, PumpTimed(history), NEW from \in Int
  PROVE  PumpKnows(point, history, from, from, Pump!DetectorAt(point, history, from))
<1> DEFINE v == Pump!ValuesBefore(history, from)
           d == Pump!DetectorAt(point, history, from)
<1>1. d = [value |-> v, switchStart |-> 0, found |-> {},
           lowStart |-> IF Pump!LowFlow(point, v) THEN from ELSE 0]
  BY DEF Pump!DetectorAt
<1>2. LowAt(point, history, from - 1) <=> Pump!LowFlow(point, v)
  <2>1. (from - 1) + 1 = from
    OBVIOUS
  <2> QED
    BY <2>1 DEF LowAt
<1>3. LowAt(point, history, from - 1) => from # 0
  <2>1. from - 1 \in Int
    OBVIOUS
  <2> QED
    BY <2>1, NothingAtZero
<1> HIDE DEF v, d
<1>4. PumpShape(d) /\ d.value = v
  BY <1>1 DEF PumpShape
<1>5. LowKnown(point, history, from, from, d)
  BY <1>1, <1>2, <1>3 DEF LowKnown, LowSince
<1>6. SwitchKnown(point, history, from, from, d)
  BY <1>1 DEF SwitchKnown, SwitchSince
<1>7. FoundKnown(point, history, from, from, d)
  <2>1. d.found = {}
    BY <1>1
  <2>2. from..(from - 1) = {}
    OBVIOUS
  <2> QED
    BY <2>1, <2>2 DEF FoundKnown, LowDone, SwitchDone
<1> QED
  BY <1>4, <1>5, <1>6, <1>7 DEF PumpKnows, v, d

\* What ends at t.
LowEnds(point, history, from, t, o) ==
  /\ ~LowAt(point, history, t)
  /\ \E a \in from..(t - 1) :
       /\ LowSince(point, history, from, t, a)
       /\ o = [type |-> "low_flow", start |-> a, end |-> t, open |-> FALSE]

SwitchEnds(point, history, from, t, o) ==
  /\ ModeAt(point, history, t) # "SWITCHING"
  /\ \E a \in from..(t - 1) :
       /\ SwitchSince(point, history, from, t, a)
       /\ t - a > point.maxSwitch
       /\ o = [type |-> "switch_timeout", start |-> a + point.maxSwitch, end |-> t,
               open |-> FALSE]

\* What has ended by the next time had ended before or ends now.
LEMMA DoneNext ==
  ASSUME NEW point, NEW history, NEW from \in Int, NEW t \in Int, from <= t, NEW o
  PROVE  /\ LowDone(point, history, from, t + 1, o)
              <=> (LowDone(point, history, from, t, o) \/ LowEnds(point, history, from, t, o))
         /\ SwitchDone(point, history, from, t + 1, o)
              <=> (SwitchDone(point, history, from, t, o) \/ SwitchEnds(point, history, from, t, o))
<1>1. LowDone(point, history, from, t, o)
        <=> \E b \in from..(t - 1) : LowEnds(point, history, from, b, o)
  BY DEF LowDone, LowEnds
<1>2. LowDone(point, history, from, t + 1, o)
        <=> \E b \in from..((t + 1) - 1) : LowEnds(point, history, from, b, o)
  BY DEF LowDone, LowEnds
<1>3. SwitchDone(point, history, from, t, o)
        <=> \E b \in from..(t - 1) : SwitchEnds(point, history, from, b, o)
  BY DEF SwitchDone, SwitchEnds
<1>4. SwitchDone(point, history, from, t + 1, o)
        <=> \E b \in from..((t + 1) - 1) : SwitchEnds(point, history, from, b, o)
  BY DEF SwitchDone, SwitchEnds
<1>5. \A b : b \in from..((t + 1) - 1) <=> (b \in from..(t - 1) \/ b = t)
  OBVIOUS
<1> QED
  BY <1>1, <1>2, <1>3, <1>4, <1>5

\* What the step finds is what ends.
LEMMA LowEndsIs ==
  ASSUME NEW point, NEW history, NEW from \in Int, NEW t \in Int, from <= t, NEW d,
         LowKnown(point, history, from, t, d), NEW o
  PROVE  LowEnds(point, history, from, t, o)
           <=> /\ d.lowStart # 0 /\ ~LowAt(point, history, t)
               /\ o \in Pump!LowOccurrence(d, t, FALSE)
<1>1. ASSUME d.lowStart # 0, ~LowAt(point, history, t), o \in Pump!LowOccurrence(d, t, FALSE)
      PROVE  LowEnds(point, history, from, t, o)
  <2>1. /\ t > d.lowStart
        /\ o = [type |-> "low_flow", start |-> d.lowStart, end |-> t, open |-> FALSE]
    BY <1>1 DEF Pump!LowOccurrence
  <2>2. LowSince(point, history, from, t, d.lowStart)
    BY <1>1 DEF LowKnown
  <2>3. d.lowStart \in from..(t - 1)
    BY <2>1, <2>2 DEF LowSince
  <2> QED
    BY <1>1, <2>1, <2>2, <2>3 DEF LowEnds
<1>2. ASSUME LowEnds(point, history, from, t, o)
      PROVE  /\ d.lowStart # 0 /\ ~LowAt(point, history, t)
             /\ o \in Pump!LowOccurrence(d, t, FALSE)
  <2>1. PICK a \in from..(t - 1) :
          /\ LowSince(point, history, from, t, a)
          /\ o = [type |-> "low_flow", start |-> a, end |-> t, open |-> FALSE]
    BY <1>2 DEF LowEnds
  <2>2. LowAt(point, history, t - 1) /\ a < t /\ a \in Int /\ from < t
    BY <2>1 DEF LowSince
  <2>3. d.lowStart # 0 /\ LowSince(point, history, from, t, d.lowStart)
    BY <2>2 DEF LowKnown
  <2>4. d.lowStart \in Int /\ d.lowStart < t
    BY <2>2, <2>3 DEF LowSince
  <2>5. d.lowStart = a
    BY <2>1, <2>2, <2>3, <2>4, OneBeginning
  <2> QED
    BY <1>2, <2>1, <2>3, <2>4, <2>5 DEF LowEnds, Pump!LowOccurrence
<1> QED
  BY <1>1, <1>2

\* A switch ends when the mode is another one, and is charged if it took too long.
LEMMA SwitchEndsIs ==
  ASSUME NEW point, NEW history, NEW from \in Int, NEW t \in Int, from <= t, NEW d,
         SwitchKnown(point, history, from, t, d), NEW o
  PROVE  SwitchEnds(point, history, from, t, o)
           <=> /\ ModeAt(point, history, t - 1) = "SWITCHING"
               /\ ModeAt(point, history, t) # "SWITCHING"
               /\ d.switchStart # 0
               /\ o \in Pump!TimeoutOccurrence(point, d, t, FALSE)
<1> DEFINE over == /\ ModeAt(point, history, t - 1) = "SWITCHING"
                   /\ ModeAt(point, history, t) # "SWITCHING"
           e(s) == [type |-> "switch_timeout", start |-> s + point.maxSwitch, end |-> t,
                    open |-> FALSE]
<1>0. o \in Pump!TimeoutOccurrence(point, d, t, FALSE)
        <=> t - d.switchStart > point.maxSwitch /\ o = e(d.switchStart)
  BY DEF Pump!TimeoutOccurrence
<1>1. ASSUME over, d.switchStart # 0, o \in Pump!TimeoutOccurrence(point, d, t, FALSE)
      PROVE  SwitchEnds(point, history, from, t, o)
  <2>1. t - d.switchStart > point.maxSwitch /\ o = e(d.switchStart)
    BY <1>0, <1>1
  <2>2. SwitchSince(point, history, from, t, d.switchStart)
    BY <1>1 DEF SwitchKnown
  <2>3. d.switchStart \in from..(t - 1)
    BY <2>2 DEF SwitchSince
  <2> QED
    BY <1>1, <2>1, <2>2, <2>3 DEF SwitchEnds
<1>2. ASSUME SwitchEnds(point, history, from, t, o)
      PROVE  over /\ d.switchStart # 0 /\ o \in Pump!TimeoutOccurrence(point, d, t, FALSE)
  <2>1. PICK a \in from..(t - 1) :
          /\ SwitchSince(point, history, from, t, a)
          /\ t - a > point.maxSwitch
          /\ o = e(a)
    BY <1>2 DEF SwitchEnds
  <2>2. over /\ a \in Int
    <3>1. t - 1 \in a..(t - 1)
      OBVIOUS
    <3> QED
      BY <1>2, <2>1, <3>1 DEF SwitchSince, SwitchEnds
  <2>3. d.switchStart # 0 /\ SwitchSince(point, history, from, t, d.switchStart)
    BY <2>1, <2>2 DEF SwitchKnown
  <2>4. d.switchStart \in Int
    BY <2>3 DEF SwitchSince
  <2>5. d.switchStart = a
    BY <2>1, <2>2, <2>3, <2>4, OneBeginning
  <2> QED
    BY <1>0, <2>1, <2>2, <2>3, <2>5
<1> QED
  BY <1>1, <1>2

\* One time adds what there is to know at that time.
LEMMA PumpStepKnows ==
  ASSUME NEW point, NEW history, PumpTimed(history), NEW from \in Int, NEW t \in Int, from <= t,
         NEW d, PumpKnows(point, history, from, t, d)
  PROVE  PumpKnows(point, history, from, t + 1, Pump!StepAt(point, d, history, t))
<1> DEFINE e == Pump!StepAt(point, d, history, t)
           was == ModeAt(point, history, t - 1)
           mode == ModeAt(point, history, t)
           low == LowAt(point, history, t)
           over == was = "SWITCHING" /\ mode # "SWITCHING"
<1>1. /\ PumpShape(d) /\ d.value = Pump!ValuesBefore(history, t)
      /\ LowKnown(point, history, from, t, d) /\ SwitchKnown(point, history, from, t, d)
      /\ FoundKnown(point, history, from, t, d)
  BY DEF PumpKnows
<1>2. /\ PumpShape(e)
      /\ e.value = Pump!ValuesBefore(history, t + 1)
      /\ e.lowStart = IF d.lowStart # 0 /\ ~low THEN 0
                      ELSE IF d.lowStart = 0 /\ low THEN t ELSE d.lowStart
      /\ e.switchStart = IF over THEN 0
                         ELSE IF was # "SWITCHING" /\ mode = "SWITCHING"
                         THEN IF was = "UNKNOWN" THEN 0 ELSE t
                         ELSE d.switchStart
      /\ e.found = d.found
           \cup (IF over /\ d.switchStart # 0
                 THEN Pump!TimeoutOccurrence(point, d, t, FALSE) ELSE {})
           \cup (IF d.lowStart # 0 /\ ~low
                 THEN Pump!LowOccurrence(d, t, FALSE) ELSE {})
  <2>1. PumpStepped(point, history, t, d, e)
    BY <1>1, PumpStepIs
  <2> HIDE DEF e
  <2> QED
    BY <2>1, Zenon DEF PumpStepped
<1>3. (low \/ mode # "UNKNOWN") => t # 0
  BY NothingAtZero
<1>4. (t + 1) - 1 = t /\ t + 1 \in Int
  OBVIOUS
<1>5. was \in {"UNKNOWN", "NORMAL_A", "NORMAL_B", "SWITCHING"}
  BY ModeIs DEF ModeAt
<1> HIDE DEF e
<1>6. LowKnown(point, history, from, t + 1, e)
  <2>1. CASE d.lowStart # 0 /\ low
    <3>1. e.lowStart = d.lowStart /\ LowSince(point, history, from, t, d.lowStart)
      BY <1>1, <1>2, <2>1 DEF LowKnown
    <3>2. LowSince(point, history, from, t + 1, d.lowStart)
      BY <2>1, <3>1 DEF LowSince
    <3> QED
      BY <1>4, <2>1, <3>1, <3>2 DEF LowKnown
  <2>2. CASE ~low
    <3>1. e.lowStart = 0
      BY <1>2, <2>2
    <3> QED
      BY <1>4, <2>2, <3>1 DEF LowKnown
  <2>3. CASE d.lowStart = 0 /\ low
    <3>1. e.lowStart = t /\ t # 0 /\ ~LowAt(point, history, t - 1)
      BY <1>1, <1>2, <1>3, <2>3 DEF LowKnown
    <3>2. LowSince(point, history, from, t + 1, t)
      BY <2>3, <3>1 DEF LowSince
    <3> QED
      BY <1>4, <2>3, <3>1, <3>2 DEF LowKnown
  <2> QED
    BY <2>1, <2>2, <2>3
<1>7. SwitchKnown(point, history, from, t + 1, e)
  <2>1. CASE mode # "SWITCHING"
    <3>1. \A a \in Int : ~SwitchSince(point, history, from, t + 1, a)
      BY <2>1 DEF SwitchSince
    <3>2. e.switchStart = 0
      <4>1. was # "SWITCHING" => d.switchStart = 0
        BY <1>1 DEF SwitchKnown, SwitchSince
      <4> QED
        BY <1>2, <2>1, <4>1
    <3> QED
      BY <3>1, <3>2 DEF SwitchKnown
  <2>2. CASE mode = "SWITCHING" /\ was # "SWITCHING"
    <3>1. CASE was = "UNKNOWN"
      <4>1. \A a \in Int : ~SwitchSince(point, history, from, t + 1, a)
        <5> SUFFICES ASSUME NEW a \in Int, SwitchSince(point, history, from, t + 1, a) PROVE FALSE
          OBVIOUS
        <5>1. a \in from..t /\ ModeAt(point, history, a - 1) \in {"NORMAL_A", "NORMAL_B"}
              /\ \A u \in a..t : ModeAt(point, history, u) = "SWITCHING"
          BY <1>4 DEF SwitchSince
        <5>2. a # t
          BY <3>1, <5>1
        <5>3. t - 1 \in a..t
          BY <5>1, <5>2
        <5> QED
          BY <2>2, <5>1, <5>3
      <4>2. e.switchStart = 0
        BY <1>2, <2>2, <3>1
      <4> QED
        BY <4>1, <4>2 DEF SwitchKnown
    <3>2. CASE was # "UNKNOWN"
      <4>1. e.switchStart = t /\ t # 0 /\ was \in {"NORMAL_A", "NORMAL_B"}
        BY <1>2, <1>3, <1>5, <2>2, <3>2
      <4>2. SwitchSince(point, history, from, t + 1, t)
        BY <2>2, <4>1 DEF SwitchSince
      <4> QED
        BY <4>1, <4>2 DEF SwitchKnown
    <3> QED
      BY <3>1, <3>2
  <2>3. CASE mode = "SWITCHING" /\ was = "SWITCHING"
    <3>1. e.switchStart = d.switchStart
      BY <1>2, <2>3
    <3>2. CASE d.switchStart # 0
      <4>1. SwitchSince(point, history, from, t, d.switchStart)
        BY <1>1, <3>2 DEF SwitchKnown
      <4>2. SwitchSince(point, history, from, t + 1, d.switchStart)
        BY <2>3, <4>1 DEF SwitchSince
      <4> QED
        BY <3>1, <3>2, <4>2 DEF SwitchKnown
    <3>3. CASE d.switchStart = 0
      <4>1. \A a \in Int : ~SwitchSince(point, history, from, t + 1, a)
        <5> SUFFICES ASSUME NEW a \in Int, SwitchSince(point, history, from, t + 1, a) PROVE FALSE
          OBVIOUS
        <5>1. a \in from..t /\ ModeAt(point, history, a - 1) \in {"NORMAL_A", "NORMAL_B"}
              /\ \A u \in a..t : ModeAt(point, history, u) = "SWITCHING"
          BY <1>4 DEF SwitchSince
        <5>2. a # t
          BY <2>3, <5>1
        <5>3. SwitchSince(point, history, from, t, a)
          BY <5>1, <5>2 DEF SwitchSince
        <5> QED
          BY <1>1, <3>3, <5>3 DEF SwitchKnown
      <4> QED
        BY <3>1, <3>3, <4>1 DEF SwitchKnown
    <3> QED
      BY <3>2, <3>3
  <2> QED
    BY <2>1, <2>2, <2>3
<1>8. FoundKnown(point, history, from, t + 1, e)
  <2> SUFFICES ASSUME NEW o
               PROVE  o \in e.found <=> \/ LowDone(point, history, from, t + 1, o)
                                        \/ SwitchDone(point, history, from, t + 1, o)
    BY DEF FoundKnown
  <2>1. o \in d.found <=> LowDone(point, history, from, t, o) \/ SwitchDone(point, history, from, t, o)
    BY <1>1 DEF FoundKnown
  <2>2. o \in e.found
          <=> \/ o \in d.found
              \/ over /\ d.switchStart # 0 /\ o \in Pump!TimeoutOccurrence(point, d, t, FALSE)
              \/ d.lowStart # 0 /\ ~low /\ o \in Pump!LowOccurrence(d, t, FALSE)
    BY <1>2
  <2>3. LowEnds(point, history, from, t, o)
          <=> d.lowStart # 0 /\ ~low /\ o \in Pump!LowOccurrence(d, t, FALSE)
    BY <1>1, LowEndsIs
  <2>4. SwitchEnds(point, history, from, t, o)
          <=> over /\ d.switchStart # 0 /\ o \in Pump!TimeoutOccurrence(point, d, t, FALSE)
    BY <1>1, SwitchEndsIs
  <2>5. LowDone(point, history, from, t + 1, o)
          <=> (LowDone(point, history, from, t, o) \/ LowEnds(point, history, from, t, o))
    BY DoneNext
  <2>6. SwitchDone(point, history, from, t + 1, o)
          <=> (SwitchDone(point, history, from, t, o) \/ SwitchEnds(point, history, from, t, o))
    BY DoneNext
  <2> HIDE DEF over, low, was, mode
  <2> QED
    BY <2>1, <2>2, <2>3, <2>4, <2>5, <2>6
<1> QED
  BY <1>2, <1>6, <1>7, <1>8 DEF PumpKnows, e

\* What the detector of pump_flow_compliance does with one time after another.
PumpTrace(g, point, history, from, until, start, end) ==
  /\ g[0] = Pump!DetectorAt(point, history, from)
  /\ \A i \in 1..(until - from) : g[i] = Pump!StepAt(point, g[i - 1], history, from + i - 1)
  /\ Pump!Detect(point, history, from, until, start, end)
       = LET d == g[until - from]
             left == (IF d.lowStart = 0 THEN {} ELSE Pump!LowOccurrence(d, until, TRUE))
                       \cup (IF d.switchStart = 0 THEN {}
                             ELSE Pump!TimeoutOccurrence(point, d, until, TRUE))
         IN  {o \in d.found \cup left : start <= o.start /\ o.start < end}

\* The steps of the detector from one time to another exist.
LEMMA PumpTraceExists ==
  ASSUME NEW point, NEW history, NEW from, NEW until, NEW start, NEW end, (until - from) \in Nat
  PROVE  \E g : PumpTrace(g, point, history, from, until, start, end)
<1> DEFINE c == Pump!DetectorAt(point, history, from)
           E(x, i) == Pump!StepAt(point, x, history, from + i - 1)
           Is(g, n) == g = [i \in 0..n |-> IF i = 0 THEN c ELSE E(g[i - 1], i)]
           T == {n \in Nat : \E g : Is(g, n)}
<1> HIDE DEF c, E
<1>1. 0 \in T
  <2>1. Is([i \in 0..0 |-> c], 0)
    OBVIOUS
  <2> QED
    BY <2>1
<1>2. ASSUME NEW n \in Nat, n \in T PROVE n + 1 \in T
  <2>1. PICK g : Is(g, n)
    BY <1>2
  <2> DEFINE h == [i \in 0..(n + 1) |-> IF i = n + 1 THEN E(g[n], n + 1) ELSE g[i]]
  <2>2. \A i \in 0..(n + 1) : h[i] = IF i = 0 THEN c ELSE E(h[i - 1], i)
    <3> TAKE i \in 0..(n + 1)
    <3>1. CASE i = n + 1
      BY <3>1
    <3>2. CASE i # n + 1
      BY <2>1, <3>2
    <3> QED
      BY <3>1, <3>2
  <2>3. Is(h, n + 1)
    <3>1. h = [i \in 0..(n + 1) |-> h[i]]
      OBVIOUS
    <3> HIDE DEF h
    <3> QED
      BY <2>2, <3>1
  <2> HIDE DEF Is
  <2> QED
    BY <2>3
<1> HIDE DEF T
<1>3. Nat \subseteq T
  BY <1>1, <1>2, SetInduction
<1>4. \E g : Is(g, (until - from))
  BY <1>3 DEF T
<1> DEFINE a == CHOOSE g : Is(g, (until - from))
<1>5. Is(a, (until - from))
  BY <1>4
<1>6. Pump!Detect(point, history, from, until, start, end)
       = LET d == a[until - from]
             left == (IF d.lowStart = 0 THEN {} ELSE Pump!LowOccurrence(d, until, TRUE))
                       \cup (IF d.switchStart = 0 THEN {}
                             ELSE Pump!TimeoutOccurrence(point, d, until, TRUE))
         IN  {o \in d.found \cup left : start <= o.start /\ o.start < end}
  BY DEF Pump!Detect, c, E
<1> HIDE DEF a
<1>7. a[0] = c /\ \A i \in 1..(until - from) : a[i] = E(a[i - 1], i)
  BY <1>5
<1>8. PumpTrace(a, point, history, from, until, start, end)
  BY <1>6, <1>7 DEF PumpTrace, c, E
<1> QED
  BY <1>8

-----------------------------------------------------------------------------
\* The detector charges what it has found and what is not known to be over.
Charges(point, d, until, start, end, o) ==
  /\ \/ o \in d.found
     \/ d.lowStart # 0 /\ o \in Pump!LowOccurrence(d, until, TRUE)
     \/ d.switchStart # 0 /\ o \in Pump!TimeoutOccurrence(point, d, until, TRUE)
  /\ start <= o.start /\ o.start < end

\* Detect charges what the detector found and what is open at the end.
LEMMA PumpDetectKnows ==
  ASSUME NEW point, NEW history, PumpTimed(history), NEW from \in Int, NEW until \in Int,
         from <= until, NEW start, NEW end
  PROVE  \E d : /\ PumpKnows(point, history, from, until, d)
                /\ \A o : o \in Pump!Detect(point, history, from, until, start, end)
                            <=> Charges(point, d, until, start, end, o)
<1>1. until - from \in Nat
  OBVIOUS
<1>2. PICK g : PumpTrace(g, point, history, from, until, start, end)
  BY <1>1, PumpTraceExists
<1> DEFINE N == until - from
           d == g[N]
           left == (IF d.lowStart = 0 THEN {} ELSE Pump!LowOccurrence(d, until, TRUE))
                     \cup (IF d.switchStart = 0 THEN {}
                           ELSE Pump!TimeoutOccurrence(point, d, until, TRUE))
<1>3. /\ g[0] = Pump!DetectorAt(point, history, from)
      /\ \A i \in 1..N : g[i] = Pump!StepAt(point, g[i - 1], history, from + i - 1)
      /\ Pump!Detect(point, history, from, until, start, end)
           = {o \in d.found \cup left : start <= o.start /\ o.start < end}
  BY <1>2 DEF PumpTrace
<1> DEFINE T == {i \in Nat : i <= N => PumpKnows(point, history, from, from + i, g[i])}
<1>4. 0 \in T
  <2>1. from + 0 = from
    OBVIOUS
  <2> QED
    BY <1>3, <2>1, PumpBegins
<1>5. ASSUME NEW i \in Nat, i \in T PROVE i + 1 \in T
  <2> SUFFICES ASSUME i + 1 <= N
               PROVE  PumpKnows(point, history, from, from + (i + 1), g[i + 1])
    OBVIOUS
  <2> DEFINE t == from + i
  <2>1. PumpKnows(point, history, from, t, g[i])
    BY <1>1, <1>5
  <2>2. i + 1 \in 1..N /\ (i + 1) - 1 = i /\ from + (i + 1) - 1 = t /\ from + (i + 1) = t + 1
        /\ t \in Int /\ from <= t
    BY <1>1
  <2>3. g[i + 1] = Pump!StepAt(point, g[i], history, t)
    BY <1>3, <2>2
  <2> HIDE DEF t
  <2>4. PumpKnows(point, history, from, t + 1, g[i + 1])
    BY <2>1, <2>2, <2>3, PumpStepKnows
  <2> QED
    BY <2>2, <2>4
<1> HIDE DEF T
<1>6. Nat \subseteq T
  BY <1>4, <1>5, SetInduction
<1>7. PumpKnows(point, history, from, until, d)
  <2>1. N \in T /\ from + N = until
    BY <1>1, <1>6
  <2> QED
    BY <2>1 DEF T
<1> HIDE DEF d, N
<1>8. \A o : o \in Pump!Detect(point, history, from, until, start, end)
               <=> Charges(point, d, until, start, end, o)
  <2> TAKE o
  <2>1. o \in Pump!Detect(point, history, from, until, start, end)
          <=> o \in d.found \cup left /\ start <= o.start /\ o.start < end
    BY <1>3
  <2> QED
    BY <2>1 DEF Charges
<1> QED
  BY <1>7, <1>8

-----------------------------------------------------------------------------
\* A fault that begins from start to end, as far as is known before until.
LowFault(point, history, start, end, until, o) ==
  \E t \in start..(end - 1) :
    /\ LowAt(point, history, t) /\ ~LowAt(point, history, t - 1)
    /\ \/ \E b \in (t + 1)..(until - 1) :
            /\ ~LowAt(point, history, b)
            /\ \A u \in (t + 1)..(b - 1) : LowAt(point, history, u)
            /\ o = [type |-> "low_flow", start |-> t, end |-> b, open |-> FALSE]
       \/ /\ \A u \in (t + 1)..(until - 1) : LowAt(point, history, u)
          /\ o = [type |-> "low_flow", start |-> t, end |-> until, open |-> TRUE]

\* A switch from normal operation has taken as long as it may by t, and goes on.
Slow(point, history, t) ==
  /\ ModeAt(point, history, t - point.maxSwitch - 1) \in {"NORMAL_A", "NORMAL_B"}
  /\ \A u \in (t - point.maxSwitch)..t : ModeAt(point, history, u) = "SWITCHING"

SwitchFault(point, history, start, end, until, o) ==
  \E t \in start..(end - 1) :
    /\ Slow(point, history, t)
    /\ \/ \E b \in (t + 1)..(until - 1) :
            /\ ModeAt(point, history, b) # "SWITCHING"
            /\ \A u \in (t + 1)..(b - 1) : ModeAt(point, history, u) = "SWITCHING"
            /\ o = [type |-> "switch_timeout", start |-> t, end |-> b, open |-> FALSE]
       \/ /\ \A u \in (t + 1)..(until - 1) : ModeAt(point, history, u) = "SWITCHING"
          /\ o = [type |-> "switch_timeout", start |-> t, end |-> until, open |-> TRUE]

\* A low flow in the window is a low flow that the detector found or that is open.
LEMMA LowFaultIs ==
  ASSUME NEW point, NEW history, NEW from \in Int, NEW until \in Int,
         NEW start \in Int, NEW end \in Int, from < start, end < until,
         NEW d, LowKnown(point, history, from, until, d), NEW o
  PROVE  LowFault(point, history, start, end, until, o)
           <=> /\ \/ LowDone(point, history, from, until, o)
                  \/ d.lowStart # 0 /\ o \in Pump!LowOccurrence(d, until, TRUE)
               /\ start <= o.start /\ o.start < end
<1>1. ASSUME LowDone(point, history, from, until, o), start <= o.start, o.start < end
      PROVE  LowFault(point, history, start, end, until, o)
  <2>0. PICK b \in from..(until - 1) :
          /\ ~LowAt(point, history, b)
          /\ \E a \in from..(b - 1) :
               /\ LowSince(point, history, from, b, a)
               /\ o = [type |-> "low_flow", start |-> a, end |-> b, open |-> FALSE]
    BY <1>1 DEF LowDone
  <2>1. PICK a \in from..(b - 1) :
          /\ ~LowAt(point, history, b)
          /\ LowSince(point, history, from, b, a)
          /\ o = [type |-> "low_flow", start |-> a, end |-> b, open |-> FALSE]
    BY <2>0
  <2>2. a \in start..(end - 1) /\ b \in (a + 1)..(until - 1) /\ a # from
    BY <1>1, <2>1
  <2>3. ~LowAt(point, history, a - 1) /\ \A u \in a..(b - 1) : LowAt(point, history, u)
    BY <2>1, <2>2 DEF LowSince
  <2>4. LowAt(point, history, a) /\ \A u \in (a + 1)..(b - 1) : LowAt(point, history, u)
    BY <2>2, <2>3
  <2> QED
    BY <2>1, <2>2, <2>3, <2>4 DEF LowFault
<1>2. ASSUME d.lowStart # 0, o \in Pump!LowOccurrence(d, until, TRUE), start <= o.start,
             o.start < end
      PROVE  LowFault(point, history, start, end, until, o)
  <2> DEFINE a == d.lowStart
  <2>1. /\ until > a
        /\ o = [type |-> "low_flow", start |-> a, end |-> until, open |-> TRUE]
    BY <1>2 DEF Pump!LowOccurrence
  <2>2. LowSince(point, history, from, until, a)
    BY <1>2 DEF LowKnown
  <2> HIDE DEF a
  <2>3. a \in start..(end - 1) /\ a # from
    BY <1>2, <2>1, <2>2 DEF LowSince
  <2>4. ~LowAt(point, history, a - 1) /\ \A u \in a..(until - 1) : LowAt(point, history, u)
    BY <2>2, <2>3 DEF LowSince
  <2>5. LowAt(point, history, a) /\ \A u \in (a + 1)..(until - 1) : LowAt(point, history, u)
    BY <2>3, <2>4
  <2> QED
    BY <2>1, <2>3, <2>4, <2>5 DEF LowFault
<1>3. ASSUME LowFault(point, history, start, end, until, o)
      PROVE  /\ \/ LowDone(point, history, from, until, o)
                \/ d.lowStart # 0 /\ o \in Pump!LowOccurrence(d, until, TRUE)
             /\ start <= o.start /\ o.start < end
  <2> DEFINE e(t, b, open) == [type |-> "low_flow", start |-> t, end |-> b, open |-> open]
  <2>1. PICK t \in start..(end - 1) :
          /\ LowAt(point, history, t) /\ ~LowAt(point, history, t - 1)
          /\ \/ \E b \in (t + 1)..(until - 1) :
                  /\ ~LowAt(point, history, b)
                  /\ \A u \in (t + 1)..(b - 1) : LowAt(point, history, u)
                  /\ o = e(t, b, FALSE)
             \/ /\ \A u \in (t + 1)..(until - 1) : LowAt(point, history, u)
                /\ o = e(t, until, TRUE)
    BY <1>3 DEF LowFault
  <2>2. t \in Int /\ from < t /\ t < until /\ start <= t /\ t < end
    OBVIOUS
  <2>3. CASE \E b \in (t + 1)..(until - 1) :
               /\ ~LowAt(point, history, b)
               /\ \A u \in (t + 1)..(b - 1) : LowAt(point, history, u)
               /\ o = e(t, b, FALSE)
    <3>1. PICK b \in (t + 1)..(until - 1) :
            /\ ~LowAt(point, history, b)
            /\ \A u \in (t + 1)..(b - 1) : LowAt(point, history, u)
            /\ o = e(t, b, FALSE)
      BY <2>3
    <3>2. b \in from..(until - 1) /\ t \in from..(b - 1) /\ t \in from..b
      BY <2>2
    <3>3. \A u \in t..(b - 1) : u = t \/ u \in (t + 1)..(b - 1)
      BY <2>2
    <3>4. LowSince(point, history, from, b, t)
      BY <2>1, <3>1, <3>2, <3>3 DEF LowSince
    <3>5. LowDone(point, history, from, until, o)
      BY <3>1, <3>2, <3>4 DEF LowDone
    <3>6. o.start = t
      BY <3>1
    <3>7. start <= o.start /\ o.start < end
      BY <2>2, <3>6
    <3> QED
      BY <3>5, <3>7, Zenon
  <2>4. CASE /\ \A u \in (t + 1)..(until - 1) : LowAt(point, history, u)
             /\ o = e(t, until, TRUE)
    <3>1. \A u \in t..(until - 1) : LowAt(point, history, u)
      <4>1. \A u \in t..(until - 1) : u = t \/ u \in (t + 1)..(until - 1)
        BY <2>2
      <4> QED
        BY <2>1, <2>4, <4>1
    <3>2. LowSince(point, history, from, until, t)
      BY <2>1, <2>2, <3>1 DEF LowSince
    <3>3. LowAt(point, history, until - 1)
      BY <2>2, <3>1
    <3>4. d.lowStart # 0 /\ LowSince(point, history, from, until, d.lowStart)
      BY <3>3 DEF LowKnown
    <3>5. d.lowStart \in Int /\ d.lowStart < until
      BY <2>2, <3>3, <3>4 DEF LowSince
    <3>6. d.lowStart = t
      BY <2>2, <3>2, <3>4, <3>5, OneBeginning
    <3>7. o \in Pump!LowOccurrence(d, until, TRUE)
      BY <2>2, <2>4, <3>6 DEF Pump!LowOccurrence
    <3>8. o.start = t
      BY <2>4
    <3>9. start <= o.start /\ o.start < end
      BY <2>2, <3>8
    <3> QED
      BY <3>4, <3>7, <3>9, Zenon
  <2> QED
    BY <2>1, <2>3, <2>4
<1> QED
  BY <1>1, <1>2, <1>3

\* A slow switch in the window is one that the detector found or that is open.
LEMMA SwitchFaultIs ==
  ASSUME NEW point, point.maxSwitch \in Nat \ {0}, NEW history, NEW from \in Int,
         NEW until \in Int, NEW start \in Int, NEW end \in Int,
         from + point.maxSwitch <= start, end < until,
         NEW d, SwitchKnown(point, history, from, until, d), NEW o
  PROVE  SwitchFault(point, history, start, end, until, o)
           <=> /\ \/ SwitchDone(point, history, from, until, o)
                  \/ d.switchStart # 0 /\ o \in Pump!TimeoutOccurrence(point, d, until, TRUE)
               /\ start <= o.start /\ o.start < end
<1> DEFINE m == point.maxSwitch
           e(t, b, open) == [type |-> "switch_timeout", start |-> t, end |-> b, open |-> open]
<1>0. o \in Pump!TimeoutOccurrence(point, d, until, TRUE)
        <=> until - d.switchStart > m /\ o = e(d.switchStart + m, until, TRUE)
  BY DEF Pump!TimeoutOccurrence
<1>m. m \in Nat \ {0} /\ from + m <= start
  OBVIOUS
<1> HIDE DEF m
<1>1. ASSUME SwitchDone(point, history, from, until, o), start <= o.start, o.start < end
      PROVE  SwitchFault(point, history, start, end, until, o)
  <2>0. PICK b \in from..(until - 1) :
          /\ ModeAt(point, history, b) # "SWITCHING"
          /\ \E a \in from..(b - 1) : /\ SwitchSince(point, history, from, b, a)
                                      /\ b - a > m
                                      /\ o = e(a + m, b, FALSE)
    BY <1>1 DEF SwitchDone, m
  <2>1. PICK a \in from..(b - 1) :
          /\ ModeAt(point, history, b) # "SWITCHING"
          /\ SwitchSince(point, history, from, b, a)
          /\ b - a > m
          /\ o = e(a + m, b, FALSE)
    BY <2>0
  <2> DEFINE t == a + m
  <2>2. /\ t \in start..(end - 1) /\ b \in (t + 1)..(until - 1) /\ t - m = a /\ t \in Int
        /\ a \in Int /\ t < b
    BY <1>1, <1>m, <2>1
  <2>3. ModeAt(point, history, a - 1) \in {"NORMAL_A", "NORMAL_B"}
        /\ \A u \in a..(b - 1) : ModeAt(point, history, u) = "SWITCHING"
    BY <2>1 DEF SwitchSince
  <2> HIDE DEF t
  <2>4. /\ \A u \in a..t : ModeAt(point, history, u) = "SWITCHING"
        /\ \A u \in (t + 1)..(b - 1) : ModeAt(point, history, u) = "SWITCHING"
    <3>1. a <= t
      BY <1>m, <2>2
    <3> QED
      BY <2>2, <2>3, <3>1
  <2>5. Slow(point, history, t)
    BY <2>2, <2>3, <2>4 DEF Slow, m
  <2> QED
    BY <2>1, <2>2, <2>4, <2>5 DEF SwitchFault, t
<1>2. ASSUME d.switchStart # 0, o \in Pump!TimeoutOccurrence(point, d, until, TRUE),
             start <= o.start, o.start < end
      PROVE  SwitchFault(point, history, start, end, until, o)
  <2> DEFINE a == d.switchStart
             t == a + m
  <2>1. until - a > m /\ o = e(t, until, TRUE)
    BY <1>0, <1>2
  <2>2. SwitchSince(point, history, from, until, a)
    BY <1>2 DEF SwitchKnown
  <2> HIDE DEF a
  <2>3. /\ a \in from..(until - 1)
        /\ ModeAt(point, history, a - 1) \in {"NORMAL_A", "NORMAL_B"}
        /\ \A u \in a..(until - 1) : ModeAt(point, history, u) = "SWITCHING"
    BY <2>2 DEF SwitchSince
  <2>4. t \in start..(end - 1) /\ t - m = a /\ t \in Int /\ a \in Int /\ a <= t /\ t < until
    BY <1>2, <1>m, <2>1, <2>3
  <2> HIDE DEF t
  <2>5. /\ \A u \in a..t : ModeAt(point, history, u) = "SWITCHING"
        /\ \A u \in (t + 1)..(until - 1) : ModeAt(point, history, u) = "SWITCHING"
    BY <2>3, <2>4
  <2>6. Slow(point, history, t)
    BY <2>3, <2>4, <2>5 DEF Slow, m
  <2> QED
    BY <2>1, <2>4, <2>5, <2>6 DEF SwitchFault
<1>3. ASSUME SwitchFault(point, history, start, end, until, o)
      PROVE  /\ \/ SwitchDone(point, history, from, until, o)
                \/ d.switchStart # 0 /\ o \in Pump!TimeoutOccurrence(point, d, until, TRUE)
             /\ start <= o.start /\ o.start < end
  <2>1. PICK t \in start..(end - 1) :
          /\ Slow(point, history, t)
          /\ \/ \E b \in (t + 1)..(until - 1) :
                  /\ ModeAt(point, history, b) # "SWITCHING"
                  /\ \A u \in (t + 1)..(b - 1) : ModeAt(point, history, u) = "SWITCHING"
                  /\ o = e(t, b, FALSE)
             \/ /\ \A u \in (t + 1)..(until - 1) : ModeAt(point, history, u) = "SWITCHING"
                /\ o = e(t, until, TRUE)
    BY <1>3 DEF SwitchFault
  <2> DEFINE a == t - m
  <2>2. /\ a \in Int /\ from <= a /\ a < t /\ t < until /\ t \in Int /\ a + m = t
        /\ start <= t /\ t < end
    BY <1>m
  <2>3. /\ ModeAt(point, history, a - 1) \in {"NORMAL_A", "NORMAL_B"}
        /\ \A u \in a..t : ModeAt(point, history, u) = "SWITCHING"
    BY <2>1 DEF Slow, m
  <2> HIDE DEF a
  <2>4. CASE \E b \in (t + 1)..(until - 1) :
               /\ ModeAt(point, history, b) # "SWITCHING"
               /\ \A u \in (t + 1)..(b - 1) : ModeAt(point, history, u) = "SWITCHING"
               /\ o = e(t, b, FALSE)
    <3>1. PICK b \in (t + 1)..(until - 1) :
            /\ ModeAt(point, history, b) # "SWITCHING"
            /\ \A u \in (t + 1)..(b - 1) : ModeAt(point, history, u) = "SWITCHING"
            /\ o = e(t, b, FALSE)
      BY <2>4
    <3>2. b \in from..(until - 1) /\ a \in from..(b - 1) /\ b - a > m
      BY <1>m, <2>2
    <3>3. \A u \in a..(b - 1) : u \in a..t \/ u \in (t + 1)..(b - 1)
      BY <2>2
    <3>4. SwitchSince(point, history, from, b, a)
      BY <2>3, <3>1, <3>2, <3>3 DEF SwitchSince
    <3>5. o = [type |-> "switch_timeout", start |-> a + point.maxSwitch, end |-> b,
               open |-> FALSE]
      BY <2>2, <3>1 DEF m
    <3>6. SwitchDone(point, history, from, until, o)
      BY <3>1, <3>2, <3>4, <3>5 DEF SwitchDone, m
    <3>7. o.start = t
      BY <3>1
    <3>8. start <= o.start /\ o.start < end
      BY <2>2, <3>7
    <3> QED
      BY <3>6, <3>8, Zenon
  <2>5. CASE /\ \A u \in (t + 1)..(until - 1) : ModeAt(point, history, u) = "SWITCHING"
             /\ o = e(t, until, TRUE)
    <3>1. \A u \in a..(until - 1) : ModeAt(point, history, u) = "SWITCHING"
      <4>1. \A u \in a..(until - 1) : u \in a..t \/ u \in (t + 1)..(until - 1)
        BY <2>2
      <4> QED
        BY <2>3, <2>5, <4>1
    <3>2. SwitchSince(point, history, from, until, a)
      BY <2>2, <2>3, <3>1 DEF SwitchSince
    <3>3. d.switchStart # 0 /\ SwitchSince(point, history, from, until, d.switchStart)
      BY <2>2, <3>2 DEF SwitchKnown
    <3>4. d.switchStart \in Int
      BY <3>3 DEF SwitchSince
    <3>5. d.switchStart = a
      BY <2>2, <3>2, <3>3, <3>4, OneBeginning
    <3>6. until - a > m /\ o = e(a + m, until, TRUE)
      <4>1. until - a > m
        BY <1>m, <2>2
      <4>2. e(t, until, TRUE) = e(a + m, until, TRUE)
        BY <2>2
      <4> QED
        BY <2>5, <4>1, <4>2
    <3>7. o \in Pump!TimeoutOccurrence(point, d, until, TRUE)
      BY <1>0, <3>5, <3>6
    <3>8. o.start = t
      BY <2>5
    <3>9. start <= o.start /\ o.start < end
      BY <2>2, <3>8
    <3> QED
      BY <3>3, <3>7, <3>9, Zenon
  <2> QED
    BY <2>1, <2>4, <2>5
<1> QED
  BY <1>1, <1>2, <1>3

\* The detector charges the faults in its history.
LEMMA PumpDetectFinds ==
  ASSUME NEW point, point.maxSwitch \in Nat \ {0}, NEW history, PumpTimed(history),
         NEW from \in Int, NEW until \in Int, NEW start \in Int, NEW end \in Int,
         from + point.maxSwitch <= start, start <= end, end < until, NEW o
  PROVE  o \in Pump!Detect(point, history, from, until, start, end)
           <=> \/ LowFault(point, history, start, end, until, o)
               \/ SwitchFault(point, history, start, end, until, o)
<1>1. from < start /\ from <= until
  OBVIOUS
<1>2. PICK d : /\ PumpKnows(point, history, from, until, d)
               /\ \A x : x \in Pump!Detect(point, history, from, until, start, end)
                           <=> Charges(point, d, until, start, end, x)
  BY <1>1, PumpDetectKnows
<1>3. /\ LowKnown(point, history, from, until, d) /\ SwitchKnown(point, history, from, until, d)
      /\ o \in d.found <=> \/ LowDone(point, history, from, until, o)
                           \/ SwitchDone(point, history, from, until, o)
  BY <1>2 DEF PumpKnows, FoundKnown
<1>4. LowFault(point, history, start, end, until, o)
        <=> /\ \/ LowDone(point, history, from, until, o)
               \/ d.lowStart # 0 /\ o \in Pump!LowOccurrence(d, until, TRUE)
            /\ start <= o.start /\ o.start < end
  BY <1>1, <1>3, LowFaultIs
<1>5. SwitchFault(point, history, start, end, until, o)
        <=> /\ \/ SwitchDone(point, history, from, until, o)
               \/ d.switchStart # 0 /\ o \in Pump!TimeoutOccurrence(point, d, until, TRUE)
            /\ start <= o.start /\ o.start < end
  BY <1>1, <1>3, SwitchFaultIs
<1>6. o \in Pump!Detect(point, history, from, until, start, end)
        <=> Charges(point, d, until, start, end, o)
  BY <1>2
<1> QED
  BY <1>3, <1>4, <1>5, <1>6 DEF Charges

-----------------------------------------------------------------------------
\* A fault is over at the first time at which it does not go on.
Fault(type, t, until, over) ==
  [type |-> type, start |-> t, open |-> over = {},
   end  |-> IF over = {} THEN until ELSE CHOOSE u \in over : \A v \in over : u <= v]

FaultOf(o, type, t, until, over) ==
  \/ over = {} /\ o = [type |-> type, start |-> t, end |-> until, open |-> TRUE]
  \/ \E b \in over : /\ \A v \in over : b <= v
                     /\ o = [type |-> type, start |-> t, end |-> b, open |-> FALSE]

\* A fault ends at the first time at which it is over, or is open.
LEMMA FaultIs ==
  ASSUME NEW t \in Int, NEW until, NEW over, \A u \in over : u \in Int /\ t < u,
         NEW type, NEW o
  PROVE  o = Fault(type, t, until, over) <=> FaultOf(o, type, t, until, over)
<1> DEFINE c == CHOOSE u \in over : \A v \in over : u <= v
           open == over = {}
           end == IF over = {} THEN until ELSE c
           e(b, x) == [type |-> type, start |-> t, end |-> b, open |-> x]
<1>1. CASE over = {}
  <2>1. open = TRUE /\ end = until
    BY <1>1
  <2> QED
    BY <1>1, <2>1 DEF Fault, FaultOf
<1>2. CASE over # {}
  <2> DEFINE S == {n \in Nat : t + n \in over}
  <2>1. \E n \in Nat : n \in S
    <3>1. PICK u \in over : TRUE
      BY <1>2
    <3>2. u - t \in Nat /\ t + (u - t) = u
      OBVIOUS
    <3> QED
      BY <3>1, <3>2
  <2>2. PICK n \in S : \A k \in S : n <= k
    <3>1. S \subseteq Nat
      OBVIOUS
    <3> HIDE DEF S
    <3> QED
      BY <2>1, <3>1, LeastNumber
  <2>3. t + n \in over /\ \A v \in over : t + n <= v
    <3>1. ASSUME NEW v \in over PROVE t + n <= v
      <4>1. v - t \in Nat /\ t + (v - t) = v
        OBVIOUS
      <4>2. v - t \in S
        BY <4>1
      <4>3. n <= v - t /\ n \in Nat
        BY <2>2, <4>2
      <4> QED
        BY <4>1, <4>3
    <3> QED
      BY <3>1
  <2>4. c \in over /\ \A v \in over : c <= v
    <3>1. \E u \in over : \A v \in over : u <= v
      BY <2>3
    <3> QED
      BY <3>1
  <2> HIDE DEF c
  <2>5. ASSUME NEW b \in over, \A v \in over : b <= v PROVE b = c
    <3>1. b <= c /\ c <= b /\ b \in Int /\ c \in Int
      BY <2>4, <2>5
    <3> QED
      BY <3>1
  <2>6. open = FALSE /\ end = c
    BY <1>2
  <2>7. o = e(end, open) <=> o = e(c, FALSE)
    BY <2>6
  <2>8. o = e(c, FALSE) <=> \E b \in over : (\A v \in over : b <= v) /\ o = e(b, FALSE)
    BY <2>4, <2>5
  <2>9. [type |-> type, start |-> t, open |-> open, end |-> end] = e(end, open)
    <3> HIDE DEF open, end
    <3> QED
      OBVIOUS
  <2>10. Fault(type, t, until, over) = [type |-> type, start |-> t, open |-> open, end |-> end]
    BY Zenon DEF Fault, c
  <2> HIDE DEF open, end
  <2> QED
    BY <1>2, <2>7, <2>8, <2>9, <2>10 DEF FaultOf
<1> QED
  BY <1>1, <1>2

\* The faults that the rule is to charge, one by one.
LEMMA PumpFaultsAre ==
  ASSUME NEW point, NEW start \in Int, NEW end \in Int, NEW until \in Int, NEW o
  PROVE  LET history == Pump!HistoryOf(point, recorded)
         IN  o \in PumpFaults(point, start, end, until)
               <=> \/ LowFault(point, history, start, end, until, o)
                   \/ SwitchFault(point, history, start, end, until, o)
<1> DEFINE history == Pump!HistoryOf(point, recorded)
           low(t) == LowAt(point, history, t)
           mode(t) == ModeAt(point, history, t)
           later(t) == (t + 1)..(until - 1)
           fault(type, t, over) == Fault(type, t, until, over)
           well(t) == {u \in later(t) : ~low(u)}
           done(t) == {u \in later(t) : mode(u) # "SWITCHING"}
           e(type, t, b, open) == [type |-> type, start |-> t, end |-> b, open |-> open]
<1>1. /\ \A t : Pump!LowFlow(point, PumpValue(point, t)) = low(t)
      /\ \A t : Pump!Mode(point, PumpValue(point, t)) = mode(t)
  BY DEF PumpValue, LowAt, ModeAt
<1>2. \A t : Slow(point, history, t)
        <=> /\ mode(t - point.maxSwitch - 1) \in {"NORMAL_A", "NORMAL_B"}
            /\ \A u \in (t - point.maxSwitch)..t : mode(u) = "SWITCHING"
  BY DEF Slow
<1>3. o \in PumpFaults(point, start, end, until)
        <=> \/ \E t \in start..(end - 1) :
                 low(t) /\ ~low(t - 1) /\ o = fault("low_flow", t, well(t))
            \/ \E t \in start..(end - 1) :
                 Slow(point, history, t) /\ o = fault("switch_timeout", t, done(t))
  <2> HIDE DEF history, low, mode
  <2> QED
    BY <1>1, <1>2 DEF PumpFaults, Fault
<1>4. ASSUME NEW t \in start..(end - 1)
      PROVE  o = fault("low_flow", t, well(t))
               <=> \/ \E b \in later(t) : /\ ~low(b)
                                          /\ \A u \in (t + 1)..(b - 1) : low(u)
                                          /\ o = e("low_flow", t, b, FALSE)
                   \/ (\A u \in later(t) : low(u)) /\ o = e("low_flow", t, until, TRUE)
  <2>1. t \in Int /\ \A u \in well(t) : u \in Int /\ t < u
    OBVIOUS
  <2> DEFINE over == well(t)
  <2> HIDE DEF over
  <2>2. o = fault("low_flow", t, over)
          <=> \/ over = {} /\ o = e("low_flow", t, until, TRUE)
              \/ \E b \in over : (\A v \in over : b <= v) /\ o = e("low_flow", t, b, FALSE)
    <3>1. o = Fault("low_flow", t, until, over) <=> FaultOf(o, "low_flow", t, until, over)
      BY <2>1, FaultIs DEF over
    <3> QED
      BY <3>1 DEF FaultOf
  <2> HIDE DEF low, fault, e
  <2>3. over = {} <=> \A u \in later(t) : low(u)
    BY DEF over
  <2>4. ASSUME NEW b \in later(t)
        PROVE  (b \in over /\ \A v \in over : b <= v)
                 <=> ~low(b) /\ \A u \in (t + 1)..(b - 1) : low(u)
    <3>1. \A u \in (t + 1)..(b - 1) : u \in later(t) /\ ~(b <= u)
      BY <2>1
    <3>2. \A v \in later(t) : b <= v \/ v \in (t + 1)..(b - 1)
      BY <2>1
    <3> QED
      BY <3>1, <3>2 DEF over
  <2>5. \A b \in over : b \in later(t)
    BY DEF over
  <2> QED
    BY <2>2, <2>3, <2>4, <2>5 DEF over
<1>5. ASSUME NEW t \in start..(end - 1)
      PROVE  o = fault("switch_timeout", t, done(t))
               <=> \/ \E b \in later(t) : /\ mode(b) # "SWITCHING"
                                          /\ \A u \in (t + 1)..(b - 1) : mode(u) = "SWITCHING"
                                          /\ o = e("switch_timeout", t, b, FALSE)
                   \/ /\ \A u \in later(t) : mode(u) = "SWITCHING"
                      /\ o = e("switch_timeout", t, until, TRUE)
  <2>1. t \in Int /\ \A u \in done(t) : u \in Int /\ t < u
    OBVIOUS
  <2> DEFINE over == done(t)
  <2> HIDE DEF over
  <2>2. o = fault("switch_timeout", t, over)
          <=> \/ over = {} /\ o = e("switch_timeout", t, until, TRUE)
              \/ \E b \in over : (\A v \in over : b <= v) /\ o = e("switch_timeout", t, b, FALSE)
    <3>1. o = Fault("switch_timeout", t, until, over) <=> FaultOf(o, "switch_timeout", t, until, over)
      BY <2>1, FaultIs DEF over
    <3> QED
      BY <3>1 DEF FaultOf
  <2> HIDE DEF mode, fault, e
  <2>3. over = {} <=> \A u \in later(t) : mode(u) = "SWITCHING"
    BY DEF over
  <2>4. ASSUME NEW b \in later(t)
        PROVE  (b \in over /\ \A v \in over : b <= v)
                 <=> mode(b) # "SWITCHING" /\ \A u \in (t + 1)..(b - 1) : mode(u) = "SWITCHING"
    <3>1. \A u \in (t + 1)..(b - 1) : u \in later(t) /\ ~(b <= u)
      BY <2>1
    <3>2. \A v \in later(t) : b <= v \/ v \in (t + 1)..(b - 1)
      BY <2>1
    <3> QED
      BY <3>1, <3>2 DEF over
  <2>5. \A b \in over : b \in later(t)
    BY DEF over
  <2> QED
    BY <2>2, <2>3, <2>4, <2>5 DEF over
<1> HIDE DEF fault
<1>6. (\E t \in start..(end - 1) :
         low(t) /\ ~low(t - 1) /\ o = fault("low_flow", t, well(t)))
        <=> LowFault(point, history, start, end, until, o)
  <2> HIDE DEF history, well
  <2> QED
    BY <1>4 DEF LowFault
<1>7. (\E t \in start..(end - 1) :
         Slow(point, history, t) /\ o = fault("switch_timeout", t, done(t)))
        <=> SwitchFault(point, history, start, end, until, o)
  <2> HIDE DEF history, done
  <2> QED
    BY <1>5 DEF SwitchFault
<1> QED
  BY <1>3, <1>6, <1>7

-----------------------------------------------------------------------------
\* Two histories of a pump group that know the same from a time on.
Agree(one, other, from, until) ==
  \A t \in from..until : Pump!ValuesBefore(one, t) = Pump!ValuesBefore(other, t)

\* Histories that agree show the same mode and flow.
LEMMA AgreeAt ==
  ASSUME NEW point, NEW one, NEW other, NEW from \in Int, NEW until \in Int,
         Agree(one, other, from, until), NEW t \in (from - 1)..(until - 1)
  PROVE  /\ LowAt(point, one, t) <=> LowAt(point, other, t)
         /\ ModeAt(point, one, t) = ModeAt(point, other, t)
<1>1. t + 1 \in from..until
  OBVIOUS
<1>2. Pump!ValuesBefore(one, t + 1) = Pump!ValuesBefore(other, t + 1)
  BY <1>1 DEF Agree
<1> QED
  BY <1>2 DEF LowAt, ModeAt

\* And the same faults.
LEMMA AgreeFaults ==
  ASSUME NEW point, point.maxSwitch \in Nat, NEW one, NEW other,
         NEW from \in Int, NEW until \in Int, Agree(one, other, from, until),
         NEW start \in Int, NEW end \in Int, from + point.maxSwitch <= start, end < until, NEW o
  PROVE  /\ LowFault(point, one, start, end, until, o)
              => LowFault(point, other, start, end, until, o)
         /\ SwitchFault(point, one, start, end, until, o)
              => SwitchFault(point, other, start, end, until, o)
<1> DEFINE m == point.maxSwitch
<1>0. m \in Nat /\ from + m <= start
  OBVIOUS
<1> HIDE DEF m
<1>1. \A t \in (from - 1)..(until - 1) :
        /\ LowAt(point, one, t) <=> LowAt(point, other, t)
        /\ ModeAt(point, one, t) = ModeAt(point, other, t)
  BY AgreeAt
<1>2. ASSUME NEW t \in start..(end - 1)
      PROVE  /\ t \in (from - 1)..(until - 1) /\ t - 1 \in (from - 1)..(until - 1)
             /\ t - m - 1 \in (from - 1)..(until - 1)
             /\ \A u \in (t - m)..t : u \in (from - 1)..(until - 1)
             /\ \A u \in (t + 1)..(until - 1) :
                  /\ u \in (from - 1)..(until - 1)
                  /\ \A v \in (t + 1)..(u - 1) : v \in (from - 1)..(until - 1)
  BY <1>0
<1>3. ASSUME NEW t \in start..(end - 1), Slow(point, one, t) PROVE Slow(point, other, t)
  BY <1>1, <1>2, <1>3 DEF Slow, m
<1>4. LowFault(point, one, start, end, until, o) => LowFault(point, other, start, end, until, o)
  <2> SUFFICES ASSUME LowFault(point, one, start, end, until, o)
               PROVE  LowFault(point, other, start, end, until, o)
    OBVIOUS
  <2>1. PICK t \in start..(end - 1) :
          /\ LowAt(point, one, t) /\ ~LowAt(point, one, t - 1)
          /\ \/ \E b \in (t + 1)..(until - 1) :
                  /\ ~LowAt(point, one, b)
                  /\ \A u \in (t + 1)..(b - 1) : LowAt(point, one, u)
                  /\ o = [type |-> "low_flow", start |-> t, end |-> b, open |-> FALSE]
             \/ /\ \A u \in (t + 1)..(until - 1) : LowAt(point, one, u)
                /\ o = [type |-> "low_flow", start |-> t, end |-> until, open |-> TRUE]
    BY DEF LowFault
  <2>2. /\ LowAt(point, other, t) /\ ~LowAt(point, other, t - 1)
        /\ \/ \E b \in (t + 1)..(until - 1) :
                /\ ~LowAt(point, other, b)
                /\ \A u \in (t + 1)..(b - 1) : LowAt(point, other, u)
                /\ o = [type |-> "low_flow", start |-> t, end |-> b, open |-> FALSE]
           \/ /\ \A u \in (t + 1)..(until - 1) : LowAt(point, other, u)
              /\ o = [type |-> "low_flow", start |-> t, end |-> until, open |-> TRUE]
    BY <1>1, <1>2, <2>1
  <2> QED
    BY <2>2 DEF LowFault
<1>5. SwitchFault(point, one, start, end, until, o)
        => SwitchFault(point, other, start, end, until, o)
  <2> SUFFICES ASSUME SwitchFault(point, one, start, end, until, o)
               PROVE  SwitchFault(point, other, start, end, until, o)
    OBVIOUS
  <2>1. PICK t \in start..(end - 1) :
          /\ Slow(point, one, t)
          /\ \/ \E b \in (t + 1)..(until - 1) :
                  /\ ModeAt(point, one, b) # "SWITCHING"
                  /\ \A u \in (t + 1)..(b - 1) : ModeAt(point, one, u) = "SWITCHING"
                  /\ o = [type |-> "switch_timeout", start |-> t, end |-> b, open |-> FALSE]
             \/ /\ \A u \in (t + 1)..(until - 1) : ModeAt(point, one, u) = "SWITCHING"
                /\ o = [type |-> "switch_timeout", start |-> t, end |-> until, open |-> TRUE]
    BY DEF SwitchFault
  <2>2. /\ Slow(point, other, t)
        /\ \/ \E b \in (t + 1)..(until - 1) :
                /\ ModeAt(point, other, b) # "SWITCHING"
                /\ \A u \in (t + 1)..(b - 1) : ModeAt(point, other, u) = "SWITCHING"
                /\ o = [type |-> "switch_timeout", start |-> t, end |-> b, open |-> FALSE]
           \/ /\ \A u \in (t + 1)..(until - 1) : ModeAt(point, other, u) = "SWITCHING"
              /\ o = [type |-> "switch_timeout", start |-> t, end |-> until, open |-> TRUE]
    BY <1>1, <1>2, <1>3, <2>1
  <2> QED
    BY <2>2 DEF SwitchFault
<1> QED
  BY <1>4, <1>5

\* What a rule sees of a TAG tells the last value before any time from the start of its
\* range on, if there was a reading within the lookback or none at all.
LEMMA SeenValue ==
  ASSUME NEW s, Timed(s), NEW from \in Int, NEW until \in Int, from <= until, NEW back \in Nat,
         \A i \in 1..Len(s) : s[i].time < from =>
           \E j \in 1..Len(s) : from - back <= s[j].time /\ s[j].time < from,
         NEW t \in from..until
  PROVE  Pump!ValueBefore(Seen(s, from, until, back), t) = Pump!ValueBefore(s, t)
<1> DEFINE x == Earlier(s, from - back)
           e == Earlier(s, from)
           b == Earlier(s, until)
           k == Earlier(s, t)
           a == IF x = e THEN e ELSE e - 1
           q == SubSeq(s, a + 1, b)
<1>1. /\ Len(s) \in Nat /\ x \in 0..Len(s) /\ e \in 0..Len(s) /\ b \in 0..Len(s) /\ k \in 0..Len(s)
      /\ x <= e /\ e <= k /\ k <= b /\ t \in Int
  <2>1. from - back \in Int /\ from - back <= from /\ t \in Int /\ from <= t /\ t <= until
    OBVIOUS
  <2> QED
    BY <2>1, EarlierIs, EarlierMonotone, TimedShape
<1>2. /\ \A i \in 1..Len(s) : s[i].time < t <=> i <= k
      /\ \A i \in 1..Len(s) : s[i].time < from <=> i <= e
      /\ \A i \in 1..Len(s) : s[i].time < from - back <=> i <= x
      /\ \A i \in 1..Len(s) : s[i].time \in Nat
  <2>1. \A i \in 1..Len(s) : s[i].time < t <=> i <= k
    BY <1>1, EarlierIs
  <2>2. \A i \in 1..Len(s) : s[i].time < from <=> i <= e
    BY EarlierIs
  <2>3. from - back \in Int
    OBVIOUS
  <2>4. \A i \in 1..Len(s) : s[i].time < from - back <=> i <= x
    BY <2>3, EarlierIs
  <2>5. \A i \in 1..Len(s) : s[i].time \in Nat
    BY DEF Timed
  <2> HIDE DEF x, e, k
  <2> QED
    BY <2>1, <2>2, <2>4, <2>5
<1>3. Seen(s, from, until, back) = q
  <2>1. Seen(s, from, until, back) = SubSeq(s, IF x = e THEN e + 1 ELSE e, b)
    BY SeenIs
  <2> HIDE DEF x, e, b
  <2>2. (IF x = e THEN e + 1 ELSE e) = a + 1
    BY <1>1
  <2> QED
    BY <2>1, <2>2
<1> HIDE DEF x, e, b, k
<1>4. x = e => e = 0
  <2> SUFFICES ASSUME x = e, e # 0 PROVE FALSE
    OBVIOUS
  <2>1. e \in 1..Len(s) /\ s[e].time < from
    BY <1>1, <1>2
  <2>2. PICK j \in 1..Len(s) : from - back <= s[j].time /\ s[j].time < from
    BY <2>1
  <2>3. j <= e /\ ~(j <= x)
    BY <1>2, <2>2
  <2> QED
    BY <2>3
<1>5. a \in 0..Len(s) /\ a <= b /\ (k # 0 => a < k) /\ (k = 0 => a = 0) /\ a <= k
  BY <1>1, <1>4
<1> HIDE DEF a
<1>6. /\ Timed(q) /\ Len(q) = b - a
      /\ \A i \in 1..Len(q) : a + i \in 1..Len(s) /\ q[i] = s[a + i]
  BY <1>1, <1>5, PartIs
<1> HIDE DEF q
<1> DEFINE f == Earlier(q, t)
<1>7. f \in 0..Len(q) /\ \A i \in 1..Len(q) : q[i].time < t <=> i <= f
  BY <1>1, <1>6, EarlierIs
<1> HIDE DEF f
<1>8. f = k - a
  <2>1. \A i \in 1..Len(q) : i <= f <=> a + i <= k
    BY <1>2, <1>6, <1>7
  <2>2. k - a \in 0..Len(q)
    BY <1>1, <1>5, <1>6
  <2>3. CASE f < k - a
    <3>1. f + 1 \in 1..Len(q) /\ a + (f + 1) <= k /\ ~ (f + 1 <= f)
      BY <1>1, <1>5, <1>7, <2>2, <2>3
    <3> QED
      BY <2>1, <3>1
  <2>4. CASE k - a < f
    <3>1. f \in 1..Len(q) /\ ~ (a + f <= k)
      BY <1>1, <1>5, <1>7, <2>2, <2>4
    <3> QED
      BY <1>7, <2>1, <3>1
  <2> QED
    BY <1>1, <1>7, <2>2, <2>3, <2>4
<1>9. CASE k = 0
  <2>0. k = 0 /\ a = 0 /\ 0 - 0 = 0
    BY <1>5, <1>9
  <2>1. f = 0
    BY <1>8, <2>0
  <2>2. Pump!ValueBefore(q, t) = <<>> /\ Pump!ValueBefore(s, t) = <<>>
    BY <1>1, <1>6, <1>9, <2>1, ValueBeforeIs DEF f, k
  <2> QED
    BY <1>3, <2>2
<1>10. CASE k # 0
  <2>1. f \in 1..Len(q) /\ f # 0 /\ a + f = k
    BY <1>1, <1>5, <1>7, <1>8, <1>10
  <2>2. q[f] = s[k]
    BY <1>6, <2>1
  <2>3. Pump!ValueBefore(q, t) = <<q[f].value>> /\ Pump!ValueBefore(s, t) = <<s[k].value>>
    BY <1>1, <1>6, <1>10, <2>1, ValueBeforeIs DEF f, k
  <2> QED
    BY <1>3, <2>2, <2>3
<1> QED
  BY <1>9, <1>10

-----------------------------------------------------------------------------
\* The rule looks back at least as far as each of its points allows for a switch.
LEMMA SwitchLookbackIs ==
  ASSUME NEW points, points \subseteq PumpPoints, NEW point \in points
  PROVE  /\ Pump!SwitchLookback(points) \in Nat
         /\ point.maxSwitch \in Nat \ {0} /\ point.maxSwitch <= Pump!SwitchLookback(points)
<1> DEFINE S == {p.maxSwitch : p \in points}
           f == [p \in PumpPoints |-> p.maxSwitch]
<1>1. IsFiniteSet(PumpPoints) /\ \A p \in PumpPoints : p.maxSwitch \in Nat \ {0}
  BY PointsAreValid DEF Pump!ValidPoint
<1>2. PICK b \in Nat : \A p \in PumpPoints : f[p] <= b
  <2>1. \A p \in PumpPoints : f[p] \in Nat
    BY <1>1
  <2> HIDE DEF f
  <2> QED
    BY <1>1, <2>1, FiniteBound
<1>3. S \subseteq 0..b /\ S # {} /\ point.maxSwitch \in S
  BY <1>1, <1>2
<1> HIDE DEF S
<1>4. \E x \in S : \A y \in S : y <= x
  BY <1>2, <1>3, GreatestNumber
<1>5. \E x \in S : \A y \in S : x >= y
  <2>1. S \subseteq Nat
    BY <1>3
  <2> QED
    BY <1>4, <2>1
<1>6. Pump!Max(S) \in S /\ \A y \in S : Pump!Max(S) >= y
  BY <1>5 DEF Pump!Max
<1>7. Pump!SwitchLookback(points) = Pump!Max(S)
  BY DEF Pump!SwitchLookback, S
<1>8. point.maxSwitch \in Nat \ {0}
  BY <1>1
<1>9. Pump!Max(S) \in Nat /\ Pump!Max(S) >= point.maxSwitch
  <2>1. Pump!Max(S) \in 0..b
    BY <1>3, <1>6
  <2>2. Pump!Max(S) >= point.maxSwitch
    BY <1>3, <1>6
  <2>3. \A x \in 0..b : x \in Nat
    OBVIOUS
  <2> QED
    BY <2>1, <2>2, <2>3
<1> DEFINE max == Pump!Max(S)
<1>10. max \in Nat /\ point.maxSwitch <= max
  <2>1. max \in Nat /\ max >= point.maxSwitch
    BY <1>9
  <2> HIDE DEF max
  <2> QED
    BY <1>8, <2>1
<1> QED
  BY <1>7, <1>8, <1>10

\* What the rule reads of a point is what was recorded, from the lookback on.
LEMMA PumpHistoryIs ==
  ASSUME HistoryInv, rule = "pump", NEW points, points \subseteq PumpPoints, NEW point \in points,
         NEW w \in Window
  PROVE  LET from == Start(w) - Pump!SwitchLookback(points)
             until == End(w) + Pump!SwitchLookback(points)
             read(tag) == Seen(recorded[tag], from, until, Last(Lookback))
         IN  /\ \A tag \in Pump!PointTags(point) : Timed(recorded[tag])
             /\ Pump!HistoryOf(point, Pump!HistoriesOf(points, recorded, Start(w), End(w), Lookback))
                  = [pumpA |-> read(point.pumpA), pumpB |-> read(point.pumpB),
                     flow |-> read(point.flow)]
<1> DEFINE from == Start(w) - Pump!SwitchLookback(points)
           until == End(w) + Pump!SwitchLookback(points)
           read(tag) == Seen(recorded[tag], from, until, Last(Lookback))
           tags == UNION {Pump!PointTags(p) : p \in points}
           result == Pump!WithPreviousSamples(recorded, tags, from, until, Lookback)
<1>1. from \in Int /\ until \in Int /\ from <= until
  <2>1. /\ Start(w) \in Nat /\ End(w) \in Nat /\ Start(w) < End(w)
        /\ Pump!SwitchLookback(points) \in Nat
    BY SwitchLookbackIs, WindowIs
  <2> QED
    BY <2>1
<1>2. tags \subseteq DOMAIN recorded
  BY TagsAssumption DEF HistoryInv
<1>3. point.pumpA \in tags /\ point.pumpB \in tags /\ point.flow \in tags
      /\ \A tag \in Pump!PointTags(point) : tag \in tags
  BY DEF Pump!PointTags
<1>4. Pump!HistoriesOf(points, recorded, Start(w), End(w), Lookback) = result
  BY DEF Pump!HistoriesOf
<1> HIDE DEF tags, from, until
<1>5. \A tag \in tags : Timed(recorded[tag])
  BY <1>2 DEF HistoryInv
<1>6. result = AllSeen(recorded, tags, from, until, Last(Lookback))
  <2>1. LooksBack(recorded, tags, from, until, Lookback, result)
    BY LookbackAssumption, PumpLooksBack
  <2> HIDE DEF result
  <2> QED
    BY <1>1, <1>5, <2>1, LookbackAssumption, WithPreviousIs
<1> HIDE DEF result
<1>7. \A tag \in tags : result[tag] = read(tag)
  BY <1>6 DEF AllSeen
<1> HIDE DEF read
<1>8. Pump!HistoryOf(point, result)
        = [pumpA |-> read(point.pumpA), pumpB |-> read(point.pumpB), flow |-> read(point.flow)]
  BY <1>3, <1>7 DEF Pump!HistoryOf
<1> QED
  BY <1>3, <1>4, <1>5, <1>8 DEF read, from, until

\* The rule pump_flow_compliance charges exactly the faults that begin in a window.
THEOREM PumpFaultsCharged == Spec => []PumpFaultsFound
<1>1. ASSUME HistoryInv PROVE PumpFaultsFound
  <2> SUFFICES ASSUME NEW points \in SUBSET PumpPoints \ {{}}, NEW point \in points,
                      NEW w \in Window, PumpAssessed(points, w),
                      PumpSeen(point, Start(w) - Pump!SwitchLookback(points))
               PROVE  Pump!PointEvents(points, point, recorded, Start(w), End(w), Lookback)
                        = PumpFaults(point, Start(w), End(w),
                                     End(w) + Pump!SwitchLookback(points))
    BY DEF PumpFaultsFound
  <2> DEFINE start == Start(w)
             end == End(w)
             from == start - Pump!SwitchLookback(points)
             until == end + Pump!SwitchLookback(points)
             back == Last(Lookback)
             read(tag) == Seen(recorded[tag], from, until, back)
             seen == [pumpA |-> read(point.pumpA), pumpB |-> read(point.pumpB),
                      flow |-> read(point.flow)]
             all == Pump!HistoryOf(point, recorded)
  <2>1. points \subseteq PumpPoints /\ rule = "pump"
    BY DEF PumpAssessed
  <2>2. /\ start \in Nat /\ end \in Nat /\ start < end /\ back \in Nat
        /\ Pump!SwitchLookback(points) \in Nat
        /\ point.maxSwitch \in Nat \ {0} /\ point.maxSwitch <= Pump!SwitchLookback(points)
    BY <1>1, <2>1, WindowIs, SwitchLookbackIs
  <2>3. /\ \A tag \in Pump!PointTags(point) : Timed(recorded[tag])
        /\ Pump!HistoryOf(point, Pump!HistoriesOf(points, recorded, start, end, Lookback)) = seen
    BY <1>1, <2>1, PumpHistoryIs
  <2>4. Pump!PointEvents(points, point, recorded, start, end, Lookback)
          = Pump!Detect(point, seen, from, until, start, end)
    BY <2>3 DEF Pump!PointEvents
  <2>5. PumpSeen(point, from)
    OBVIOUS
  <2> HIDE DEF start, end, back
  <2>6. /\ from \in Int /\ until \in Int /\ from <= until /\ from + point.maxSwitch <= start
        /\ start <= end /\ end < until /\ start \in Int /\ end \in Int
    BY <2>2
  <2> HIDE DEF from, until
  <2>7. /\ point.pumpA \in Pump!PointTags(point) /\ point.pumpB \in Pump!PointTags(point)
        /\ point.flow \in Pump!PointTags(point)
    BY DEF Pump!PointTags
  <2>8. ASSUME NEW tag \in Pump!PointTags(point)
        PROVE  /\ Timed(read(tag))
               /\ \A t \in from..until :
                    Pump!ValueBefore(read(tag), t) = Pump!ValueBefore(recorded[tag], t)
    <3> DEFINE s == recorded[tag]
    <3>1. Timed(s)
      BY <2>3
    <3>2. \A x \in Range(s) : x.time < from =>
            \E r \in Range(s) : from - back <= r.time /\ r.time < from
      BY <2>5 DEF PumpSeen, back
    <3> HIDE DEF s
    <3>3. \A i \in 1..Len(s) : s[i].time < from =>
            \E j \in 1..Len(s) : from - back <= s[j].time /\ s[j].time < from
      <4>1. DOMAIN s = 1..Len(s)
        BY <3>1, TimedShape
      <4> QED
        BY <3>2, <4>1 DEF Range
    <3>4. \A t \in from..until :
            Pump!ValueBefore(Seen(s, from, until, back), t) = Pump!ValueBefore(s, t)
      <4> TAKE t \in from..until
      <4>1. /\ Timed(s) /\ from \in Int /\ until \in Int /\ from <= until /\ back \in Nat
        BY <2>2, <2>6, <3>1
      <4> QED
        BY ONLY <4>1, t \in from..until, <3>3, SeenValue
    <3>5. Timed(Seen(s, from, until, back))
      BY <2>2, <2>6, <3>1, SeenPart
    <3> QED
      BY <3>4, <3>5 DEF s
  <2>9. PumpTimed(seen)
    BY <2>7, <2>8 DEF PumpTimed
  <2>10. Agree(seen, all, from, until) /\ Agree(all, seen, from, until)
    <3>1. /\ seen.pumpA = read(point.pumpA) /\ seen.pumpB = read(point.pumpB)
          /\ seen.flow = read(point.flow)
      OBVIOUS
    <3>2. /\ all.pumpA = recorded[point.pumpA] /\ all.pumpB = recorded[point.pumpB]
          /\ all.flow = recorded[point.flow]
      BY DEF Pump!HistoryOf
    <3> HIDE DEF seen, all, read
    <3>3. ASSUME NEW t \in from..until
          PROVE  Pump!ValuesBefore(seen, t) = Pump!ValuesBefore(all, t)
      <4>1. /\ Pump!ValueBefore(seen.pumpA, t) = Pump!ValueBefore(all.pumpA, t)
            /\ Pump!ValueBefore(seen.pumpB, t) = Pump!ValueBefore(all.pumpB, t)
            /\ Pump!ValueBefore(seen.flow, t) = Pump!ValueBefore(all.flow, t)
        BY <2>7, <2>8, <3>1, <3>2
      <4> QED
        BY <4>1 DEF Pump!ValuesBefore
    <3> QED
      BY <3>3 DEF Agree
  <2> HIDE DEF seen, all
  <2>11. ASSUME NEW o
         PROVE  o \in Pump!Detect(point, seen, from, until, start, end)
                  <=> o \in PumpFaults(point, start, end, until)
    <3>1. o \in Pump!Detect(point, seen, from, until, start, end)
            <=> \/ LowFault(point, seen, start, end, until, o)
                \/ SwitchFault(point, seen, start, end, until, o)
      BY <2>2, <2>6, <2>9, PumpDetectFinds
    <3>2. /\ LowFault(point, seen, start, end, until, o)
               <=> LowFault(point, all, start, end, until, o)
          /\ SwitchFault(point, seen, start, end, until, o)
               <=> SwitchFault(point, all, start, end, until, o)
      BY <2>2, <2>6, <2>10, AgreeFaults
    <3>3. o \in PumpFaults(point, start, end, until)
            <=> \/ LowFault(point, all, start, end, until, o)
                \/ SwitchFault(point, all, start, end, until, o)
      BY <2>6, PumpFaultsAre DEF all
    <3> QED
      BY <3>1, <3>2, <3>3
  <2>12. PumpFaults(point, start, end, until) = Pump!Detect(point, seen, from, until, start, end)
    <3>1. \A o \in PumpFaults(point, start, end, until) :
            o \in Pump!Detect(point, seen, from, until, start, end)
      BY <2>11
    <3>2. \A o \in Pump!Detect(point, seen, from, until, start, end) :
            o \in PumpFaults(point, start, end, until)
      BY <2>11
    <3> QED
      BY <3>1, <3>2
  <2> QED
    BY <2>4, <2>12 DEF start, end, until
<1> QED
  BY <1>1, HistoryOrdered, PTL
=============================================================================
