----------------------- MODULE PersistentAlarmProofs -----------------------
(***************************************************************************)
(* Theorems of PersistentAlarm for every value of its constants: the state *)
(* machine of the detector, over any history, finds the alarms that the    *)
(* rule's README describes, and what it charged stays charged.             *)
(*                                                                         *)
(* What a definition by recursion computes is proved by induction in the   *)
(* form of the least number of a set, which NatLessThanWellFounded gives.  *)
(***************************************************************************)
EXTENDS PersistentAlarm, WellFoundedInduction, TLAPS

\* A set of natural numbers has a least element.
LEMMA LeastNumber ==
  ASSUME NEW T, T \subseteq Nat, T # {}
  PROVE  \E x \in T : \A y \in T : x <= y
<1> DEFINE R == OpToRel(<, Nat)
<1>1. IsWellFoundedOn(R, Nat)
  BY NatLessThanWellFounded
<1>2. \A a, b \in Nat : <<a, b>> \in R <=> a < b
  BY DEF OpToRel
<1> HIDE DEF R
<1>3. \E x \in T : \A y \in T : ~ (<<y, x>> \in R)
  BY <1>1, WFMin, Zenon
<1>4. PICK x \in T : \A y \in T : ~ (<<y, x>> \in R)
  BY <1>3
<1>5. ASSUME NEW y \in T PROVE x <= y
  <2>1. x \in Nat /\ y \in Nat
    OBVIOUS
  <2>2. ~ (<<y, x>> \in R)
    BY <1>4
  <2> QED
    BY <1>2, <2>1, <2>2
<1> QED
  BY <1>5

LEMMA SetInduction ==
  ASSUME NEW T, 0 \in T, \A n \in Nat : n \in T => n + 1 \in T
  PROVE  Nat \subseteq T
<1> SUFFICES ASSUME NEW m \in Nat, m \notin T PROVE FALSE
  OBVIOUS
<1>1. PICK x \in Nat \ T : \A y \in Nat \ T : x <= y
  BY LeastNumber
<1>2. x # 0 /\ x - 1 \in Nat /\ x - 1 \in T
  BY <1>1
<1> QED
  BY <1>1, <1>2

\* A non-empty set of positions has a first and a last one, and Min and Max are they.
LEMMA MinIsLeast ==
  ASSUME NEW T, T \subseteq Nat, T # {}
  PROVE  Min(T) \in T /\ \A y \in T : Min(T) <= y
<1>1. \E x \in T : \A y \in T : x <= y
  BY LeastNumber
<1> QED
  BY <1>1 DEF Min

LEMMA MaxIsGreatest ==
  ASSUME NEW n \in Nat, NEW T, T \subseteq 0..n, T # {}
  PROVE  Max(T) \in T /\ \A y \in T : y <= Max(T)
<1> DEFINE U == {m \in Nat : \A y \in T : y <= m}
<1>1. U \subseteq Nat /\ n \in U
  OBVIOUS
<1>2. PICK x \in U : \A v \in U : x <= v
  BY <1>1, LeastNumber
<1>3. x \in T
  <2> SUFFICES ASSUME x \notin T PROVE FALSE
    OBVIOUS
  <2>1. \A y \in T : y \in Nat /\ y <= x /\ y # x
    BY <1>2
  <2>2. x \in Nat
    BY <1>2
  <2>3. \A y \in T : y <= x - 1
    <3> HIDE DEF U
    <3> QED
      BY <2>1, <2>2
  <2>4. x - 1 \in U
    <3>1. PICK y \in T : TRUE
      OBVIOUS
    <3>2. x - 1 \in Nat
      BY <2>1, <2>2, <3>1
    <3> QED
      BY <2>3, <3>2
  <2> HIDE DEF U
  <2>5. x <= x - 1
    BY <1>2, <2>4
  <2> QED
    BY <2>2, <2>5
<1>4. \A y \in T : y <= x
  BY <1>2
<1> QED
  BY <1>3, <1>4 DEF Max

\* A definition by recursion over 0..N defines a function that satisfies it.
LEMMA Iteration ==
  ASSUME NEW S, NEW c \in S, NEW N \in Nat, NEW next \in [1..N -> [S -> S]]
  PROVE  \E g : /\ g \in [0..N -> S]
                /\ g[0] = c
                /\ \A i \in 1..N : g[i] = next[i][g[i - 1]]
<1> DEFINE Is(g, n) == g[0] = c /\ \A i \in 1..n : g[i] = next[i][g[i - 1]]
           T == {n \in Nat : n > N \/ \E g \in [0..n -> S] : Is(g, n)}
<1>1. 0 \in T
  <2>1. [i \in 0..0 |-> c] \in [0..0 -> S] /\ Is([i \in 0..0 |-> c], 0)
    OBVIOUS
  <2> QED
    BY <2>1
<1>2. ASSUME NEW n \in Nat, n \in T PROVE n + 1 \in T
  <2>1. CASE n + 1 > N
    BY <2>1
  <2>2. CASE n + 1 <= N
    <3>1. PICK g \in [0..n -> S] : Is(g, n)
      BY <1>2, <2>2
    <3> DEFINE h == [i \in 0..(n + 1) |-> IF i <= n THEN g[i] ELSE next[n + 1][g[n]]]
    <3>2. n + 1 \in 1..N /\ g[n] \in S /\ next[n + 1][g[n]] \in S
      BY <2>2
    <3>3. h \in [0..(n + 1) -> S]
      BY <3>2
    <3>4. /\ \A i \in 0..n : h[i] = g[i]
          /\ h[n + 1] = next[n + 1][g[n]]
      OBVIOUS
    <3> HIDE DEF h
    <3>5. Is(h, n + 1)
      <4>1. h[0] = c
        BY <3>1, <3>4
      <4>2. ASSUME NEW i \in 1..(n + 1) PROVE h[i] = next[i][h[i - 1]]
        <5>1. CASE i = n + 1
          BY <3>4, <5>1
        <5>2. CASE i \in 1..n
          BY <3>1, <3>4, <5>2
        <5> QED
          BY <5>1, <5>2
      <4> QED
        BY <4>1, <4>2
    <3> HIDE DEF Is
    <3> QED
      BY <3>3, <3>5
  <2> QED
    BY <2>1, <2>2
<1> HIDE DEF T
<1>3. Nat \subseteq T
  BY <1>1, <1>2, SetInduction
<1> QED
  BY <1>3 DEF T

-----------------------------------------------------------------------------
\* The history, as the historian keeps it: in order, and before now.
Sample == [time : Nat \ {0}, value : Value]

HistoryInv ==
  /\ now \in Nat \ {0}
  /\ history \in Seq(Sample)
  /\ \A i \in DOMAIN history : history[i].time < now
  /\ \A i, j \in DOMAIN history : i <= j => history[i].time <= history[j].time

DetectorState ==
  [mode : {"unknown", "normal", "alarm", "error"}, start : Nat,
   found : SUBSET [start : Nat, end : Nat]]

\* What Detect computes, step by step.
IsRun(w, d) ==
  /\ d \in [0..Len(history) -> DetectorState]
  /\ d[0] = DetectorFrom(PreviousSample(Start(w)))
  /\ \A i \in 1..Len(history) :
       d[i] = IF i \in GetHistory(Start(w), QueryEnd(w)) THEN Step(d[i - 1], history[i])
              ELSE d[i - 1]

LEMMA HistoryTyped ==
  ASSUME HistoryInv
  PROVE  /\ Len(history) \in Nat /\ DOMAIN history = 1..Len(history)
         /\ \A i \in 1..Len(history) : /\ history[i] \in Sample
                                       /\ history[i].time \in Nat \ {0}
                                       /\ history[i].value \in Value
<1>1. history \in Seq(Sample)
  BY DEF HistoryInv
<1>2. /\ Len(history) \in Nat /\ DOMAIN history = 1..Len(history)
      /\ \A i \in 1..Len(history) : history[i] \in Sample
  BY <1>1
<1>3. \A r \in Sample : r.time \in Nat \ {0} /\ r.value \in Value
  BY DEF Sample
<1> QED
  BY <1>2, <1>3

LEMMA StepTyped ==
  ASSUME NEW d \in DetectorState, NEW r \in Sample
  PROVE  Step(d, r) \in DetectorState
<1>1. /\ d.mode \in {"unknown", "normal", "alarm", "error"} /\ d.start \in Nat
      /\ d.found \in SUBSET [start : Nat, end : Nat]
      /\ r.time \in Nat /\ r.value \in {"active", "normal", "bad"}
  BY DEF DetectorState, Sample, Value
<1>2. \A m \in {"unknown", "normal", "alarm", "error"} : [d EXCEPT !.mode = m] \in DetectorState
  BY <1>1 DEF DetectorState
<1>3. [d EXCEPT !.mode = "alarm", !.start = r.time] \in DetectorState
  BY <1>1 DEF DetectorState
<1>4. d.found \cup {[start |-> d.start, end |-> r.time]} \in SUBSET [start : Nat, end : Nat]
  BY <1>1
<1>5. [mode |-> "normal", start |-> 0,
       found |-> IF d.start # 0 /\ Qualifies(d.start, r.time)
                 THEN d.found \cup {[start |-> d.start, end |-> r.time]}
                 ELSE d.found] \in DetectorState
  BY <1>1, <1>4 DEF DetectorState
<1> QED
  BY <1>1, <1>2, <1>3, <1>5 DEF Step

LEMMA DetectorFromTyped ==
  ASSUME HistoryInv, NEW p \in 0..Len(history)
  PROVE  DetectorFrom(p) \in DetectorState
<1>1. p # 0 => history[p].time \in Nat /\ history[p].value \in Value
  BY HistoryTyped
<1>2. DetectorFrom(p).mode \in {"unknown", "normal", "alarm", "error"}
  <2>1. CASE p = 0
    BY <2>1 DEF DetectorFrom
  <2>2. CASE p # 0 /\ history[p].value = "normal"
    BY <2>2 DEF DetectorFrom
  <2>3. CASE p # 0 /\ history[p].value = "active"
    BY <2>3 DEF DetectorFrom
  <2>4. CASE p # 0 /\ history[p].value = "bad"
    BY <2>4 DEF DetectorFrom
  <2> QED
    BY <1>1, <2>1, <2>2, <2>3, <2>4 DEF Value
<1>3. DetectorFrom(p).start \in Nat /\ DetectorFrom(p).found = {}
  BY <1>1 DEF DetectorFrom
<1>4. DetectorFrom(p) = [mode |-> DetectorFrom(p).mode, start |-> DetectorFrom(p).start,
                         found |-> DetectorFrom(p).found]
  BY DEF DetectorFrom
<1> QED
  BY <1>2, <1>3, <1>4 DEF DetectorState

LEMMA DetectorIteration ==
  ASSUME NEW c \in DetectorState, NEW N \in Nat,
         NEW next \in [1..N -> [DetectorState -> DetectorState]]
  PROVE  \E g : /\ g \in [0..N -> DetectorState]
                /\ g[0] = c
                /\ \A i \in 1..N : g[i] = next[i][g[i - 1]]
BY Iteration

LEMMA DetectIsRun ==
  ASSUME HistoryInv, NEW w \in Window, PreviousSample(Start(w)) \in 0..Len(history)
  PROVE  \E d : IsRun(w, d) /\ Detect(w) = d[Len(history)]
<1> DEFINE N == Len(history)
           c == DetectorFrom(PreviousSample(Start(w)))
           read == GetHistory(Start(w), QueryEnd(w))
           next == [i \in 1..N |-> [d \in DetectorState |->
                      IF i \in read THEN Step(d, history[i]) ELSE d]]
           IsAfter(d) == d = [i \in 0..N |-> IF i = 0 THEN c
                                           ELSE IF i \in read THEN Step(d[i - 1], history[i])
                                           ELSE d[i - 1]]
<1>1. N \in Nat /\ c \in DetectorState
  BY DetectorFromTyped, HistoryTyped
<1>2. next \in [1..N -> [DetectorState -> DetectorState]]
  <2>1. ASSUME NEW i \in 1..N, NEW d \in DetectorState
        PROVE  (IF i \in read THEN Step(d, history[i]) ELSE d) \in DetectorState
    BY HistoryTyped, StepTyped
  <2> HIDE DEF read, N
  <2> QED
    BY <2>1
<1>3. PICK g : /\ g \in [0..N -> DetectorState]
               /\ g[0] = c
               /\ \A i \in 1..N : g[i] = next[i][g[i - 1]]
  <2> HIDE DEF next, c, N
  <2> QED
    BY <1>1, <1>2, DetectorIteration
<1>4. IsAfter(g)
  <2>1. ASSUME NEW i \in 1..N
        PROVE  next[i][g[i - 1]] = IF i \in read THEN Step(g[i - 1], history[i])
                                       ELSE g[i - 1]
    <3>1. g[i - 1] \in DetectorState
      BY <1>1, <1>3
    <3> HIDE DEF read, c, N
    <3> QED
      BY <3>1
  <2> HIDE DEF next, read, c, N
  <2> DEFINE e(i) == IF i = 0 THEN c
                     ELSE IF i \in read THEN Step(g[i - 1], history[i])
                     ELSE g[i - 1]
  <2>2. ASSUME NEW i \in 0..N PROVE g[i] = e(i)
    BY <1>1, <1>3, <2>1
  <2>3. g = [i \in 0..N |-> e(i)]
    <3> HIDE DEF e, IsAfter
    <3> QED
      BY <1>3, <2>2
  <2> QED
    BY <2>3
<1> DEFINE a == CHOOSE d : IsAfter(d)
<1>5. IsAfter(a)
  BY <1>4
<1>6. Detect(w) = a[N]
  BY DEF Detect
<1> HIDE DEF N, c, read, next, a
<1>7. /\ a[0] = c /\ g[0] = c
      /\ \A i \in 1..N : /\ a[i] = IF i \in read THEN Step(a[i - 1], history[i]) ELSE a[i - 1]
                         /\ g[i] = IF i \in read THEN Step(g[i - 1], history[i]) ELSE g[i - 1]
  BY <1>1, <1>4, <1>5
<1>8. \A i \in 0..N : a[i] = g[i]
  <2> DEFINE T == {i \in Nat : i <= N => a[i] = g[i]}
  <2>1. 0 \in T
    BY <1>7
  <2>2. ASSUME NEW i \in Nat, i \in T PROVE i + 1 \in T
    BY <1>1, <1>7, <2>2
  <2> HIDE DEF T
  <2>3. Nat \subseteq T
    BY <2>1, <2>2, SetInduction
  <2> QED
    BY <1>1, <2>3 DEF T
<1>9. IsRun(w, a)
  <2>1. a \in [0..N -> DetectorState]
    BY <1>3, <1>4, <1>5, <1>8
  <2> QED
    BY <1>7, <2>1 DEF IsRun, N, c, read
<1> QED
  BY <1>6, <1>9 DEF N

-----------------------------------------------------------------------------
\* The times of a window are numbers, and the windows follow one another.
LEMMA WindowTimes ==
  ASSUME NEW w \in Window
  PROVE  /\ w \in Nat /\ Start(w) \in Nat /\ End(w) \in Nat /\ QueryEnd(w) \in Nat
         /\ End(w) = Start(w) + Length /\ Start(w) < End(w)
         /\ QueryEnd(w) = End(w) + Threshold + 1
         /\ Threshold \in Nat /\ Threshold > 0
<1>1. /\ w \in Nat /\ w - 1 \in Nat
      /\ First \in Nat /\ Length \in Nat /\ Length > 0 /\ Threshold \in Nat /\ Threshold > 0
  BY WindowsAssumption DEF Window
<1>2. (w - 1) * Length \in Nat /\ w * Length = (w - 1) * Length + Length
  BY <1>1
<1> QED
  BY <1>1, <1>2 DEF Start, End, QueryEnd, Margin

LEMMA WindowsApart ==
  ASSUME NEW v \in Window, NEW w \in Window, NEW t \in Int,
         Start(v) <= t, t < End(v), Start(w) <= t, t < End(w)
  PROVE  v = w
<1>1. ASSUME NEW x \in Window, NEW y \in Window, x < y
      PROVE  End(x) <= Start(y)
  <2>1. /\ x \in Nat /\ y \in Nat /\ First \in Nat /\ Length \in Nat
    BY WindowsAssumption DEF Window
  <2>2. \E k \in Nat : y - 1 = x + k
    BY <1>1, <2>1
  <2>3. PICK k \in Nat : y - 1 = x + k
    BY <2>2
  <2>4. /\ (y - 1) * Length = x * Length + k * Length
        /\ x * Length \in Nat /\ k * Length \in Nat
    BY <2>1, <2>3
  <2> QED
    BY <2>1, <2>4 DEF Start, End
<1>2. v \in Nat /\ w \in Nat
  BY WindowTimes
<1>3. /\ Start(v) \in Nat /\ End(v) \in Nat
      /\ Start(w) \in Nat /\ End(w) \in Nat
  BY WindowTimes
<1> QED
  BY <1>1, <1>2, <1>3

\* How far the search for the previous sample reaches.
Reach == Lookback[Len(Lookback)]

LEMMA LookbackSteps ==
  /\ Len(Lookback) \in Nat /\ Len(Lookback) >= 1 /\ Reach \in Nat
  /\ DOMAIN Lookback = 1..Len(Lookback)
  /\ \A i \in 1..Len(Lookback) : Lookback[i] \in Nat
<1>1. Lookback \in Seq(Nat \ {0}) /\ Lookback # <<>>
  BY HorizonsAssumption DEF Horizons
<1> QED
  BY <1>1 DEF Reach

\* PreviousSample is the last reading before the window, unless it is out of reach.
IsPrevious(s, p) ==
  /\ p \in 0..Len(history)
  /\ p # 0 => s - Reach <= history[p].time /\ history[p].time < s
  /\ \A i \in 1..Len(history) :
       s - Reach <= history[i].time /\ history[i].time < s => p # 0 /\ i <= p

LEMMA PreviousIsLast ==
  ASSUME HistoryInv, NEW s \in Nat
  PROVE  IsPrevious(s, PreviousSample(s))
<1> DEFINE N == Len(history)
           H == Len(Lookback)
           In(i, k) == s - Lookback[k] <= history[i].time
           found == {k \in DOMAIN Lookback : LookbackRange(s, k) # {}}
           p == PreviousSample(s)
<1>1. /\ N \in Nat /\ H \in Nat /\ H >= 1 /\ Reach = Lookback[H]
      /\ \A i \in 1..N : history[i].time \in Nat
      /\ \A k \in 1..H : Lookback[k] \in Nat
      /\ \A i, j \in 1..N : i <= j => history[i].time <= history[j].time
  BY HistoryTyped, LookbackSteps DEF Reach, HistoryInv
<1>2. ASSUME NEW k \in 1..H, NEW i \in LookbackRange(s, k)
      PROVE  /\ i \in 1..N /\ In(i, k) /\ history[i].time < s
             /\ k # 1 => ~ In(i, k - 1)
  <2>1. i \in 1..N /\ In(i, k) /\ history[i].time < s - (IF k = 1 THEN 0 ELSE Lookback[k - 1])
    BY <1>1, HistoryTyped DEF LookbackRange, GetHistory
  <2>2. CASE k = 1
    BY <1>1, <2>1, <2>2
  <2>3. CASE k # 1
    <3>1. k - 1 \in 1..H /\ Lookback[k - 1] \in Nat
      BY <1>1, <2>3
    <3> QED
      BY <1>1, <2>1, <2>3, <3>1
  <2> QED
    BY <2>2, <2>3
\* A reading before the window and in reach is in the first range that reaches it.
<1>3. ASSUME NEW i \in 1..N, NEW k \in 1..H, In(i, k), history[i].time < s
      PROVE  \E m \in 1..k : i \in LookbackRange(s, m)
  <2> DEFINE T == {m \in 1..H : In(i, m)}
  <2>1. PICK m \in T : \A n \in T : m <= n
    <3>1. T \subseteq Nat /\ T # {}
      BY <1>3
    <3> HIDE DEF T
    <3> QED
      BY <3>1, LeastNumber
  <2>2. m \in 1..H /\ m <= k /\ In(i, m)
    BY <1>3, <2>1
  <2>3. m # 1 => history[i].time < s - Lookback[m - 1]
    <3> SUFFICES ASSUME m # 1 PROVE history[i].time < s - Lookback[m - 1]
      OBVIOUS
    <3>1. m - 1 \in 1..H /\ Lookback[m - 1] \in Nat /\ history[i].time \in Nat
      BY <1>1, <2>2
    <3>2. m - 1 \notin T
      BY <2>1, <2>2
    <3> QED
      BY <3>1, <3>2
  <2>4. i \in LookbackRange(s, m)
    BY <1>3, <1>1, <2>2, <2>3, HistoryTyped DEF LookbackRange, GetHistory
  <2> QED
    BY <1>1, <2>2, <2>4
<1>4. DOMAIN Lookback = 1..H
  BY LookbackSteps
<1>5. CASE found = {}
  <2>1. p = 0
    BY <1>5 DEF PreviousSample
  <2>2. ASSUME NEW i \in 1..N, s - Reach <= history[i].time, history[i].time < s
        PROVE  FALSE
    <3>1. H \in 1..H /\ In(i, H)
      BY <1>1, <2>2
    <3>2. PICK m \in 1..H : i \in LookbackRange(s, m)
      BY <1>3, <2>2, <3>1
    <3> QED
      BY <1>4, <1>5, <3>2
  <2> QED
    BY <1>1, <2>1, <2>2 DEF IsPrevious
<1>6. CASE found # {}
  <2> DEFINE k == Min(found)
  <2>1. k \in found /\ \A m \in found : k <= m
    <3>1. found \subseteq Nat
      BY <1>1, <1>4
    <3> HIDE DEF found
    <3> QED
      BY <1>6, <3>1, MinIsLeast
  <2>2. k \in 1..H /\ LookbackRange(s, k) # {} /\ \A m \in 1..H : LookbackRange(s, m) # {} => k <= m
    BY <1>4, <2>1
  <2>3. p = Max(LookbackRange(s, k))
    BY <1>6 DEF PreviousSample
  <2> HIDE DEF k, found
  <2>4. p \in LookbackRange(s, k) /\ \A i \in LookbackRange(s, k) : i <= p
    <3>1. LookbackRange(s, k) \subseteq 0..N
      BY <1>2, <2>2
    <3> QED
      BY <1>1, <2>2, <2>3, <3>1, MaxIsGreatest
  <2>5. /\ p \in 1..N /\ In(p, k) /\ history[p].time < s
        /\ k # 1 => ~ In(p, k - 1)
    BY <1>2, <2>2, <2>4
  <2>6. s - Reach <= history[p].time
    <3>1. \A i, j \in 1..H : i < j => Lookback[i] < Lookback[j]
      BY HorizonsAssumption, LookbackSteps DEF Horizons
    <3>2. Lookback[k] \in Nat /\ Lookback[H] \in Nat /\ Lookback[k] <= Lookback[H]
      BY <1>1, <2>2, <3>1
    <3>3. history[p].time \in Nat
      BY <1>1, <2>5
    <3> QED
      BY <1>1, <2>5, <3>2, <3>3
  <2>7. ASSUME NEW i \in 1..N, history[i].time < s, i > p
        PROVE  FALSE
    <3>1. history[i].time \in Nat /\ history[p].time \in Nat /\ history[p].time <= history[i].time
      BY <1>1, <2>5, <2>7
    <3>2. In(i, k)
      BY <1>1, <2>2, <2>5, <3>1
    <3>3. PICK m \in 1..k : i \in LookbackRange(s, m)
      BY <1>3, <2>2, <2>7, <3>2
    <3>4. m = k
      BY <1>1, <2>2, <3>3
    <3> QED
      BY <1>1, <2>4, <2>5, <2>7, <3>3, <3>4
  <2> QED
    BY <1>1, <2>5, <2>6, <2>7 DEF IsPrevious
<1> QED
  BY <1>5, <1>6

-----------------------------------------------------------------------------
(* What the detector knows after the readings at the positions of S.       *)

\* Where an alarm provably begins: an active reading of the range right after a normal one.
Begun(S, s) ==
  {j \in S : /\ s <= history[j].time /\ history[j].value = "active"
             /\ j - 1 \in S /\ history[j - 1].value = "normal"}

\* k is the first normal reading after j.
Ends(S, j, k) ==
  /\ k \in S /\ j < k /\ history[k].value = "normal"
  /\ \A m \in S : j < m /\ m < k => history[m].value # "normal"

Lasts(S, j) == \A k \in S : j < k => history[k].value # "normal"

Interval(j, k) == [start |-> history[j].time, end |-> history[k].time]

\* The mode is the value of the last reading.
KnowsTheLast(S, d) ==
  /\ d.mode = "unknown" => S = {}
  /\ d.mode = "normal" => \E i \in S : history[i].value = "normal" /\ \A k \in S : k <= i
  /\ d.mode = "alarm" => \E i \in S : history[i].value = "active" /\ \A k \in S : k <= i

\* An alarm of the range that lasts is the one whose start is kept.
KnowsTheOpen(S, s, d) ==
  /\ d.start # 0 => d.mode = "alarm"
  /\ d.start # 0 /\ s <= d.start =>
       \E j \in Begun(S, s) : /\ history[j].time = d.start
                              /\ \A k \in S : j <= k => history[k].value = "active"
  /\ \A j \in Begun(S, s) : Lasts(S, j) => d.start = history[j].time

\* What is found is what began in the range, ended and lasted too long.
KnowsTheClosed(S, s, d) ==
  /\ \A f \in d.found : s <= f.start =>
       \E j \in Begun(S, s), k \in S :
         /\ Ends(S, j, k) /\ f = Interval(j, k)
         /\ Qualifies(history[j].time, history[k].time)
  /\ \A j \in Begun(S, s), k \in S :
       Ends(S, j, k) /\ Qualifies(history[j].time, history[k].time) => Interval(j, k) \in d.found

Knows(S, s, d) ==
  d.mode # "error" => KnowsTheLast(S, d) /\ KnowsTheOpen(S, s, d) /\ KnowsTheClosed(S, s, d)

LEMMA StepKnows ==
  ASSUME HistoryInv, NEW s \in Nat, NEW S, S \subseteq 1..Len(history),
         NEW i \in 1..Len(history), s <= history[i].time,
         \A k \in S : k < i, S # {} => i - 1 \in S,
         NEW d \in DetectorState, Knows(S, s, d)
  PROVE  Knows(S \cup {i}, s, Step(d, history[i]))
<1> DEFINE N == Len(history)
           T == S \cup {i}
           r == history[i]
           e == Step(d, r)
<1>1. /\ N \in Nat /\ i \in Nat /\ i >= 1 /\ S \subseteq 1..N
      /\ \A k \in 1..N : history[k].time \in Nat /\ history[k].time # 0 /\ history[k].value \in Value
      /\ d.start \in Nat /\ d.found \subseteq [start : Nat, end : Nat]
      /\ d.mode \in {"unknown", "normal", "alarm", "error"}
      /\ d = [mode |-> d.mode, start |-> d.start, found |-> d.found]
  BY HistoryTyped DEF DetectorState
<1>2. \A j \in S : j \in Nat /\ j < i /\ j <= i - 1 /\ j # i
  BY <1>1
<1>3. ASSUME NEW j \in S
      PROVE  j \in Begun(T, s) <=> j \in Begun(S, s)
  BY <1>1, <1>2 DEF Begun
<1>4. i \in Begun(T, s) <=> r.value = "active" /\ i - 1 \in S /\ history[i - 1].value = "normal"
  BY <1>1, <1>2 DEF Begun
<1>5. Begun(S, s) \subseteq S /\ Begun(T, s) \subseteq T
  BY DEF Begun
<1>6. ASSUME NEW j \in T, NEW k \in S
      PROVE  Ends(T, j, k) <=> Ends(S, j, k)
  BY <1>1, <1>2 DEF Ends
<1>7. ASSUME NEW j \in T
      PROVE  Ends(T, j, i) <=> j \in S /\ r.value = "normal" /\ Lasts(S, j)
  BY <1>1, <1>2 DEF Ends, Lasts
<1>8. ASSUME NEW j \in S
      PROVE  Lasts(T, j) <=> Lasts(S, j) /\ r.value # "normal"
  BY <1>1, <1>2 DEF Lasts
<1>9. Lasts(T, i)
  BY <1>1, <1>2 DEF Lasts
<1>10. \A j \in Begun(S, s) : i - 1 \in S /\ j <= i - 1
  BY <1>2, <1>5
<1> SUFFICES ASSUME e.mode # "error"
             PROVE  KnowsTheLast(T, e) /\ KnowsTheOpen(T, s, e) /\ KnowsTheClosed(T, s, e)
  BY DEF Knows
<1>11. d.mode # "error" /\ r.value # "bad"
  <2> SUFFICES ASSUME d.mode = "error" \/ r.value = "bad" PROVE e.mode = "error"
    OBVIOUS
  <2>1. e = [d EXCEPT !.mode = "error"]
    BY DEF Step
  <2> HIDE DEF e
  <2> QED
    BY <2>1 DEF DetectorState
<1>12. KnowsTheLast(S, d) /\ KnowsTheOpen(S, s, d) /\ KnowsTheClosed(S, s, d)
  BY <1>11 DEF Knows
<1>13. r.value \in {"active", "normal"} /\ r.time \in Nat /\ r.time # 0
  BY <1>1, <1>11 DEF Value
<1>14. e.mode = IF r.value = "active" THEN "alarm" ELSE "normal"
  BY <1>1, <1>11, <1>13 DEF Step
<1>15. KnowsTheLast(T, e)
  <2>1. i \in T /\ \A k \in T : k <= i
    BY <1>1, <1>2
  <2> HIDE DEF T, e
  <2>2. /\ e.mode # "unknown"
        /\ e.mode = "normal" => history[i].value = "normal"
        /\ e.mode = "alarm" => history[i].value = "active"
    BY <1>13, <1>14
  <2> QED
    BY <2>1, <2>2 DEF KnowsTheLast
\* The mode of d is the value of the reading before i.
<1>16. /\ d.mode = "unknown" => S = {}
       /\ d.mode = "normal" => i - 1 \in S /\ history[i - 1].value = "normal"
       /\ d.mode = "alarm" => i - 1 \in S /\ history[i - 1].value = "active"
  <2>1. ASSUME NEW k \in S, \A m \in S : m <= k PROVE k = i - 1
    BY <1>1, <1>2, <2>1
  <2> QED
    BY <1>12, <2>1 DEF KnowsTheLast
<1> HIDE DEF T, r, e
<1>17. CASE d.mode = "unknown"
  <2>1. S = {} /\ Begun(S, s) = {} /\ Begun(T, s) = {} /\ d.start = 0
    BY <1>4, <1>5, <1>12, <1>16, <1>17 DEF KnowsTheOpen, T
  <2>2. e.start = 0 /\ e.found = d.found
    BY <1>1, <1>11, <1>13, <1>17, <2>1 DEF e, Step
  <2>3. KnowsTheOpen(T, s, e)
    BY <2>1, <2>2 DEF KnowsTheOpen
  <2>4. KnowsTheClosed(T, s, e)
    BY <1>12, <2>1, <2>2 DEF KnowsTheClosed
  <2> QED
    BY <1>15, <2>3, <2>4
<1>18. CASE d.mode = "normal" /\ r.value = "active"
  <2>1. e.start = r.time /\ e.found = d.found /\ e.mode = "alarm"
    BY <1>1, <1>11, <1>18 DEF e, Step
  <2>2. i \in Begun(T, s) /\ i - 1 \in S /\ history[i - 1].value = "normal"
    BY <1>4, <1>16, <1>18
  <2>3. ASSUME NEW j \in Begun(S, s) PROVE ~ Lasts(S, j)
    <3>1. j # i - 1 /\ j < i - 1
      BY <1>1, <1>5, <1>10, <2>2 DEF Begun
    <3> QED
      BY <2>2, <3>1 DEF Lasts
  <2>4. \A j \in Begun(T, s) : j # i => j \in S /\ j \in Begun(S, s) /\ ~ Lasts(T, j)
    BY <1>3, <1>5, <1>8, <2>3 DEF T
  <2>5. KnowsTheOpen(T, s, e)
    <3>1. \A k \in T : i <= k => history[k].value = "active"
      BY <1>1, <1>2, <1>18 DEF T, r
    <3> QED
      BY <2>1, <2>2, <2>4, <3>1 DEF KnowsTheOpen, r
  <2>6. KnowsTheClosed(T, s, e)
    <3>1. ASSUME NEW j \in Begun(T, s), NEW k \in T, Ends(T, j, k)
          PROVE  j \in Begun(S, s) /\ k \in S /\ Ends(S, j, k)
      <4>1. k # i /\ k \in S
        BY <1>5, <1>7, <1>18, <3>1 DEF T
      <4>2. j # i
        BY <1>2, <3>1, <4>1 DEF Ends
      <4> QED
        BY <1>5, <1>6, <2>4, <3>1, <4>1, <4>2
    <3>2. ASSUME NEW j \in Begun(S, s), NEW k \in S, Ends(S, j, k)
          PROVE  j \in Begun(T, s) /\ k \in T /\ Ends(T, j, k)
      BY <1>3, <1>5, <1>6, <3>2 DEF T
    <3> QED
      BY <1>12, <2>1, <3>1, <3>2 DEF KnowsTheClosed
  <2> QED
    BY <1>15, <2>5, <2>6
<1>19. CASE d.mode = "alarm" /\ r.value = "normal"
  <2>1. /\ e.start = 0 /\ e.mode = "normal"
        /\ e.found = IF d.start # 0 /\ Qualifies(d.start, r.time)
                     THEN d.found \cup {[start |-> d.start, end |-> r.time]} ELSE d.found
    BY <1>1, <1>11, <1>19 DEF e, Step
  <2>2. \A j \in Begun(T, s) : j \in S /\ j \in Begun(S, s) /\ ~ Lasts(T, j)
    BY <1>3, <1>4, <1>5, <1>8, <1>19 DEF T
  <2>3. KnowsTheOpen(T, s, e)
    BY <2>1, <2>2 DEF KnowsTheOpen
  <2>4. ASSUME NEW f \in e.found, s <= f.start
        PROVE  \E j \in Begun(T, s), k \in T :
                 /\ Ends(T, j, k) /\ f = Interval(j, k)
                 /\ Qualifies(history[j].time, history[k].time)
    <3>1. CASE f \in d.found
      BY <1>3, <1>5, <1>6, <1>12, <2>4, <3>1 DEF KnowsTheClosed, T
    <3>2. CASE f \notin d.found
      <4>1. d.start # 0 /\ Qualifies(d.start, r.time) /\ f = [start |-> d.start, end |-> r.time]
        BY <2>1, <3>2
      <4>2. PICK j \in Begun(S, s) : /\ history[j].time = d.start
                                     /\ \A k \in S : j <= k => history[k].value = "active"
        BY <1>12, <2>4, <4>1 DEF KnowsTheOpen
      <4>3. Lasts(S, j)
        BY <1>1, <1>2, <1>5, <4>2 DEF Lasts
      <4>4. j \in Begun(T, s) /\ Ends(T, j, i) /\ i \in T
        BY <1>3, <1>5, <1>7, <1>19, <4>3 DEF T
      <4> QED
        BY <4>1, <4>2, <4>4 DEF Interval, r
    <3> QED
      BY <3>1, <3>2
  <2>5. ASSUME NEW j \in Begun(T, s), NEW k \in T,
               Ends(T, j, k), Qualifies(history[j].time, history[k].time)
        PROVE  Interval(j, k) \in e.found
    <3>1. CASE k \in S
      BY <1>5, <1>6, <1>12, <2>1, <2>2, <2>5, <3>1 DEF KnowsTheClosed
    <3>2. CASE k = i
      <4>1. Lasts(S, j)
        BY <1>5, <1>7, <2>5, <3>2
      <4>2. d.start = history[j].time /\ d.start # 0
        BY <1>1, <1>5, <1>12, <2>2, <4>1 DEF KnowsTheOpen
      <4> QED
        BY <2>1, <2>5, <3>2, <4>2 DEF Interval, r
    <3> QED
      BY <3>1, <3>2 DEF T
  <2>6. KnowsTheClosed(T, s, e)
    BY <2>4, <2>5 DEF KnowsTheClosed
  <2> QED
    BY <1>15, <2>3, <2>6
<1>20. CASE \/ d.mode = "normal" /\ r.value = "normal"
            \/ d.mode = "alarm" /\ r.value = "active"
  <2>1. e = d
    BY <1>20 DEF e, Step
  <2>2. \A j \in Begun(T, s) : j \in S /\ j \in Begun(S, s)
    BY <1>3, <1>4, <1>5, <1>16, <1>20 DEF T
  \* A normal reading after a normal one ends nothing.
  <2>3. \A j \in Begun(S, s) : ~ Ends(T, j, i)
    <3> SUFFICES ASSUME NEW j \in Begun(S, s), Ends(T, j, i) PROVE FALSE
      OBVIOUS
    <3>1. j \in T /\ r.value = "normal" /\ Lasts(S, j)
      BY <1>5, <1>7 DEF T
    <3>2. i - 1 \in S /\ history[i - 1].value = "normal" /\ j < i - 1
      BY <1>1, <1>5, <1>10, <1>16, <1>20, <3>1 DEF Begun
    <3> QED
      BY <3>1, <3>2 DEF Lasts
  <2>4. KnowsTheOpen(T, s, e)
    <3>1. d.start # 0 => r.value = "active"
      BY <1>12, <1>20 DEF KnowsTheOpen
    <3>2. ASSUME d.start # 0, s <= d.start
          PROVE  \E j \in Begun(T, s) : /\ history[j].time = d.start
                                        /\ \A k \in T : j <= k => history[k].value = "active"
      <4>1. PICK j \in Begun(S, s) : /\ history[j].time = d.start
                                     /\ \A k \in S : j <= k => history[k].value = "active"
        BY <1>12, <3>2 DEF KnowsTheOpen
      <4>2. j \in Begun(T, s)
        BY <1>3, <1>5
      <4> QED
        BY <3>1, <3>2, <4>1, <4>2 DEF T, r
    <3>3. \A j \in Begun(T, s) : Lasts(T, j) => d.start = history[j].time
      BY <1>8, <1>12, <2>2 DEF KnowsTheOpen
    <3> QED
      BY <1>12, <2>1, <3>2, <3>3 DEF KnowsTheOpen
  <2>5. KnowsTheClosed(T, s, e)
    <3>1. ASSUME NEW j \in Begun(T, s), NEW k \in T, Ends(T, j, k)
          PROVE  j \in Begun(S, s) /\ k \in S /\ Ends(S, j, k)
      BY <1>5, <1>6, <2>2, <2>3, <3>1 DEF T
    <3>2. ASSUME NEW j \in Begun(S, s), NEW k \in S, Ends(S, j, k)
          PROVE  j \in Begun(T, s) /\ k \in T /\ Ends(T, j, k)
      BY <1>3, <1>5, <1>6, <3>2 DEF T
    <3> QED
      BY <1>12, <2>1, <3>1, <3>2 DEF KnowsTheClosed
  <2> QED
    BY <1>15, <2>4, <2>5
<1> QED
  BY <1>1, <1>11, <1>13, <1>17, <1>18, <1>19, <1>20

-----------------------------------------------------------------------------
\* The positions whose readings the detector of w has read, up to n.
Seen(w, n) ==
  ({PreviousSample(Start(w))} \ {0})
    \cup {i \in 1..n : Start(w) <= history[i].time /\ history[i].time < QueryEnd(w)}

\* They follow one another: an earlier one than i is followed by i - 1.
LEMMA SeenTogether ==
  ASSUME HistoryInv, NEW w \in Window, NEW n \in Nat, NEW i \in 1..Len(history), n < i,
         Start(w) <= history[i].time, history[i].time < QueryEnd(w)
  PROVE  /\ Seen(w, n) \subseteq 1..Len(history)
         /\ \A k \in Seen(w, n) : k < i
         /\ n = i - 1 /\ Seen(w, n) # {} => i - 1 \in Seen(w, n)
<1> DEFINE N == Len(history)
           s == Start(w)
           p == PreviousSample(s)
<1>1. /\ N \in Nat /\ s \in Nat /\ QueryEnd(w) \in Nat /\ n \in 0..N
      /\ \A j \in 1..N : history[j].time \in Nat
      /\ \A j, k \in 1..N : j <= k => history[j].time <= history[k].time
  <2>1. N \in Nat /\ \A j \in 1..N : history[j].time \in Nat
    BY HistoryTyped
  <2>2. \A j, k \in 1..N : j <= k => history[j].time <= history[k].time
    BY HistoryTyped DEF HistoryInv
  <2>3. n \in 0..N
    BY <2>1
  <2> QED
    BY <2>1, <2>2, <2>3, WindowTimes
<1>2. IsPrevious(s, p)
  BY <1>1, PreviousIsLast
<1>3. /\ p \in 0..N
      /\ p # 0 => history[p].time < s /\ p < i
      /\ \A k \in 1..N : p # 0 /\ p < k => s <= history[k].time
  <2>1. p \in 0..N /\ (p # 0 => s - Reach <= history[p].time /\ history[p].time < s)
    BY <1>2 DEF IsPrevious
  <2>2. ASSUME p # 0, i <= p PROVE FALSE
    BY <1>1, <2>1, <2>2
  <2>3. ASSUME NEW k \in 1..N, p # 0, p < k, history[k].time < s PROVE FALSE
    <3>1. history[p].time <= history[k].time /\ history[p].time \in Nat /\ Reach \in Nat
      BY <1>1, <2>1, <2>3, LookbackSteps
    <3>2. s - Reach <= history[k].time
      BY <1>1, <2>1, <2>3, <3>1
    <3> QED
      BY <1>2, <2>3, <3>2 DEF IsPrevious
  <2> QED
    BY <1>1, <2>1, <2>2, <2>3
<1> HIDE DEF N, s, p
<1>4. Seen(w, n) = ({p} \ {0}) \cup {j \in 1..n : s <= history[j].time /\ history[j].time < QueryEnd(w)}
  BY DEF Seen, s, p
<1>5. Seen(w, n) \subseteq 1..N /\ \A k \in Seen(w, n) : k < i
  BY <1>1, <1>3, <1>4 DEF N
<1>6. ASSUME n = i - 1, NEW k \in Seen(w, n)
      PROVE  i - 1 \in Seen(w, n)
  <2>1. CASE i - 1 = p
    BY <1>4, <1>5, <1>6, <2>1 DEF N
  <2>2. CASE i - 1 # p
    <3>1. i - 1 \in 1..n /\ i - 1 \in 1..N /\ k <= i - 1
      BY <1>1, <1>5, <1>6 DEF N
    <3>2. s <= history[i - 1].time
      BY <1>1, <1>3, <1>4, <1>6, <2>2, <3>1
    <3>3. history[i - 1].time <= history[i].time
      BY <1>1, <3>1 DEF N
    <3>4. history[i - 1].time < QueryEnd(w)
      BY <1>1, <3>1, <3>3 DEF N
    <3> QED
      BY <1>4, <3>1, <3>2, <3>4
  <2> QED
    BY <2>1, <2>2
<1> QED
  BY <1>5, <1>6 DEF N

LEMMA FirstKnows ==
  ASSUME HistoryInv, NEW s \in Nat, NEW p \in 0..Len(history),
         p # 0 => history[p].time < s
  PROVE  Knows({p} \ {0}, s, DetectorFrom(p))
<1> DEFINE S == {p} \ {0}
           d == DetectorFrom(p)
<1>1. p # 0 => history[p].time \in Nat /\ history[p].value \in {"active", "normal", "bad"}
  BY HistoryTyped DEF Value
<1>2. Begun(S, s) = {}
  BY <1>1 DEF Begun
<1>3. /\ d.found = {}
      /\ d.mode = "unknown" => p = 0
      /\ d.mode = "normal" => p # 0 /\ history[p].value = "normal"
      /\ d.mode = "alarm" => p # 0 /\ history[p].value = "active"
      /\ d.start = IF p # 0 /\ history[p].value = "active" THEN history[p].time ELSE 0
      /\ p # 0 /\ history[p].value = "active" => d.mode = "alarm"
  <2>1. d.found = {} /\ d.start = IF p # 0 /\ history[p].value = "active" THEN history[p].time ELSE 0
    BY DEF DetectorFrom
  <2>2. CASE p = 0
    BY <2>1, <2>2 DEF DetectorFrom
  <2>3. CASE p # 0 /\ history[p].value = "normal"
    BY <2>1, <2>3 DEF DetectorFrom
  <2>4. CASE p # 0 /\ history[p].value = "active"
    BY <2>1, <2>4 DEF DetectorFrom
  <2>5. CASE p # 0 /\ history[p].value = "bad"
    BY <2>1, <2>5 DEF DetectorFrom
  <2> QED
    BY <1>1, <2>2, <2>3, <2>4, <2>5
<1> HIDE DEF d
<1>4. KnowsTheLast(S, d)
  <2>1. p # 0 => p \in S /\ \A k \in S : k <= p
    OBVIOUS
  <2>2. p = 0 => S = {}
    OBVIOUS
  <2> HIDE DEF S
  <2> QED
    BY <1>3, <2>1, <2>2 DEF KnowsTheLast
<1>5. KnowsTheOpen(S, s, d)
  <2>1. ~ (d.start # 0 /\ s <= d.start) /\ (d.start # 0 => d.mode = "alarm")
    BY <1>1, <1>3
  <2> HIDE DEF S
  <2> QED
    BY <1>2, <2>1 DEF KnowsTheOpen
<1>6. KnowsTheClosed(S, s, d)
  BY <1>2, <1>3 DEF KnowsTheClosed
<1> QED
  BY <1>4, <1>5, <1>6 DEF Knows, d

\* What the detector has found after all the readings of the query range.
LEMMA DetectKnows ==
  ASSUME HistoryInv, NEW w \in Window
  PROVE  /\ Knows(Seen(w, Len(history)), Start(w), Detect(w))
         /\ Detect(w) \in DetectorState
<1> DEFINE N == Len(history)
           s == Start(w)
           p == PreviousSample(s)
           read == GetHistory(Start(w), QueryEnd(w))
<1>1. N \in Nat /\ s \in Nat /\ p \in 0..N /\ (p # 0 => history[p].time < s)
  BY HistoryTyped, WindowTimes, PreviousIsLast DEF IsPrevious
<1>2. PICK d : IsRun(w, d) /\ Detect(w) = d[N]
  BY <1>1, DetectIsRun
<1>3. /\ d \in [0..N -> DetectorState] /\ d[0] = DetectorFrom(p)
      /\ \A i \in 1..N : d[i] = IF i \in read THEN Step(d[i - 1], history[i]) ELSE d[i - 1]
  BY <1>2 DEF IsRun
<1>4. \A i \in 1..N : i \in read <=> Start(w) <= history[i].time /\ history[i].time < QueryEnd(w)
  BY HistoryTyped DEF GetHistory
<1> HIDE DEF N, s, p, read
<1>5. \A n \in 0..N : Knows(Seen(w, n), s, d[n])
  <2> DEFINE T == {n \in Nat : n <= N => Knows(Seen(w, n), s, d[n])}
  <2>1. 0 \in T
    <3>1. Seen(w, 0) = {p} \ {0}
      BY DEF Seen, p, s
    <3> QED
      BY <1>1, <1>3, <3>1, FirstKnows DEF N
  <2>2. ASSUME NEW n \in Nat, n \in T PROVE n + 1 \in T
    <3> SUFFICES ASSUME n + 1 <= N PROVE Knows(Seen(w, n + 1), s, d[n + 1])
      BY <2>2
    <3>1. n + 1 \in 1..N /\ Knows(Seen(w, n), s, d[n]) /\ d[n] \in DetectorState
      BY <1>1, <1>3, <2>2
    <3>2. CASE n + 1 \in read
      <4>1. Start(w) <= history[n + 1].time /\ history[n + 1].time < QueryEnd(w)
        BY <1>4, <3>1, <3>2
      <4>2. Seen(w, n + 1) = Seen(w, n) \cup {n + 1}
        <5>1. \A i : i \in 1..(n + 1) <=> i \in 1..n \/ i = n + 1
          OBVIOUS
        <5> QED
          BY <4>1, <5>1 DEF Seen
      <4>3. /\ Seen(w, n) \subseteq 1..N /\ \A k \in Seen(w, n) : k < n + 1
            /\ Seen(w, n) # {} => (n + 1) - 1 \in Seen(w, n)
        BY <3>1, <4>1, SeenTogether DEF N
      <4>4. Knows(Seen(w, n) \cup {n + 1}, s, Step(d[n], history[n + 1]))
        BY <1>1, <3>1, <4>1, <4>3, StepKnows DEF N, s
      <4>5. d[n + 1] = Step(d[n], history[n + 1])
        BY <1>3, <3>1, <3>2
      <4> QED
        BY <4>2, <4>4, <4>5
    <3>3. CASE n + 1 \notin read
      <4>1. ~ (Start(w) <= history[n + 1].time /\ history[n + 1].time < QueryEnd(w))
        BY <1>4, <3>1, <3>3
      <4>2. Seen(w, n + 1) = Seen(w, n)
        <5>1. \A i : i \in 1..(n + 1) <=> i \in 1..n \/ i = n + 1
          OBVIOUS
        <5> QED
          BY <4>1, <5>1 DEF Seen
      <4>3. d[n + 1] = d[n]
        BY <1>3, <3>1, <3>3
      <4> QED
        BY <3>1, <4>2, <4>3
    <3> QED
      BY <3>2, <3>3
  <2> HIDE DEF T
  <2>3. Nat \subseteq T
    BY <2>1, <2>2, SetInduction
  <2> QED
    BY <1>1, <2>3 DEF T
<1>6. Knows(Seen(w, N), s, d[N]) /\ d[N] \in DetectorState
  BY <1>1, <1>3, <1>5
<1> QED
  BY <1>2, <1>6 DEF N, s

-----------------------------------------------------------------------------
\* The search for a recovery reads every sample from cursor to its end, in order.
LEMMA FindNextIsFirst ==
  ASSUME HistoryInv, NEW s \in Nat, NEW c \in Nat
  PROVE  /\ SearchEnd(s) \in Nat
         /\ FindNext(s, c) \in 0..Len(history)
         /\ FindNext(s, c) = 0 =>
              \A i \in 1..Len(history) :
                c <= history[i].time /\ history[i].time < SearchEnd(s) =>
                  history[i].value = "active"
         /\ FindNext(s, c) # 0 =>
              LET p == FindNext(s, c)
              IN  /\ c <= history[p].time /\ history[p].time < SearchEnd(s)
                  /\ history[p].value # "active"
                  /\ \A i \in 1..Len(history) :
                       c <= history[i].time /\ i < p => history[i].value = "active"
<1> DEFINE N == Len(history)
           H == Len(Forward)
           p == FindNext(s, c)
           read == UNION {NextChunk(s, c, k) : k \in DOMAIN Forward}
           met == {i \in read : history[i].value # "active"}
<1>1. /\ N \in Nat /\ H \in Nat /\ H >= 1 /\ DOMAIN Forward = 1..H
      /\ \A i \in 1..N : history[i].time \in Nat
      /\ \A k \in 1..H : Forward[k] \in Nat
  <2>1. Forward \in Seq(Nat \ {0}) /\ Forward # <<>>
    BY HorizonsAssumption DEF Horizons
  <2>2. H \in Nat /\ H >= 1 /\ DOMAIN Forward = 1..H /\ \A k \in 1..H : Forward[k] \in Nat
    BY <2>1
  <2> QED
    BY <2>2, HistoryTyped
<1>2. \A i, j \in 1..N : i <= j => history[i].time <= history[j].time
  BY HistoryTyped DEF HistoryInv
<1>3. \A k \in 1..H : Forward[k] <= Forward[H]
  <2>1. \A i, j \in 1..H : i < j => Forward[i] < Forward[j]
    BY <1>1, HorizonsAssumption DEF Horizons
  <2> HIDE DEF H
  <2> QED
    BY <1>1, <2>1
<1>4. SearchEnd(s) = s + Forward[H] /\ SearchEnd(s) \in Nat /\ Forward[H] \in Nat
  BY <1>1 DEF SearchEnd
<1>5. DOMAIN history = 1..N
  BY HistoryTyped
<1> HIDE DEF N, H
<1>6. ASSUME NEW i \in read
      PROVE  i \in 1..N /\ c <= history[i].time /\ history[i].time < SearchEnd(s)
  <2>1. PICK k \in 1..H : i \in NextChunk(s, c, k)
    BY <1>1
  <2> DEFINE from == IF k = 1 \/ s + Forward[k - 1] < c THEN c ELSE s + Forward[k - 1]
  <2>2. i \in 1..N /\ from <= history[i].time /\ history[i].time < s + Forward[k]
    BY <1>5, <2>1 DEF NextChunk, GetHistory
  <2>3. from \in Nat /\ c <= from
    <3>1. CASE k = 1
      BY <3>1
    <3>2. CASE k # 1
      <4>1. k - 1 \in 1..H /\ Forward[k - 1] \in Nat
        BY <1>1, <3>2
      <4> QED
        BY <3>2, <4>1
    <3> QED
      BY <3>1, <3>2
  <2>4. Forward[k] \in Nat /\ Forward[k] <= Forward[H] /\ history[i].time \in Nat
    BY <1>1, <1>3, <2>2
  <2> HIDE DEF from
  <2> QED
    BY <1>4, <2>2, <2>3, <2>4
<1>7. ASSUME NEW i \in 1..N, c <= history[i].time, history[i].time < SearchEnd(s)
      PROVE  i \in read
  <2> DEFINE T == {k \in 1..H : history[i].time < s + Forward[k]}
  <2>1. PICK k \in T : \A m \in T : k <= m
    <3>1. T \subseteq Nat /\ T # {}
      BY <1>1, <1>4, <1>7
    <3> HIDE DEF T
    <3> QED
      BY <3>1, LeastNumber
  <2>2. k \in 1..H /\ history[i].time < s + Forward[k]
    BY <2>1
  <2>3. k # 1 => s + Forward[k - 1] <= history[i].time
    <3> SUFFICES ASSUME k # 1 PROVE s + Forward[k - 1] <= history[i].time
      OBVIOUS
    <3>1. k - 1 \in 1..H /\ Forward[k - 1] \in Nat /\ history[i].time \in Nat
      BY <1>1, <2>2
    <3>2. k - 1 \notin T
      BY <1>1, <2>1, <2>2
    <3> QED
      BY <3>1, <3>2
  <2>4. i \in NextChunk(s, c, k)
    BY <1>5, <1>7, <2>2, <2>3 DEF NextChunk, GetHistory
  <2> QED
    BY <1>1, <2>2, <2>4
<1> HIDE DEF read
<1>8. p = IF met = {} THEN 0 ELSE Min(met)
  BY DEF FindNext, read
<1> HIDE DEF p
<1>9. CASE met = {}
  <2>1. p = 0 /\ \A i \in 1..N : c <= history[i].time /\ history[i].time < SearchEnd(s) =>
                                   history[i].value = "active"
    BY <1>7, <1>8, <1>9
  <2> QED
    BY <1>1, <1>4, <2>1 DEF p, N
<1>10. CASE met # {}
  <2>1. p \in met /\ \A i \in met : p <= i
    <3>1. met \subseteq Nat
      BY <1>6
    <3> HIDE DEF met
    <3> QED
      BY <1>8, <1>10, <3>1, MinIsLeast
  <2>2. /\ p \in 1..N /\ c <= history[p].time /\ history[p].time < SearchEnd(s)
        /\ history[p].value # "active"
    BY <1>6, <2>1
  <2>3. ASSUME NEW i \in 1..N, c <= history[i].time, i < p
        PROVE  history[i].value = "active"
    <3>1. history[i].time <= history[p].time /\ history[i].time \in Nat /\ history[p].time \in Nat
      BY <1>1, <1>2, <2>2, <2>3
    <3>2. i \in read
      BY <1>4, <1>7, <2>2, <2>3, <3>1
    <3> QED
      BY <1>1, <2>1, <2>2, <2>3, <3>2
  <2> QED
    BY <1>1, <1>4, <2>2, <2>3 DEF p, N
<1> QED
  BY <1>9, <1>10

\* The alarm that begins at i is over at the first normal reading after it.
LEMMA EndIsFirst ==
  ASSUME HistoryInv, NEW i \in 1..Len(history), Over(i) # {}
  PROVE  \E k \in Over(i) : EndOf(i) = history[k].time /\ \A m \in Over(i) : k <= m
<1>1. Over(i) \subseteq Nat
  BY HistoryTyped DEF Over
<1> QED
  BY <1>1, MinIsLeast DEF EndOf

\* The alarms that begin in w are those that the detector sees begin in time.
LEMMA BeginsAreSeen ==
  ASSUME HistoryInv, NEW w \in Window
  PROVE  Begins(w) = {j \in Begun(Seen(w, Len(history)), Start(w)) : history[j].time < End(w)}
<1> DEFINE N == Len(history)
           s == Start(w)
           p == PreviousSample(s)
           S == Seen(w, N)
<1>1. /\ N \in Nat /\ s \in Nat /\ End(w) \in Nat /\ QueryEnd(w) \in Nat /\ End(w) < QueryEnd(w)
      /\ Reach \in Nat
      /\ \A j \in 1..N : history[j].time \in Nat
  BY HistoryTyped, WindowTimes, LookbackSteps
<1>2. \A j, k \in 1..N : j <= k => history[j].time <= history[k].time
  BY HistoryTyped DEF HistoryInv
<1>3. IsPrevious(s, p)
  BY <1>1, PreviousIsLast
<1>4. p \in 0..N /\ (p # 0 => s - Reach <= history[p].time /\ history[p].time < s)
  BY <1>3 DEF IsPrevious
<1>5. S = ({p} \ {0}) \cup {i \in 1..N : s <= history[i].time /\ history[i].time < QueryEnd(w)}
  BY DEF Seen
<1> HIDE DEF N, s, p, S
<1>6. ASSUME NEW j \in Begins(w)
      PROVE  j \in Begun(S, s) /\ history[j].time < End(w)
  <2>1. /\ j \in 2..N /\ history[j].value = "active" /\ s <= history[j].time
        /\ history[j].time < End(w) /\ history[j - 1].value = "normal"
        /\ history[j - 1].time >= s - Reach
    BY DEF Begins, Reach, N, s
  <2>2. j \in 1..N /\ j - 1 \in 1..N /\ history[j].time \in Nat /\ history[j - 1].time \in Nat
    BY <1>1, <2>1
  <2>3. history[j - 1].time <= history[j].time
    BY <1>2, <2>2
  <2>4. j \in S
    BY <1>1, <1>5, <2>1, <2>2
  <2>5. j - 1 \in S
    <3>1. CASE s <= history[j - 1].time
      BY <1>1, <1>5, <2>1, <2>2, <2>3, <3>1
    <3>2. CASE history[j - 1].time < s
      <4>1. p # 0 /\ j - 1 <= p
        BY <1>3, <2>1, <2>2, <3>2 DEF IsPrevious, N
      <4>2. p < j
        <5> SUFFICES ASSUME j <= p PROVE FALSE
          BY <1>4, <2>2
        <5>1. p \in 1..N /\ history[p].time \in Nat
          BY <1>1, <1>4, <4>1
        <5>2. history[j].time <= history[p].time
          BY <1>2, <2>2, <5>1
        <5> QED
          BY <1>1, <1>4, <2>1, <2>2, <4>1, <5>1, <5>2
      <4>3. j - 1 = p
        BY <1>4, <2>2, <4>1, <4>2
      <4> QED
        BY <1>5, <4>1, <4>3
    <3> QED
      BY <1>1, <2>2, <3>1, <3>2
  <2> QED
    BY <2>1, <2>4, <2>5 DEF Begun
<1>7. ASSUME NEW j \in Begun(S, s), history[j].time < End(w)
      PROVE  j \in Begins(w)
  <2>1. /\ j \in S /\ s <= history[j].time /\ history[j].value = "active"
        /\ j - 1 \in S /\ history[j - 1].value = "normal"
    BY DEF Begun
  <2>2. j \in 1..N /\ j - 1 \in 1..N
    BY <1>4, <1>5, <2>1
  <2>3. s - Reach <= history[j - 1].time
    BY <1>1, <1>4, <1>5, <2>1, <2>2
  <2> QED
    BY <1>1, <1>7, <2>1, <2>2, <2>3 DEF Begins, Reach, N, s
<1> QED
  BY <1>6, <1>7 DEF N, s, S, Begins, Begun

-----------------------------------------------------------------------------
\* The event of an alarm that the detector saw end.
LEMMA ClosedEvent ==
  ASSUME HistoryInv, NEW w \in Window, NEW j \in Begins(w), NEW k,
         Ends(Seen(w, Len(history)), j, k)
  PROVE  /\ Over(j) # {} /\ EndOf(j) = history[k].time
         /\ EventOf(w, j) = Event(history[j].time, history[k].time, FALSE)
<1> DEFINE N == Len(history)
           S == Seen(w, N)
<1>1. /\ N \in Nat /\ Start(w) \in Nat /\ QueryEnd(w) \in Nat
      /\ \A i \in 1..N : history[i].time \in Nat
  BY HistoryTyped, WindowTimes
<1>2. \A i, m \in 1..N : i <= m => history[i].time <= history[m].time
  BY HistoryTyped DEF HistoryInv
<1>3. /\ k \in S /\ j < k /\ history[k].value = "normal"
      /\ \A m \in S : j < m /\ m < k => history[m].value # "normal"
  BY DEF Ends
<1>4. j \in 1..N /\ Start(w) <= history[j].time
  BY <1>1 DEF Begins
<1>5. IsPrevious(Start(w), PreviousSample(Start(w)))
  BY <1>1, PreviousIsLast
<1> HIDE DEF N
<1>6. k \in 1..N /\ history[k].time < QueryEnd(w)
  <2>1. CASE k \in 1..N /\ history[k].time < QueryEnd(w)
    BY <2>1
  <2>2. CASE k = PreviousSample(Start(w)) /\ k # 0
    <3>1. k \in 1..N /\ history[k].time < Start(w)
      BY <1>1, <1>5, <2>2 DEF IsPrevious, N
    <3>2. history[j].time <= history[k].time
      BY <1>2, <1>3, <1>4, <3>1
    <3> QED
      BY <1>1, <1>4, <3>1, <3>2
  <2> QED
    BY <1>3, <2>1, <2>2 DEF Seen
<1>7. k \in Over(j)
  BY <1>1, <1>3, <1>4, <1>6 DEF Over, N
<1>8. PICK m \in Over(j) : EndOf(j) = history[m].time /\ \A i \in Over(j) : m <= i
  BY <1>4, <1>7, EndIsFirst DEF N
<1>9. m = k
  <2>1. m \in 1..N /\ j < m /\ m <= k /\ history[m].value = "normal"
    BY <1>1, <1>4, <1>7, <1>8 DEF Over, N
  <2>2. history[j].time <= history[m].time /\ history[m].time <= history[k].time
    BY <1>2, <1>4, <1>6, <2>1
  <2>3. Start(w) <= history[m].time /\ history[m].time < QueryEnd(w)
    BY <1>1, <1>4, <1>6, <2>1, <2>2
  <2>4. m \in S
    BY <2>1, <2>3 DEF Seen
  <2> QED
    BY <1>3, <1>6, <2>1, <2>4
<1>10. EndOf(j) < (IF SearchEnd(history[j].time) > QueryEnd(w) THEN SearchEnd(history[j].time)
                   ELSE QueryEnd(w))
  <2>1. SearchEnd(history[j].time) \in Nat
    BY <1>1, <1>4, FindNextIsFirst
  <2> QED
    BY <1>1, <1>6, <1>8, <1>9, <2>1
<1> QED
  BY <1>7, <1>8, <1>9, <1>10 DEF EventOf

\* The event of an alarm that the detector saw no end of.
LEMMA OpenEvent ==
  ASSUME HistoryInv, NEW w \in Window, NEW j \in Begins(w), Lasts(Seen(w, Len(history)), j),
         LET next == FindNext(history[j].time, QueryEnd(w))
         IN  ~ (next # 0 /\ history[next].value = "bad")
  PROVE  /\ Recovered(w, history[j].time) = EventOf(w, j)
         /\ Qualifies(history[j].time, QueryEnd(w))
         /\ Over(j) = {} \/ Qualifies(history[j].time, EndOf(j))
<1> DEFINE N == Len(history)
           s == history[j].time
           q == QueryEnd(w)
           p == FindNext(s, q)
           limit == IF SearchEnd(s) > q THEN SearchEnd(s) ELSE q
<1>1. /\ N \in Nat /\ Start(w) \in Nat /\ q \in Nat /\ End(w) \in Nat
      /\ q = End(w) + Threshold + 1 /\ Threshold \in Nat
      /\ \A i \in 1..N : history[i].time \in Nat /\ history[i].value \in {"active", "normal", "bad"}
  BY HistoryTyped, WindowTimes DEF Value
<1>2. \A i, m \in 1..N : i <= m => history[i].time <= history[m].time
  BY HistoryTyped DEF HistoryInv
<1>3. /\ j \in 1..N /\ history[j].value = "active"
      /\ Start(w) <= s /\ s < End(w) /\ s \in Nat
  BY <1>1 DEF Begins
<1>4. Qualifies(s, q)
  BY <1>1, <1>3 DEF Qualifies
<1> HIDE DEF N, s, q
<1>5. ASSUME NEW k \in Over(j)
      PROVE  /\ k \in 1..N /\ j < k /\ history[k].value = "normal"
             /\ q <= history[k].time /\ history[k].time \in Nat
  <2>1. k \in 1..N /\ j < k /\ history[k].value = "normal" /\ history[k].time \in Nat
    BY <1>1, <1>3 DEF Over, N
  <2>2. Start(w) <= history[k].time
    <3>1. history[j].time <= history[k].time
      BY <1>2, <1>3, <2>1
    <3> QED
      BY <1>1, <1>3, <2>1, <3>1 DEF s
  <2>3. ASSUME history[k].time < q PROVE FALSE
    <3>1. k \in Seen(w, N)
      BY <2>1, <2>2, <2>3 DEF Seen, q
    <3> QED
      BY <2>1, <3>1 DEF Lasts, N
  <2> QED
    BY <1>1, <2>1, <2>3
<1>6. Over(j) # {} => \E k \in Over(j) : EndOf(j) = history[k].time /\ \A m \in Over(j) : k <= m
  BY <1>3, EndIsFirst DEF N
<1>7. Over(j) = {} \/ Qualifies(s, EndOf(j))
  <2> SUFFICES ASSUME Over(j) # {} PROVE Qualifies(s, EndOf(j))
    OBVIOUS
  <2>1. PICK k \in Over(j) : EndOf(j) = history[k].time
    BY <1>6
  <2>2. q <= history[k].time /\ history[k].time \in Nat
    BY <1>5
  <2> QED
    BY <1>1, <1>3, <1>4, <2>1, <2>2 DEF Qualifies
<1>8. /\ SearchEnd(s) \in Nat /\ p \in 0..N
      /\ p = 0 => \A i \in 1..N : q <= history[i].time /\ history[i].time < SearchEnd(s) =>
                                   history[i].value = "active"
      /\ p # 0 => /\ q <= history[p].time /\ history[p].time < SearchEnd(s)
                  /\ history[p].value # "active"
                  /\ \A i \in 1..N : q <= history[i].time /\ i < p => history[i].value = "active"
  BY <1>1, <1>3, FindNextIsFirst DEF N
<1>9. p # 0 => history[p].value # "bad"
  BY DEF s, q
<1> HIDE DEF p
<1>10. CASE p = 0
  <2>1. ~ (Over(j) # {} /\ EndOf(j) < limit)
    <3> SUFFICES ASSUME Over(j) # {}, EndOf(j) < limit PROVE FALSE
      OBVIOUS
    <3>1. PICK k \in Over(j) : EndOf(j) = history[k].time
      BY <1>6
    <3>2. /\ k \in 1..N /\ history[k].value = "normal"
          /\ q <= history[k].time /\ history[k].time \in Nat
      BY <1>5
    <3>3. history[k].time < SearchEnd(s)
      BY <1>1, <1>8, <3>1, <3>2
    <3> QED
      BY <1>8, <1>10, <3>2, <3>3
  <2>2. EventOf(w, j) = Event(s, limit, TRUE)
    BY <2>1 DEF EventOf, s, q
  <2>3. Recovered(w, s) = Event(s, limit, TRUE)
    BY <1>10 DEF Recovered, p, q
  <2> QED
    BY <1>4, <1>7, <2>2, <2>3 DEF s, q
<1>11. CASE p # 0
  <2>1. /\ p \in 1..N /\ history[p].value = "normal" /\ history[p].time \in Nat
        /\ q <= history[p].time /\ history[p].time < SearchEnd(s)
    BY <1>1, <1>8, <1>9, <1>11
  <2>2. j < p
    <3> SUFFICES ASSUME p <= j PROVE FALSE
      BY <1>3, <2>1
    <3>1. history[p].time <= s
      BY <1>2, <1>3, <2>1 DEF s
    <3> QED
      BY <1>1, <1>3, <2>1, <3>1
  <2>3. p \in Over(j)
    BY <1>1, <1>3, <2>1, <2>2 DEF Over, N
  <2>4. PICK k \in Over(j) : EndOf(j) = history[k].time /\ \A m \in Over(j) : k <= m
    BY <1>6, <2>3
  <2>5. k = p
    <3>1. k \in 1..N /\ history[k].value = "normal" /\ q <= history[k].time /\ k <= p
      BY <1>5, <2>3, <2>4
    <3> QED
      BY <1>8, <1>11, <2>1, <3>1
  <2>6. EndOf(j) = history[p].time /\ EndOf(j) < limit
    BY <1>1, <1>8, <2>1, <2>4, <2>5
  <2>7. EventOf(w, j) = Event(s, history[p].time, FALSE)
    BY <2>3, <2>6 DEF EventOf, s, q
  <2>8. Recovered(w, s) = Event(s, history[p].time, FALSE)
    BY <1>11 DEF Recovered, p, q
  <2> QED
    BY <1>4, <1>7, <2>7, <2>8 DEF s, q
<1> QED
  BY <1>10, <1>11

\* The state machine finds what the README describes, whatever the history: unless it
\* meets a rejected value, the events of an evaluation are the true ones.
LEMMA EvaluateIsTrue ==
  ASSUME HistoryInv, NEW w \in Window, Evaluate(w) # Raised
  PROVE  /\ Evaluate(w) = [status |-> "done", events |-> TrueEvents(w)]
<1> DEFINE N == Len(history)
           S == Seen(w, N)
           s == Start(w)
           q == QueryEnd(w)
           d == Detect(w)
           open == {x \in OpenStarts(w, d) : Owned(w, x)}
           closed == {f \in d.found : Owned(w, f.start)}
           events == {Event(o.start, o.end, FALSE) : o \in closed}
                       \cup {Recovered(w, x) : x \in open}
           true == {j \in Begins(w) : Over(j) = {} \/ Qualifies(history[j].time, EndOf(j))}
<1>1. /\ d.mode # "error"
      /\ \A x \in open : ~ (FindNext(x, q) # 0 /\ history[FindNext(x, q)].value = "bad")
      /\ Evaluate(w) = [status |-> "done", events |-> events]
  BY DEF Evaluate
<1>2. KnowsTheLast(S, d) /\ KnowsTheOpen(S, s, d) /\ KnowsTheClosed(S, s, d) /\ d \in DetectorState
  BY <1>1, DetectKnows DEF Knows
<1>3. Begins(w) = {j \in Begun(S, s) : history[j].time < End(w)}
  BY BeginsAreSeen
<1>4. /\ s \in Nat /\ q \in Nat /\ End(w) \in Nat
      /\ \A j \in Begins(w) : /\ history[j].time \in Nat /\ history[j].time # 0
                              /\ s <= history[j].time /\ history[j].time < End(w)
  <2>1. \A j \in Begins(w) : /\ j \in 1..Len(history) /\ s <= history[j].time
                             /\ history[j].time < End(w)
    BY HistoryTyped DEF Begins
  <2> QED
    BY <2>1, HistoryTyped, WindowTimes
<1>5. /\ d.start \in Nat /\ \A f \in d.found : f.start \in Nat
      /\ d.found \subseteq [start : Nat, end : Nat]
  BY <1>2 DEF DetectorState
<1>6. \A x : Owned(w, x) <=> s <= x /\ x < End(w)
  BY DEF Owned
<1>7. \A x : x \in OpenStarts(w, d) <=> /\ x = d.start /\ d.mode = "alarm" /\ x # 0
                                        /\ Qualifies(x, q)
  BY DEF OpenStarts
<1> HIDE DEF S, s, q, d
\* What it closed is an alarm, with its end.
<1>8. ASSUME NEW o \in closed
      PROVE  \E j \in true : EventOf(w, j) = Event(o.start, o.end, FALSE)
  <2>1. PICK j \in Begun(S, s), k \in S :
           /\ Ends(S, j, k) /\ o = Interval(j, k) /\ Qualifies(history[j].time, history[k].time)
    BY <1>2, <1>6 DEF KnowsTheClosed
  <2>2. o.start = history[j].time /\ o.end = history[k].time
    BY <2>1 DEF Interval
  <2>3. j \in Begins(w)
    BY <1>3, <1>6, <2>2
  <2>4. /\ EndOf(j) = history[k].time
        /\ EventOf(w, j) = Event(history[j].time, history[k].time, FALSE)
    BY <2>1, <2>3, ClosedEvent DEF S
  <2> QED
    BY <2>1, <2>2, <2>3, <2>4
\* What is open is one, with its end.
<1>9. ASSUME NEW x \in open
      PROVE  \E j \in true : EventOf(w, j) = Recovered(w, x)
  <2>1. x = d.start /\ x # 0 /\ s <= x /\ x < End(w)
    BY <1>6, <1>7
  <2>2. PICK j \in Begun(S, s) : /\ history[j].time = x
                                 /\ \A k \in S : j <= k => history[k].value = "active"
    BY <1>2, <2>1 DEF KnowsTheOpen
  <2>3. j \in Begins(w) /\ j \in Int
    BY <1>3, <2>1, <2>2 DEF Begins
  <2>4. Lasts(S, j)
    <3>1. S \subseteq Int
      BY HistoryTyped, PreviousIsLast, WindowTimes DEF S, Seen, IsPrevious
    <3>2. ASSUME NEW k \in S, j < k PROVE history[k].value = "active"
      <4>1. j <= k
        BY <2>3, <3>1, <3>2
      <4> QED
        BY <2>2, <4>1
    <3> QED
      BY <3>2 DEF Lasts
  <2>5. ~ (FindNext(x, q) # 0 /\ history[FindNext(x, q)].value = "bad")
    BY <1>1
  <2>6. Recovered(w, x) = EventOf(w, j) /\ (Over(j) = {} \/ Qualifies(history[j].time, EndOf(j)))
    BY <2>2, <2>3, <2>4, <2>5, OpenEvent DEF S, q
  <2> QED
    BY <2>3, <2>6
\* No alarm that lasts too long is left out.
<1>10. ASSUME NEW j \in true
       PROVE  \/ \E o \in closed : EventOf(w, j) = Event(o.start, o.end, FALSE)
              \/ \E x \in open : EventOf(w, j) = Recovered(w, x)
  <2>1. j \in Begun(S, s) /\ j \in Begins(w)
    BY <1>3
  <2>2. CASE Lasts(S, j)
    <3>1. d.start = history[j].time /\ d.start # 0 /\ d.mode = "alarm"
      BY <1>2, <1>4, <2>1, <2>2 DEF KnowsTheOpen
    <3>2. Qualifies(history[j].time, q)
      <4>1. q = End(w) + Threshold + 1 /\ Threshold \in Nat
        BY WindowTimes DEF q
      <4> QED
        BY <1>4, <2>1, <4>1 DEF Qualifies
    <3>3. d.start \in open
      BY <1>4, <1>6, <1>7, <2>1, <3>1, <3>2
    <3>4. ~ (FindNext(d.start, q) # 0 /\ history[FindNext(d.start, q)].value = "bad")
      BY <1>1, <3>3
    <3>5. EventOf(w, j) = Recovered(w, d.start)
      BY <2>1, <2>2, <3>1, <3>4, OpenEvent DEF S, q
    <3> QED
      BY <3>3, <3>5
  <2>3. CASE ~ Lasts(S, j)
    <3>1. S \subseteq Nat
      BY HistoryTyped, PreviousIsLast, WindowTimes DEF S, Seen, IsPrevious
    <3> DEFINE T == {k \in S : j < k /\ history[k].value = "normal"}
    <3>2. PICK k \in T : \A m \in T : k <= m
      <4>1. T \subseteq Nat /\ T # {}
        BY <2>3, <3>1 DEF Lasts
      <4> HIDE DEF T
      <4> QED
        BY <4>1, LeastNumber
    <3>3. Ends(S, j, k) /\ k \in S
      BY <3>1, <3>2 DEF Ends
    <3>4. /\ Over(j) # {} /\ EndOf(j) = history[k].time
          /\ EventOf(w, j) = Event(history[j].time, history[k].time, FALSE)
      BY <2>1, <3>3, ClosedEvent DEF S
    <3>5. Qualifies(history[j].time, history[k].time)
      BY <3>4
    <3>6. Interval(j, k) \in d.found
      BY <1>2, <2>1, <3>3, <3>5 DEF KnowsTheClosed
    <3>7. Interval(j, k).start = history[j].time /\ Interval(j, k).end = history[k].time
      BY DEF Interval
    <3>8. Interval(j, k) \in closed
      BY <1>4, <1>6, <2>1, <3>6, <3>7
    <3> QED
      BY <3>4, <3>7, <3>8
  <2> QED
    BY <2>2, <2>3
<1> HIDE DEF open, closed, true
<1>11. events = {EventOf(w, j) : j \in true}
  BY <1>8, <1>9, <1>10
<1>12. TrueEvents(w) = {EventOf(w, j) : j \in true}
  BY DEF TrueEvents, true
<1> QED
  BY <1>1, <1>11, <1>12

-----------------------------------------------------------------------------
\* The history only grows, by readings that are later than all it had.
LEMMA HistoryGrows ==
  ASSUME HistoryInv, Record
  PROVE  /\ HistoryInv'
         /\ Len(history) <= Len(history') /\ now <= now'
         /\ \A i \in 1..Len(history) : history'[i] = history[i]
         /\ \A i \in (Len(history) + 1)..Len(history') : history'[i].time = now
<1> DEFINE N == Len(history)
<1>1. PICK r \in Reading :
        history' = history \o [i \in DOMAIN r |-> [time |-> now, value |-> r[i]]]
  BY DEF Record
<1> DEFINE new == [i \in DOMAIN r |-> [time |-> now, value |-> r[i]]]
<1>2. r \in Seq(Value) /\ now \in Nat \ {0} /\ history \in Seq(Sample)
  BY ReadingAssumption DEF HistoryInv
<1>3. new \in Seq(Sample) /\ Len(new) = Len(r) /\ \A i \in 1..Len(r) : new[i].time = now
  <2>1. Len(r) \in Nat /\ DOMAIN r = 1..Len(r) /\ \A i \in 1..Len(r) : r[i] \in Value
    BY <1>2
  <2>2. \A i \in 1..Len(r) : [time |-> now, value |-> r[i]] \in Sample
    BY <1>2, <2>1 DEF Sample
  <2>3. new = [i \in 1..Len(r) |-> [time |-> now, value |-> r[i]]]
    BY <2>1
  <2>4. new \in [1..Len(r) -> Sample]
    BY <2>2, <2>3
  <2>5. new \in Seq(Sample) /\ Len(new) = Len(r)
    <3> HIDE DEF new
    <3> QED
      BY <2>1, <2>4
  <2> QED
    BY <2>3, <2>5
<1> HIDE DEF new
<1>4. /\ history' \in Seq(Sample) /\ N \in Nat /\ Len(r) \in Nat /\ Len(history') = N + Len(r)
      /\ \A i \in 1..N : history'[i] = history[i]
      /\ \A i \in (N + 1)..(N + Len(r)) : history'[i] = new[i - N]
  <2>1. history' = history \o new
    BY <1>1 DEF new
  <2>2. Len(r) \in Nat /\ N \in Nat
    BY <1>2
  <2>3. history \o new \in Seq(Sample)
    BY <1>2, <1>3
  <2>4. /\ Len(history \o new) = N + Len(r)
        /\ \A i \in 1..(N + Len(r)) :
             (history \o new)[i] = IF i <= N THEN history[i] ELSE new[i - N]
    BY <1>2, <1>3
  <2> HIDE DEF N
  <2>5. /\ \A i \in 1..N : i \in 1..(N + Len(r)) /\ i <= N
        /\ \A i \in (N + 1)..(N + Len(r)) : i \in 1..(N + Len(r)) /\ ~ (i <= N)
    BY <2>2
  <2> QED
    BY <2>1, <2>2, <2>3, <2>4, <2>5
<1>5. now' = now + 1
  BY DEF Record
<1>6. DOMAIN history = 1..N /\ DOMAIN history' = 1..Len(history')
  BY <1>2, <1>4
<1>7. \A i \in (N + 1)..Len(history') : history'[i].time = now
  BY <1>3, <1>4
<1>8. /\ \A i \in 1..N : history[i].time < now /\ history[i].time \in Nat
      /\ \A i, j \in 1..N : i <= j => history[i].time <= history[j].time
  BY <1>6, HistoryTyped DEF HistoryInv
<1>9. \A i \in 1..Len(history') : i \in 1..N \/ i \in (N + 1)..Len(history')
  BY <1>4
<1>10. \A i \in 1..Len(history') : history'[i].time < now' /\ history'[i].time <= now
  BY <1>2, <1>4, <1>5, <1>7, <1>8, <1>9
<1>11. ASSUME NEW i \in 1..Len(history'), NEW j \in 1..Len(history'), i <= j
       PROVE  history'[i].time <= history'[j].time
  <2>1. CASE j \in 1..N
    <3>1. i \in 1..N
      BY <1>4, <1>11, <2>1
    <3> QED
      BY <1>4, <1>8, <1>11, <2>1, <3>1
  <2>2. CASE j \notin 1..N
    BY <1>7, <1>9, <1>10, <2>2
  <2> QED
    BY <2>1, <2>2
<1>12. HistoryInv'
  BY <1>2, <1>4, <1>5, <1>6, <1>10, <1>11 DEF HistoryInv
<1> QED
  BY <1>2, <1>4, <1>5, <1>7, <1>12

HistoryKept == HistoryInv /\ DOMAIN result = Window

LEMMA HistoryStep ==
  ASSUME HistoryKept, [Next]_vars
  PROVE  HistoryKept'
<1>1. CASE Record
  BY <1>1, HistoryGrows DEF HistoryKept, Record
<1>2. ASSUME NEW w \in Window, Assess(w) PROVE HistoryKept'
  BY <1>2 DEF HistoryKept, HistoryInv, Assess
<1>3. CASE UNCHANGED vars
  BY <1>3 DEF HistoryKept, HistoryInv, vars
<1> QED
  BY <1>1, <1>2, <1>3 DEF Next

LEMMA HistoryInvariant == Spec => []HistoryKept
<1>1. Init => HistoryKept
  BY DEF Init, HistoryKept, HistoryInv
<1>2. HistoryKept /\ [Next]_vars => HistoryKept'
  BY HistoryStep
<1> QED
  BY <1>1, <1>2, PTL DEF Spec

\* An assessment charges exactly the alarms that begin in the window and last longer
\* than the threshold, with their ends.
THEOREM AssessmentsFindTheAlarms == Spec => FindsTheAlarms
<1>1. HistoryKept /\ [Next]_vars =>
        [\A w \in Window : Assessed(w)' /\ ~Assessed(w) => result'[w].events = TrueEvents(w)]_vars
  <2> SUFFICES ASSUME HistoryKept, Next, NEW w \in Window, Assessed(w)', ~Assessed(w)
               PROVE  result'[w].events = TrueEvents(w)
    BY DEF vars
  <2>1. CASE Record
    BY <2>1 DEF Record, Assessed
  <2>2. ASSUME NEW v \in Window, Assess(v) PROVE result'[w].events = TrueEvents(w)
    <3>1. result' = [result EXCEPT ![v] = Evaluate(v)] /\ DOMAIN result = Window
      BY <2>2 DEF Assess, HistoryKept
    <3>2. v = w /\ result'[w] = Evaluate(w)
      BY <3>1 DEF Assessed
    <3>3. Evaluate(w) # Raised
      BY <3>2 DEF Assessed, Raised
    <3> QED
      BY <3>2, <3>3, EvaluateIsTrue DEF HistoryKept
  <2> QED
    BY <2>1, <2>2 DEF Next
<1> QED
  BY <1>1, HistoryInvariant, PTL DEF Spec, FindsTheAlarms

-----------------------------------------------------------------------------
(* What was charged once the query range was over: an event for each alarm *)
(* of the window that lasts longer than the threshold, and no other.       *)

\* Every normal reading after i comes later than the threshold.
LastsTooLong(i) == \A k \in Over(i) : Qualifies(history[i].time, history[k].time)

IsEventOf(w, i, e) ==
  /\ i \in Begins(w) /\ LastsTooLong(i) /\ e.start = history[i].time
  /\ ~ e.open => e = EventOf(w, i)

Charges(w, events) ==
  /\ \A e \in events : \E i \in Begins(w) : IsEventOf(w, i, e)
  /\ \A i \in Begins(w) : LastsTooLong(i) => \E e \in events : e.start = history[i].time
  /\ \A e, f \in events : e.start = f.start => e = f

ChargesKept ==
  /\ HistoryKept
  /\ \A w \in Window : Assessed(w) => QueryEnd(w) <= now /\ Charges(w, result[w].events)

\* An alarm with an event begins in the range of the history.
LEMMA BeginsInHistory ==
  ASSUME HistoryInv, NEW w \in Window, NEW i \in Begins(w)
  PROVE  /\ i \in 1..Len(history) /\ i - 1 \in 1..Len(history) /\ Len(history) \in Nat
         /\ history[i].value = "active" /\ history[i - 1].value = "normal"
         /\ history[i].time \in Nat /\ history[i - 1].time \in Nat
         /\ Start(w) <= history[i].time /\ history[i].time < End(w)
         /\ history[i - 1].time <= history[i].time
<1>1. i \in 2..Len(history) /\ Len(history) \in Nat
  BY HistoryTyped DEF Begins
<1>2. i \in 1..Len(history) /\ i - 1 \in 1..Len(history)
  BY <1>1
<1>3. history[i - 1].time <= history[i].time
  BY <1>2, HistoryTyped DEF HistoryInv
<1> QED
  BY <1>1, <1>2, <1>3, HistoryTyped DEF Begins

\* Two alarms of any windows that begin one before the other have a normal reading
\* between them, and the first one, if it lasts too long, begins earlier.
LEMMA NormalBetween ==
  ASSUME HistoryInv, NEW v \in Window, NEW w \in Window, NEW i \in Begins(v), NEW j \in Begins(w),
         i < j, LastsTooLong(i)
  PROVE  /\ j - 1 \in Over(i)
         /\ history[i].time < history[j - 1].time /\ history[j - 1].time <= history[j].time
<1>1. /\ i \in 1..Len(history) /\ j \in 1..Len(history) /\ j - 1 \in 1..Len(history)
      /\ history[i].value = "active" /\ history[j - 1].value = "normal"
      /\ Len(history) \in Nat
      /\ history[i].time \in Nat /\ history[j - 1].time \in Nat
      /\ history[j - 1].time <= history[j].time
  BY BeginsInHistory
<1>2. j - 1 \in Over(i)
  <2>1. j - 1 # i /\ j - 1 \in (i + 1)..Len(history)
    BY <1>1
  <2> QED
    BY <1>1, <2>1 DEF Over
<1>3. history[j - 1].time - history[i].time > Threshold /\ Threshold \in Nat
  BY <1>2, WindowsAssumption DEF LastsTooLong, Qualifies
<1> QED
  BY <1>1, <1>2, <1>3

\* Lasting too long is to end too late, if it ends.
LEMMA LastsToItsEnd ==
  ASSUME HistoryInv, NEW w \in Window, NEW i \in Begins(w)
  PROVE  LastsTooLong(i) <=> Over(i) = {} \/ Qualifies(history[i].time, EndOf(i))
<1>1. CASE Over(i) = {}
  BY <1>1 DEF LastsTooLong
<1>2. CASE Over(i) # {}
  <2>1. i \in 1..Len(history)
    BY BeginsInHistory
  <2>2. PICK k \in Over(i) : EndOf(i) = history[k].time /\ \A m \in Over(i) : k <= m
    BY <1>2, <2>1, EndIsFirst
  <2>3. \A m \in Over(i) : m \in 1..Len(history)
    BY <2>1, HistoryTyped DEF Over
  <2>4. \A m \in Over(i) : history[k].time <= history[m].time
    BY <2>2, <2>3, HistoryTyped DEF HistoryInv
  <2>5. \A m \in Over(i) : history[m].time \in Nat
    BY <2>3, HistoryTyped
  <2>6. history[i].time \in Nat /\ Threshold \in Nat
    BY <2>1, HistoryTyped, WindowsAssumption
  <2> QED
    BY <1>2, <2>2, <2>4, <2>5, <2>6 DEF LastsTooLong, Qualifies
<1> QED
  BY <1>1, <1>2

\* What is true of the window is what it should be charged with.
LEMMA TrueEventsCharge ==
  ASSUME HistoryInv, NEW w \in Window
  PROVE  Charges(w, TrueEvents(w))
<1>1. TrueEvents(w) = {EventOf(w, i) : i \in {j \in Begins(w) : LastsTooLong(j)}}
  BY LastsToItsEnd DEF TrueEvents
<1>2. \A i \in Begins(w) : EventOf(w, i).start = history[i].time
  BY DEF EventOf, Event
<1>3. ASSUME NEW i \in Begins(w), NEW j \in Begins(w), LastsTooLong(i), LastsTooLong(j),
             history[i].time = history[j].time
      PROVE  i = j
  <2>1. i \in Nat /\ j \in Nat /\ history[i].time \in Nat
    BY BeginsInHistory
  <2>2. ~ (i < j)
    BY <1>3, <2>1, NormalBetween, BeginsInHistory
  <2>3. ~ (j < i)
    BY <1>3, <2>1, NormalBetween, BeginsInHistory
  <2> QED
    BY <2>1, <2>2, <2>3
<1> QED
  BY <1>1, <1>2, <1>3 DEF Charges, IsEventOf

\* A reading after the query range of w begins no alarm of w, shortens none below the
\* threshold, and leaves the ends that are known.
LEMMA LaterKeepsCharges ==
  ASSUME HistoryInv, Record, NEW w \in Window, QueryEnd(w) <= now,
         NEW events, Charges(w, events)
  PROVE  Charges(w, events)'
<1> DEFINE N == Len(history)
           M == Len(history')
<1>1. /\ N \in Nat /\ M \in Nat /\ N <= M /\ now \in Nat
      /\ \A i \in 1..N : history'[i] = history[i] /\ history[i].time \in Nat
      /\ \A i \in (N + 1)..M : history'[i].time = now
  <2>1. HistoryInv' /\ now \in Nat
    BY HistoryGrows DEF HistoryInv
  <2>2. M \in Nat
    BY <2>1 DEF HistoryInv
  <2> QED
    BY <2>1, <2>2, HistoryGrows, HistoryTyped
<1>2. /\ Start(w) \in Nat /\ End(w) \in Nat /\ Threshold \in Nat
      /\ End(w) + Threshold + 1 <= now
  BY WindowTimes
<1> HIDE DEF N, M
<1>3. Begins(w)' = {i \in 2..M : /\ history'[i].value = "active"
                                 /\ Start(w) <= history'[i].time /\ history'[i].time < End(w)
                                 /\ history'[i - 1].value = "normal"
                                 /\ history'[i - 1].time >= Start(w) - Reach}
  BY DEF Begins, Reach, M
<1>4. Begins(w) = {i \in 2..N : /\ history[i].value = "active"
                                /\ Start(w) <= history[i].time /\ history[i].time < End(w)
                                /\ history[i - 1].value = "normal"
                                /\ history[i - 1].time >= Start(w) - Reach}
  BY DEF Begins, Reach, N
<1>5. Begins(w)' = Begins(w)
  <2>1. ASSUME NEW i \in Begins(w)' PROVE i \in 2..N
    <3>1. i \in 2..M /\ history'[i].time < End(w)
      BY <1>3
    <3>2. i \notin (N + 1)..M
      BY <1>1, <1>2, <3>1
    <3> QED
      BY <1>1, <3>1, <3>2
  <2>2. \A i \in 2..N : i \in 2..M /\ history'[i] = history[i] /\ history'[i - 1] = history[i - 1]
    BY <1>1
  <2> QED
    BY <1>3, <1>4, <2>1, <2>2
<1>6. ASSUME NEW i \in Begins(w)
      PROVE  /\ i \in 1..N /\ history'[i] = history[i] /\ history[i].time \in Nat
             /\ history[i].time < End(w)
             /\ Over(i) \subseteq Over(i)'
             /\ Over(i) \subseteq 1..N
             /\ \A k \in Over(i)' : \/ k \in Over(i)
                                    \/ history'[k].time = now /\ \A m \in Over(i) : m < k
  <2>1. i \in 1..N /\ history'[i] = history[i] /\ history[i].time \in Nat /\ history[i].time < End(w)
    BY <1>1, <1>4
  <2>2. /\ Over(i) = {j \in (i + 1)..N : history[j].value = "normal"}
        /\ Over(i)' = {j \in (i + 1)..M : history'[j].value = "normal"}
    BY DEF Over, N, M
  <2>3. Over(i) \subseteq Over(i)' /\ Over(i) \subseteq 1..N
    BY <1>1, <2>1, <2>2
  <2>4. ASSUME NEW k \in Over(i)'
        PROVE  \/ k \in Over(i)
               \/ history'[k].time = now /\ \A m \in Over(i) : m < k
    <3>1. CASE k \in 1..N
      BY <1>1, <2>1, <2>2, <3>1
    <3>2. CASE k \notin 1..N
      <4>1. k \in (N + 1)..M
        BY <1>1, <2>1, <2>2, <3>2
      <4> QED
        BY <1>1, <2>3, <4>1
    <3> QED
      BY <3>1, <3>2
  <2> QED
    BY <2>1, <2>3, <2>4
<1>7. ASSUME NEW i \in Begins(w) PROVE LastsTooLong(i)' <=> LastsTooLong(i)
  <2>1. \A k \in Over(i) : history'[k] = history[k]
    BY <1>1, <1>6
  <2>2. \A k \in Over(i)' : history'[k].time = now => Qualifies(history'[i].time, history'[k].time)
    BY <1>1, <1>2, <1>6 DEF Qualifies
  <2>3. LastsTooLong(i)' <=> \A k \in Over(i)' : Qualifies(history'[i].time, history'[k].time)
    BY DEF LastsTooLong, Qualifies
  <2> QED
    BY <1>6, <2>1, <2>2, <2>3 DEF LastsTooLong
<1>8. ASSUME NEW i \in Begins(w), ~ EventOf(w, i).open
      PROVE  EventOf(w, i)' = EventOf(w, i)
  <2> DEFINE limit == IF SearchEnd(history[i].time) > QueryEnd(w)
                      THEN SearchEnd(history[i].time) ELSE QueryEnd(w)
  <2>1. Over(i) # {} /\ EndOf(i) < limit
    BY <1>8 DEF EventOf, Event
  <2>2. Over(i)' # {} /\ history'[i].time = history[i].time
    BY <1>6, <2>1
  <2>3. EndOf(i)' = EndOf(i)
    <3>1. PICK k \in Over(i) : EndOf(i) = history[k].time /\ \A m \in Over(i) : k <= m
      BY <1>6, <2>1, EndIsFirst DEF N
    <3>2. k \in Nat /\ k \in Over(i)' /\ history'[k] = history[k]
      BY <1>1, <1>6, <3>1
    <3>3. \A m \in Over(i)' : k <= m
      <4>1. \A m \in Over(i)' : m \in Nat
        BY <1>1, <1>6 DEF Over
      <4> QED
        BY <1>6, <3>1, <3>2, <4>1
    <3>4. Over(i)' \subseteq Nat
      BY <1>1, <1>6 DEF Over
    <3>5. Min(Over(i)') \in Over(i)' /\ \A m \in Over(i)' : Min(Over(i)') <= m
      BY <2>2, <3>4, MinIsLeast
    <3>6. Min(Over(i)') = k
      BY <3>2, <3>3, <3>4, <3>5
    <3>7. EndOf(i)' = history'[Min(Over(i)')].time
      BY DEF EndOf
    <3> QED
      BY <3>1, <3>2, <3>6, <3>7
  <2> QED
    BY <2>1, <2>2, <2>3 DEF EventOf
<1>9. ASSUME NEW i \in Begins(w), NEW e, IsEventOf(w, i, e)
      PROVE  IsEventOf(w, i, e)'
  <2>1. ~ e.open => e = EventOf(w, i)'
    BY <1>8, <1>9 DEF IsEventOf
  <2>2. i \in Begins(w)' /\ LastsTooLong(i)' /\ e.start = history'[i].time
    BY <1>5, <1>6, <1>7, <1>9 DEF IsEventOf
  <2> QED
    BY <2>1, <2>2 DEF IsEventOf
<1>10. \A e \in events : \E i \in Begins(w)' : IsEventOf(w, i, e)'
  BY <1>5, <1>9 DEF Charges
<1>11. \A i \in Begins(w)' : LastsTooLong(i)' => \E e \in events : e.start = history'[i].time
  BY <1>5, <1>6, <1>7 DEF Charges
<1> QED
  BY <1>10, <1>11 DEF Charges

LEMMA ChargesStep ==
  ASSUME Settled, ChargesKept, [Next]_vars
  PROVE  ChargesKept'
<1>1. HistoryKept' /\ HistoryInv /\ DOMAIN result = Window /\ now \in Nat
  <2>1. HistoryKept'
    BY HistoryStep DEF ChargesKept
  <2> QED
    BY <2>1 DEF ChargesKept, HistoryKept, HistoryInv
<1>2. CASE Record
  <2> SUFFICES ASSUME NEW w \in Window, Assessed(w)'
               PROVE  QueryEnd(w) <= now' /\ Charges(w, result[w].events)'
    BY <1>1 DEF ChargesKept
  <2>1. result' = result /\ now' = now + 1
    BY <1>2 DEF Record
  <2>2. QueryEnd(w) <= now /\ Charges(w, result[w].events)
    BY <2>1 DEF ChargesKept, Assessed
  <2>3. \A events : Charges(w, events) => Charges(w, events)'
    BY <1>1, <1>2, <2>2, LaterKeepsCharges
  <2> QED
    BY <1>1, <2>1, <2>2, <2>3, WindowTimes
<1>3. ASSUME NEW v \in Window, Assess(v)
      PROVE  ChargesKept'
  <2>1. /\ result' = [result EXCEPT ![v] = Evaluate(v)] /\ now' = now /\ history' = history
        /\ QueryEnd(v) <= now
    BY <1>1, <1>3, WindowTimes DEF Assess
  <2> SUFFICES ASSUME NEW w \in Window, Assessed(w)'
               PROVE  QueryEnd(w) <= now' /\ Charges(w, result[w].events)'
    BY <1>1 DEF ChargesKept
  <2>2. \A events : Charges(w, events)' <=> Charges(w, events)
    BY <2>1 DEF Charges, IsEventOf, Begins, LastsTooLong, EventOf, Over, EndOf
  <2>3. CASE w = v
    <3>1. result'[w] = Evaluate(w) /\ Evaluate(w) # Raised
      BY <1>1, <2>1, <2>3 DEF Assessed, Raised
    <3>2. result'[w].events = TrueEvents(w)
      BY <1>1, <3>1, EvaluateIsTrue
    <3> QED
      BY <1>1, <2>1, <2>2, <2>3, <3>2, TrueEventsCharge
  <2>4. CASE w # v
    <3>1. result'[w] = result[w] /\ Assessed(w)
      BY <1>1, <2>1, <2>4 DEF Assessed
    <3> QED
      BY <2>1, <2>2, <3>1 DEF ChargesKept
  <2> QED
    BY <2>3, <2>4
<1>4. CASE UNCHANGED vars
  <2>1. result' = result /\ now' = now /\ history' = history
    BY <1>4 DEF vars
  <2>2. \A events : \A w \in Window : Charges(w, events)' <=> Charges(w, events)
    BY <2>1 DEF Charges, IsEventOf, Begins, LastsTooLong, EventOf, Over, EndOf
  <2> QED
    BY <1>1, <2>1, <2>2 DEF ChargesKept, Assessed
<1> QED
  BY <1>2, <1>3, <1>4 DEF Next

LEMMA ChargesInvariant ==
  ASSUME Settled
  PROVE  Spec => []ChargesKept
<1>1. Init => ChargesKept
  BY DEF Init, ChargesKept, HistoryKept, HistoryInv, Assessed, NotAssessed
<1>2. ChargesKept /\ [Next]_vars => ChargesKept'
  BY ChargesStep
<1> QED
  BY <1>1, <1>2, PTL DEF Spec

\* If each window is assessed after its query range, an alarm is charged once, to one
\* window: two events have a normal reading between their starts.
THEOREM AlarmsAreChargedOnce ==
  ASSUME Settled
  PROVE  Spec => []AlarmChargedOnce
<1>1. ChargesKept => AlarmChargedOnce
  <2> SUFFICES ASSUME ChargesKept, NEW v \in Window, NEW w \in Window, Assessed(v), Assessed(w),
                      NEW e \in result[v].events, NEW f \in result[w].events,
                      v # w \/ e # f, e.start <= f.start
               PROVE  \E k \in DOMAIN history :
                        /\ history[k].value = "normal"
                        /\ e.start < history[k].time /\ history[k].time <= f.start
    BY DEF AlarmChargedOnce
  <2>1. HistoryInv /\ Charges(v, result[v].events) /\ Charges(w, result[w].events)
    BY DEF ChargesKept, HistoryKept
  <2>2. PICK i \in Begins(v) : IsEventOf(v, i, e)
    BY <2>1 DEF Charges
  <2>3. PICK j \in Begins(w) : IsEventOf(w, j, f)
    BY <2>1 DEF Charges
  <2>4. /\ e.start = history[i].time /\ LastsTooLong(i)
        /\ f.start = history[j].time /\ LastsTooLong(j)
    BY <2>2, <2>3 DEF IsEventOf
  <2>5. /\ i \in Nat /\ history[i].time \in Nat
        /\ Start(v) <= history[i].time /\ history[i].time < End(v)
    BY <2>1, BeginsInHistory
  <2>6. /\ j \in Nat /\ history[j].time \in Nat
        /\ Start(w) <= history[j].time /\ history[j].time < End(w)
    BY <2>1, BeginsInHistory
  <2>7. i # j
    <3> SUFFICES ASSUME i = j PROVE FALSE
      OBVIOUS
    <3>1. v = w
      BY <2>5, <2>6, WindowsApart
    <3>2. e = f
      BY <2>1, <2>4, <3>1 DEF Charges
    <3> QED
      BY <3>1, <3>2
  <2>8. ~ (j < i)
    <3> SUFFICES ASSUME j < i PROVE FALSE
      OBVIOUS
    <3>1. history[j].time < history[i - 1].time /\ history[i - 1].time <= history[i].time
      BY <2>1, <2>4, NormalBetween
    <3>2. history[i - 1].time \in Nat
      BY <2>1, BeginsInHistory
    <3> QED
      BY <2>4, <2>5, <2>6, <3>1, <3>2
  <2>9. i < j
    BY <2>5, <2>6, <2>7, <2>8
  <2>10. /\ history[i].time < history[j - 1].time /\ history[j - 1].time <= history[j].time
         /\ j - 1 \in Over(i)
    BY <2>1, <2>4, <2>9, NormalBetween
  <2>11. j - 1 \in DOMAIN history /\ history[j - 1].value = "normal"
    BY <2>1, BeginsInHistory, HistoryTyped
  <2> QED
    BY <2>4, <2>10, <2>11
<1> QED
  BY <1>1, ChargesInvariant, PTL

\* If each window is assessed after its query range, to assess it again later finds an
\* event for the same alarms, and the same one where it was closed.
THEOREM ChargesAreFinal ==
  ASSUME Settled
  PROVE  Spec => []LaterReadingsChangeNothing
<1>1. ChargesKept => LaterReadingsChangeNothing
  <2> SUFFICES ASSUME ChargesKept, NEW w \in Window, Assessed(w), Evaluate(w) # Raised
               PROVE  /\ {e.start : e \in result[w].events} = {e.start : e \in Evaluate(w).events}
                      /\ {e \in result[w].events : ~e.open} \subseteq Evaluate(w).events
    BY DEF LaterReadingsChangeNothing
  <2>1. HistoryInv /\ Charges(w, result[w].events)
    BY DEF ChargesKept, HistoryKept
  <2>2. Evaluate(w).events = TrueEvents(w)
    BY <2>1, EvaluateIsTrue
  <2>3. Charges(w, TrueEvents(w))
    BY <2>1, TrueEventsCharge
  <2>4. TrueEvents(w) = {EventOf(w, i) : i \in {j \in Begins(w) : LastsTooLong(j)}}
    BY <2>1, LastsToItsEnd DEF TrueEvents
  <2>5. {e.start : e \in result[w].events} = {e.start : e \in TrueEvents(w)}
    <3>1. ASSUME NEW e \in result[w].events
          PROVE  \E f \in TrueEvents(w) : f.start = e.start
      BY <2>1, <2>3 DEF Charges, IsEventOf
    <3>2. ASSUME NEW f \in TrueEvents(w)
          PROVE  \E e \in result[w].events : e.start = f.start
      BY <2>1, <2>3 DEF Charges, IsEventOf
    <3> QED
      BY <3>1, <3>2
  <2>6. \A e \in result[w].events : ~ e.open => e \in TrueEvents(w)
    BY <2>1, <2>4 DEF Charges, IsEventOf
  <2> QED
    BY <2>2, <2>5, <2>6
<1> QED
  BY <1>1, ChargesInvariant, PTL
=============================================================================
