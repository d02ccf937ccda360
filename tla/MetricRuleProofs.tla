-------------------------- MODULE MetricRuleProofs --------------------------
(***************************************************************************)
(* Theorems about the rules of RuleAssessment that compute a metric of the *)
(* readings and look for runs in it, for every reading, point and window:  *)
(* component_viscosity_control, which assesses means of buckets where no   *)
(* disturbance is, and flow_balance_compliance and level_rate_compliance,  *)
(* which share a detector.  They rest on what RuleAssessmentProofs proves  *)
(* of records, of segments and of the detector of exceedances.             *)
(***************************************************************************)
EXTENDS RuleAssessmentProofs

\* All of q comes before r, or with its beginning.
Precedes(q, r) == \A i \in 1..Len(q), j \in 1..Len(r) : q[i].time <= r[j].time

\* The segments of prepare_numeric_history follow each other in time.
Aligned(p) ==
  /\ \A k, m \in 1..Len(p.segments) : k < m => Precedes(p.segments[k], p.segments[m])
  /\ \A k \in 1..Len(p.segments) : Precedes(p.segments[k], p.current)

\* Closing the current segment puts it behind the others.
LEMMA ClosedSegments ==
  ASSUME NEW p, NEW samples, NEW n \in Nat, Prepared(p, samples, n)
  PROVE  CloseSegment(p).segments
           = IF p.current = <<>> THEN p.segments ELSE Append(p.segments, p.current)
<1> DEFINE a == p.segments
           b == p.current
           d == p.breaks
<1>1. p = [segments |-> a, current |-> b, breaks |-> d]
  BY DEF Prepared
<1> DEFINE x == IF b = <<>> THEN a ELSE Append(a, b)
<1>2. CloseSegment(p) = [p EXCEPT !.segments = x, !.current = <<>>]
  BY DEF CloseSegment
<1> HIDE DEF a, b, d, x
<1>3. CloseSegment(p).segments = x
  BY <1>1, <1>2
<1> QED
  BY <1>3 DEF x, a, b

\* Closing a segment keeps the segments in the order of time.
LEMMA ClosedAligned ==
  ASSUME NEW p, NEW samples, NEW n \in Nat, Prepared(p, samples, n), Aligned(p)
  PROVE  Aligned(CloseSegment(p))
<1> DEFINE a == p.segments
           b == p.current
           c == CloseSegment(p)
<1>1. c.current = <<>> /\ c.segments = IF b = <<>> THEN a ELSE Append(a, b)
  BY ClosedSegments, CloseSegmentIs
<1>2. /\ \A k, m \in 1..Len(a) : k < m => Precedes(a[k], a[m])
      /\ \A k \in 1..Len(a) : Precedes(a[k], b)
  BY DEF Aligned
<1>3. Len(a) \in Nat /\ a = [k \in 1..Len(a) |-> a[k]]
  BY DEF Prepared, IsSequence
<1> HIDE DEF a, b, c
<1>4. \A q : Precedes(q, <<>>)
  BY DEF Precedes
<1>5. ASSUME b = <<>> PROVE Aligned(c)
  BY <1>1, <1>2, <1>4, <1>5 DEF Aligned
<1>6. ASSUME b # <<>> PROVE Aligned(c)
  <2> DEFINE r == Append(a, b)
  <2>1. Len(r) = Len(a) + 1 /\ r[Len(a) + 1] = b /\ \A k \in 1..Len(a) : r[k] = a[k]
    BY <1>3, AppendIs
  <2>2. c.segments = r
    BY <1>1, <1>6
  <2> HIDE DEF r
  <2>3. ASSUME NEW k \in 1..Len(r), NEW m \in 1..Len(r), k < m
        PROVE  Precedes(r[k], r[m])
    <3>1. k \in 1..Len(a)
      BY <1>3, <2>1, <2>3
    <3>2. CASE m \in 1..Len(a)
      BY <1>2, <2>1, <2>3, <3>1, <3>2
    <3>3. CASE m = Len(a) + 1
      BY <1>2, <2>1, <3>1, <3>3
    <3> QED
      BY <1>3, <2>1, <3>2, <3>3
  <2> QED
    BY <1>1, <1>4, <2>2, <2>3 DEF Aligned
<1> QED
  BY <1>5, <1>6 DEF c

\* A reading that is not earlier than those before keeps the segments in order.
LEMMA AddAligned ==
  ASSUME NEW p, NEW samples, Timed(samples), NEW n \in 0..Len(samples), n < Len(samples),
         Prepared(p, samples, n), Aligned(p), NEW maxGap
  PROVE  Aligned(AddSample(maxGap, p, samples[n + 1]))
<1> DEFINE sample == samples[n + 1]
           t == sample.time
           late == /\ p.current # <<>> /\ maxGap # 0
                   /\ sample.time - Last(p.current).time > maxGap
           c == CloseSegment(p)
           closed == [c EXCEPT !.breaks = @ \cup {t}]
           q == IF ~sample.good \/ late THEN closed ELSE p
<1>0. Len(samples) \in Nat /\ n \in Nat /\ n + 1 \in 1..Len(samples)
  <2>1. Len(samples) \in Nat
    BY TimedShape
  <2> QED
    BY <2>1
<1>1. AddSample(maxGap, p, sample)
        = IF sample.good THEN [q EXCEPT !.current = Append(@, sample)] ELSE q
  BY DEF AddSample
<1>2. Prepared(c, samples, n) /\ Aligned(c)
  BY <1>0, ClosedAligned, CloseSegmentIs
<1>3. c = [segments |-> c.segments, current |-> c.current, breaks |-> c.breaks]
  BY <1>2 DEF Prepared
<1> HIDE DEF c, t
<1>4. closed.segments = c.segments /\ closed.current = c.current
      /\ closed = [segments |-> c.segments, current |-> c.current, breaks |-> closed.breaks]
  <2> DEFINE x == c.segments
             y == c.current
             z == c.breaks
  <2>1. c = [segments |-> x, current |-> y, breaks |-> z]
    BY <1>3
  <2> DEFINE u == z \cup {t}
  <2>2. closed = [c EXCEPT !.breaks = u]
    BY DEF z
  <2> HIDE DEF x, y, z, u, closed
  <2>3. closed = [segments |-> x, current |-> y, breaks |-> u]
    BY <2>1, <2>2
  <2>4. closed.segments = x /\ closed.current = y /\ closed.breaks = u
    BY <2>3
  <2> QED
    BY <2>3, <2>4 DEF x, y
<1> HIDE DEF closed, late
<1>5. /\ Aligned(q)
      /\ q = [segments |-> q.segments, current |-> q.current, breaks |-> q.breaks]
      /\ IsSequence(q.segments) /\ Timed(q.current)
      /\ \A k \in 1..Len(q.segments) : \A i \in 1..Len(q.segments[k]) :
           \E j \in 1..n : q.segments[k][i] = samples[j]
  <2>1. CASE q = p
    BY <2>1 DEF Prepared
  <2>2. CASE q = closed
    BY <1>2, <1>4, <2>2 DEF Prepared, Aligned
  <2> QED
    BY <2>1, <2>2
<1> HIDE DEF q
<1>6. CASE ~sample.good
  BY <1>1, <1>5, <1>6
<1>7. CASE sample.good
  <2> DEFINE a == q.segments
             b == q.current
             d == q.breaks
             e == Append(b, sample)
             r == [segments |-> a, current |-> e, breaks |-> d]
  <2>1. AddSample(maxGap, p, sample) = r
    <3> HIDE DEF a, b, d, sample
    <3>1. [[segments |-> a, current |-> b, breaks |-> d] EXCEPT !.current = Append(@, sample)] = r
      OBVIOUS
    <3>2. q = [segments |-> a, current |-> b, breaks |-> d]
      BY <1>5 DEF a, b, d
    <3> HIDE DEF r
    <3> QED
      BY <1>1, <1>7, <3>1, <3>2
  <2>2. r.segments = a /\ r.current = e
    OBVIOUS
  <2>3. /\ Timed(b)
        /\ \A k, m \in 1..Len(a) : k < m => Precedes(a[k], a[m])
        /\ \A k \in 1..Len(a) : Precedes(a[k], b)
        /\ \A k \in 1..Len(a) : \A i \in 1..Len(a[k]) : \E j \in 1..n : a[k][i] = samples[j]
    BY <1>5 DEF Aligned
  <2> HIDE DEF a, b, d, r
  <2>4. Len(b) \in Nat /\ b = [k \in 1..Len(b) |-> b[k]]
    BY <2>3, TimedShape
  <2>5. Len(e) = Len(b) + 1 /\ e[Len(b) + 1] = sample /\ \A k \in 1..Len(b) : e[k] = b[k]
    BY <2>4, AppendIs
  <2> HIDE DEF e
  <2>6. ASSUME NEW k \in 1..Len(a) PROVE Precedes(a[k], e)
    <3> SUFFICES ASSUME NEW i \in 1..Len(a[k]), NEW j \in 1..Len(e)
                 PROVE  a[k][i].time <= e[j].time
      BY DEF Precedes
    <3>1. CASE j \in 1..Len(b)
      BY <2>3, <2>5, <3>1 DEF Precedes
    <3>2. CASE j = Len(b) + 1
      <4>1. PICK m \in 1..n : a[k][i] = samples[m]
        BY <2>3
      <4>2. m \in 1..Len(samples) /\ m <= n + 1
        BY <1>0
      <4> QED
        BY <1>0, <2>5, <3>2, <4>1, <4>2 DEF Timed
    <3> QED
      BY <2>4, <2>5, <3>1, <3>2
  <2> QED
    BY <2>1, <2>2, <2>3, <2>6 DEF Aligned
<1> QED
  BY <1>6, <1>7

InTurn(segments) ==
  /\ \A k \in 1..Len(segments) : segments[k] # <<>>
  /\ \A k, m \in 1..Len(segments) : k < m => Precedes(segments[k], segments[m])

\* The segments of a history in the order of time come one after the other.
LEMMA SegmentsInTurn ==
  ASSUME NEW samples, Timed(samples), NEW maxGap
  PROVE  InTurn(PrepareNumericHistory(samples, maxGap).segments)
<1> DEFINE N == Len(samples)
<1>1. N \in Nat
  BY TimedShape
<1>2. PICK g : PreparedTrace(g, samples, maxGap)
  BY <1>1, PreparedTraceExists
<1>3. /\ g[0] = [segments |-> <<>>, current |-> <<>>, breaks |-> {}]
      /\ \A i \in 1..N : g[i] = AddSample(maxGap, g[i - 1], samples[i])
      /\ PrepareNumericHistory(samples, maxGap).segments = CloseSegment(g[N]).segments
  BY <1>2 DEF PreparedTrace
<1> DEFINE T == {n \in Nat : n <= N => Prepared(g[n], samples, n) /\ Aligned(g[n])}
<1>4. 0 \in T
  <2> DEFINE c == [segments |-> <<>>, current |-> <<>>, breaks |-> {}]
  <2>1. c.segments = <<>> /\ c.current = <<>> /\ c.breaks = {}
    OBVIOUS
  <2>2. IsSequence(<<>>) /\ Len(<<>>) = 0
    BY DEF IsSequence
  <2>3. Prepared(c, samples, 0)
    BY <2>1, <2>2, EmptyTimed DEF Prepared
  <2>4. Aligned(c)
    BY <2>1, <2>2 DEF Aligned
  <2> QED
    BY <1>3, <2>3, <2>4
<1>5. ASSUME NEW n \in Nat, n \in T PROVE n + 1 \in T
  <2> SUFFICES ASSUME n + 1 <= N
               PROVE  Prepared(g[n + 1], samples, n + 1) /\ Aligned(g[n + 1])
    OBVIOUS
  <2>1. n + 1 \in 1..N /\ (n + 1) - 1 = n /\ n \in 0..N /\ n < N
    BY <1>1
  <2>2. Prepared(g[n], samples, n) /\ Aligned(g[n])
        /\ g[n + 1] = AddSample(maxGap, g[n], samples[n + 1])
    BY <1>3, <1>5, <2>1
  <2> QED
    BY <2>1, <2>2, AddSampleIs, AddAligned
<1> HIDE DEF T
<1>6. Nat \subseteq T
  BY <1>4, <1>5, SetInduction
<1>7. Prepared(g[N], samples, N) /\ Aligned(g[N])
  BY <1>1, <1>6 DEF T
<1>8. Prepared(CloseSegment(g[N]), samples, N) /\ Aligned(CloseSegment(g[N]))
  BY <1>1, <1>7, CloseSegmentIs, ClosedAligned
<1> DEFINE segments == CloseSegment(g[N]).segments
<1>9. InTurn(segments)
  BY <1>8 DEF Prepared, Aligned, InTurn
<1> QED
  BY <1>3, <1>9

-----------------------------------------------------------------------------
\* Viscosity reads and prepares a history as the module it is an instance of.
LEMMA SameVisc ==
  /\ \A samples, maxGap :
       Visc!PrepareNumericHistory(samples, maxGap) = PrepareNumericHistory(samples, maxGap)
  /\ \A s, P : Visc!Subsequence(s, P) = Subsequence(s, P)
  /\ \A s, P : Visc!SumAt(s, P) = SumAt(s, P)
  /\ \A s : Visc!Last(s) = Last(s)
  /\ \A s, from, to : Visc!GetHistory(s, from, to) = Between(s, from, to)
<1>1. \A samples, maxGap :
       Visc!PrepareNumericHistory(samples, maxGap) = PrepareNumericHistory(samples, maxGap)
  BY DEF PrepareNumericHistory, AddSample, CloseSegment, Last, Visc!PrepareNumericHistory,
         Visc!AddSample, Visc!CloseSegment, Visc!Last
<1>2. \A s, from, to : Visc!GetHistory(s, from, to) = Between(s, from, to)
  BY DEF Between, Earlier, Cardinality, Visc!GetHistory, Visc!Between, Visc!Earlier,
         Visc!Cardinality
<1>3. \A s, P : Visc!Subsequence(s, P) = Subsequence(s, P)
  BY DEF Subsequence, Visc!Subsequence
<1>4. \A s, P : Visc!SumAt(s, P) = SumAt(s, P)
  BY DEF SumAt, Visc!SumAt
<1>5. \A s : Visc!Last(s) = Last(s)
  BY DEF Last, Visc!Last
<1> QED
  BY <1>1, <1>2, <1>3, <1>4, <1>5

\* The bucket of a time.
BucketOf(b, t) == t - (t % b)

OnGrid(b, t) == t \in Nat \ {0} /\ \E k \in Nat : t = b * k

\* The bucket of a time that is at least a bucket is on the grid.
LEMMA BucketIs ==
  ASSUME NEW b \in Nat \ {0}, NEW t \in Nat, b <= t
  PROVE  OnGrid(b, BucketOf(b, t)) /\ BucketOf(b, t) <= t
<1>1. t - (t % b) \in Nat \ {0} /\ t - (t % b) <= t /\ \E k \in Nat : t - (t % b) = b * k
  OBVIOUS
<1> QED
  BY <1>1 DEF OnGrid, BucketOf

\* Later times have later buckets.
LEMMA BucketMonotone ==
  ASSUME NEW b \in Nat \ {0}, NEW t \in Nat, NEW u \in Nat, t <= u
  PROVE  BucketOf(b, t) <= BucketOf(b, u)
<1>1. t - (t % b) <= u - (u % b)
  OBVIOUS
<1> QED
  BY <1>1 DEF BucketOf

\* Between two neighbours on the grid there is nothing.
LEMMA NextOnGrid ==
  ASSUME NEW b \in Nat \ {0}, NEW t, OnGrid(b, t), NEW u, OnGrid(b, u), t < u
  PROVE  t + b <= u
<1>1. PICK k \in Nat : t = b * k
  BY DEF OnGrid
<1>2. PICK m \in Nat : u = b * m
  BY DEF OnGrid
<1>3. b * k < b * m
  BY <1>1, <1>2
<1>4. b * k + b <= b * m
  BY <1>3
<1> QED
  BY <1>1, <1>2, <1>4

-----------------------------------------------------------------------------
\* How many of n values are no greater than the i-th.
NoMore(values, n, i) == Cardinality({j \in 1..n : values[j] <= values[i]})

\* A greater one of n values has more values that are no greater than it.
LEMMA NoMoreIs ==
  ASSUME NEW n \in Nat, NEW values, \A i \in 1..n : values[i] \in Int, NEW i \in 1..n
  PROVE  /\ NoMore(values, n, i) \in 0..n
         /\ \A j \in 1..n : values[i] < values[j] => NoMore(values, n, i) < NoMore(values, n, j)
<1> DEFINE N(k) == {j \in 1..n : values[j] <= values[k]}
<1>1. IsFiniteSet(1..n) /\ Cardinality(1..n) = n
  BY FS_Interval
<1>2. \A k \in 1..n : N(k) \subseteq 1..n /\ IsFiniteSet(N(k)) /\ Cardinality(N(k)) \in 0..n
  <2> TAKE k \in 1..n
  <2>1. N(k) \subseteq 1..n
    OBVIOUS
  <2> HIDE DEF N
  <2>2. IsFiniteSet(N(k)) /\ Cardinality(N(k)) <= n /\ Cardinality(N(k)) \in Nat
    BY <1>1, <2>1, FS_Subset, FS_CardinalityType
  <2> QED
    BY <2>1, <2>2
<1>3. ASSUME NEW j \in 1..n, values[i] < values[j]
      PROVE  Cardinality(N(i)) < Cardinality(N(j))
  <2>1. N(i) \subseteq N(j)
    BY <1>3
  <2>2. j \in N(j) /\ j \notin N(i)
    BY <1>3
  <2>3. IsFiniteSet(N(j)) /\ Cardinality(N(i)) \in 0..n /\ Cardinality(N(j)) \in 0..n
    BY <1>2
  <2> DEFINE x == N(i)
             y == N(j)
  <2>4. x \subseteq y /\ x # y /\ IsFiniteSet(y)
        /\ Cardinality(x) \in 0..n /\ Cardinality(y) \in 0..n
    BY <2>1, <2>2, <2>3
  <2> HIDE DEF x, y
  <2>5. Cardinality(x) < Cardinality(y)
    BY <2>4, FS_Subset
  <2> QED
    BY <2>5 DEF x, y
<1> QED
  BY <1>2, <1>3 DEF NoMore

\* There is a k-th smallest of n numbers.
LEMMA SmallestIs ==
  ASSUME NEW n \in Nat, NEW values, DOMAIN values = 1..n, \A i \in 1..n : values[i] \in Int,
         NEW k \in 1..n
  PROVE  Visc!Smallest(values, k) \in Int
<1> DEFINE C(i) == NoMore(values, n, i)
           T == {i \in 1..n : k <= C(i)}
<1>1. \A i \in 1..n : C(i) \in 0..n
  BY NoMoreIs
<1>2. \A i, j \in 1..n : values[i] < values[j] => C(i) < C(j)
  BY NoMoreIs
<1> HIDE DEF C
<1>3. T # {}
  <2> DEFINE U == {C(i) : i \in 1..n}
  <2>1. U \subseteq 0..n /\ U # {}
    BY <1>1
  <2>2. \E x \in U : \A y \in U : y <= x
    BY <2>1, GreatestNumber
  <2>3. PICK i \in 1..n : \A j \in 1..n : C(j) <= C(i)
    BY <2>2
  <2>4. \A j \in 1..n : values[j] <= values[i]
    <3> SUFFICES ASSUME NEW j \in 1..n, ~(values[j] <= values[i]) PROVE FALSE
      OBVIOUS
    <3>1. C(i) < C(j) /\ C(j) <= C(i) /\ C(i) \in Nat /\ C(j) \in Nat
      BY <1>1, <1>2, <2>3
    <3> QED
      BY <3>1
  <2>5. {j \in 1..n : values[j] <= values[i]} = 1..n
    BY <2>4
  <2>6. C(i) = n
    <3>1. C(i) = Cardinality(1..n)
      BY <2>5 DEF C, NoMore
    <3> QED
      BY <3>1, FS_Interval
  <2> QED
    BY <2>6
<1>4. PICK i \in T : \A j \in T : C(i) <= C(j)
  <2> DEFINE U == {C(i) : i \in T}
  <2>1. U \subseteq Nat /\ U # {}
    BY <1>1, <1>3
  <2>2. \E x \in U : \A y \in U : x <= y
    BY <2>1, LeastNumber
  <2> QED
    BY <2>2
<1> DEFINE v == values[i]
           B == {j \in 1..n : values[j] < v}
<1>5. i \in 1..n /\ v \in Int /\ k <= C(i)
  OBVIOUS
<1>6. Cardinality(B) < k
  <2>1. IsFiniteSet(B) /\ Cardinality(B) \in Nat
    <3>1. B \subseteq 1..n /\ IsFiniteSet(1..n)
      BY FS_Interval
    <3> QED
      BY <3>1, FS_Subset, FS_CardinalityType
  <2> SUFFICES ASSUME k <= Cardinality(B) PROVE FALSE
    BY <2>1
  <2>2. B # {}
    BY FS_EmptySet
  <2>3. PICK j \in B : \A m \in B : C(m) <= C(j)
    <3> DEFINE U == {C(m) : m \in B}
    <3>1. U \subseteq 0..n /\ U # {}
      BY <1>1, <2>2
    <3>2. \E x \in U : \A y \in U : y <= x
      BY <3>1, GreatestNumber
    <3> QED
      BY <3>2
  <2>4. j \in 1..n /\ values[j] < v
    OBVIOUS
  <2> DEFINE D == {m \in 1..n : values[m] <= values[j]}
  <2>5. B \subseteq D
    <3> SUFFICES ASSUME NEW m \in B, ~(values[m] <= values[j]) PROVE FALSE
      OBVIOUS
    <3>1. C(j) < C(m) /\ C(m) <= C(j) /\ C(j) \in Nat /\ C(m) \in Nat
      BY <1>1, <1>2, <2>3, <2>4
    <3> QED
      BY <3>1
  <2>6. Cardinality(B) <= Cardinality(D)
    <3>1. D \subseteq 1..n /\ IsFiniteSet(1..n)
      BY FS_Interval
    <3>2. IsFiniteSet(D)
      BY <3>1, FS_Subset
    <3> HIDE DEF B, D
    <3> QED
      BY <2>5, <3>2, FS_Subset
  <2>7. C(j) = Cardinality(D) /\ C(j) \in Nat
    BY <1>1, <2>4 DEF C, NoMore
  <2>8. j \in T
    <3> HIDE DEF B, D
    <3> QED
      BY <2>1, <2>4, <2>6, <2>7
  <2>9. C(j) < C(i) /\ C(i) \in Nat
    BY <1>1, <1>2, <1>5, <2>4
  <2> QED
    BY <1>4, <2>7, <2>8, <2>9
<1>7. /\ v \in Visc!Range(values)
      /\ Visc!Cardinality({j \in DOMAIN values : values[j] < v}) < k
      /\ k <= Visc!Cardinality({j \in DOMAIN values : values[j] <= v})
  <2>1. v \in Visc!Range(values)
    BY <1>5 DEF Visc!Range
  <2>2. \A S : Visc!Cardinality(S) = Cardinality(S)
    BY DEF Visc!Cardinality, Cardinality
  <2>3. k <= Cardinality({j \in 1..n : values[j] <= v})
    BY <1>5 DEF C, NoMore
  <2> QED
    BY <1>6, <2>1, <2>2, <2>3
<1> HIDE DEF v, T, B
<1>8. Visc!Smallest(values, k) \in Visc!Range(values)
  BY <1>7 DEF Visc!Smallest
<1> QED
  BY <1>8 DEF Visc!Range

\* The median of at least one integer is an integer.
LEMMA MedianIs ==
  ASSUME NEW n \in Nat \ {0}, NEW values, Len(values) = n, DOMAIN values = 1..n,
         \A i \in 1..n : values[i] \in Int
  PROVE  Visc!Median(values) \in Int
<1>1. CASE n % 2 = 1
  <2>1. (n + 1) \div 2 \in 1..n
    BY <1>1
  <2>2. Visc!Smallest(values, (n + 1) \div 2) \in Int
    BY <2>1, SmallestIs
  <2> QED
    BY <1>1, <2>2 DEF Visc!Median
<1>2. CASE n % 2 # 1
  <2>1. n \div 2 \in 1..n /\ n \div 2 + 1 \in 1..n
    BY <1>2
  <2>2. Visc!Smallest(values, n \div 2) \in Int /\ Visc!Smallest(values, n \div 2 + 1) \in Int
    BY <2>1, SmallestIs
  <2> QED
    BY <1>2, <2>2 DEF Visc!Median
<1> QED
  BY <1>1, <1>2

-----------------------------------------------------------------------------
\* Values at the times of a grid.
IsItem(b, m) ==
  /\ m = [time |-> m.time, segment |-> m.segment, value |-> m.value]
  /\ m.value \in Int
  /\ OnGrid(b, m.time)

IsMetric(b, q) == Timed(q) /\ \A i \in 1..Len(q) : IsItem(b, q[i])

\* The times of q are buckets of times in s.
BucketsOf(b, q, s) == \A i \in 1..Len(q) : \E j \in 1..Len(s) : q[i].time = BucketOf(b, s[j].time)

\* The medians of a segment are in the order of time, each at the bucket of a reading.
LEMMA SegmentMediansAre ==
  ASSUME NEW point, point.bucket \in Nat \ {0}, point.bucketMin \in Nat \ {0},
         NEW s, Timed(s), s # <<>>,
         \A i \in 1..Len(s) : s[i].value \in Int /\ point.bucket <= s[i].time,
         NEW number
  PROVE  /\ IsMetric(point.bucket, Visc!SegmentMedians(point, s, number))
         /\ BucketsOf(point.bucket, Visc!SegmentMedians(point, s, number), s)
<1> DEFINE b == point.bucket
           P(t) == {i \in DOMAIN s : s[i].time - (s[i].time % b) = t}
           of(t) == Subsequence(s, P(t))
           N == Last(s).time + 1
           line == [k \in 1..N |-> k - 1]
           Q == {k \in 1..N : Len(of(k - 1)) >= point.bucketMin}
           buckets == Subsequence(line, Q)
           value(t) == Visc!Median([i \in 1..Len(of(t)) |-> of(t)[i].value])
           medians == [i \in DOMAIN buckets |->
                         [time |-> buckets[i], segment |-> number, value |-> value(buckets[i])]]
<1>1. Visc!SegmentMedians(point, s, number) = medians
  BY SameVisc, ZenonT(40) DEF Visc!SegmentMedians
<1>2. Len(s) \in Nat /\ DOMAIN s = 1..Len(s) /\ b \in Nat \ {0}
  BY TimedShape
<1>3. N \in Nat /\ Len(line) = N
  <2>1. Len(s) \in 1..Len(s)
    BY <1>2, EmptyIs
  <2>2. Last(s).time \in Nat
    BY <2>1 DEF Timed, Last
  <2>3. N \in Nat
    BY <2>2
  <2> HIDE DEF N
  <2> QED
    BY <2>3
<1>4. ASSUME NEW t, Len(of(t)) >= point.bucketMin
      PROVE  /\ value(t) \in Int
             /\ \E j \in 1..Len(s) : t = BucketOf(b, s[j].time)
  <2> DEFINE q == of(t)
             R == P(t)
  <2>1. /\ Timed(q)
        /\ \A k \in 1..Len(q) : \E i \in 1..Len(s) : i \in P(t) /\ q[k] = s[i]
    <3> HIDE DEF R
    <3>1. /\ Timed(Subsequence(s, R))
          /\ \A k \in 1..Len(Subsequence(s, R)) : \E i \in 1..Len(s) :
               i \in R /\ Subsequence(s, R)[k] = s[i]
      BY TimedSubsequence
    <3> QED
      BY <3>1 DEF R
  <2>2. \A i \in P(t) : t = BucketOf(b, s[i].time)
    BY DEF BucketOf
  <2> HIDE DEF P, q
  <2>3. Len(q) \in Nat \ {0} /\ 1 \in 1..Len(q)
    <3>1. Len(q) \in Nat /\ Len(q) >= point.bucketMin
      BY <1>4, <2>1, TimedShape DEF q
    <3> QED
      BY <3>1
  <2> DEFINE values == [i \in 1..Len(q) |-> q[i].value]
  <2>4. \A i \in 1..Len(q) : values[i] \in Int
    BY <2>1
  <2>5. Len(values) = Len(q) /\ DOMAIN values = 1..Len(q)
    BY <2>3
  <2> HIDE DEF values
  <2>6. Visc!Median(values) \in Int
    BY <2>3, <2>4, <2>5, MedianIs
  <2>7. value(t) = Visc!Median(values)
    BY DEF values, q
  <2> HIDE DEF value
  <2> QED
    BY <2>1, <2>2, <2>3, <2>6, <2>7
<1> HIDE DEF value, of, N
<1>5. PICK pos : IsTaken(buckets, line, N, Q, pos)
  BY <1>3, SubsequenceIs
<1>6. /\ Len(buckets) \in Nat /\ DOMAIN buckets = 1..Len(buckets)
      /\ \A k \in 1..Len(buckets) : pos[k] \in 1..N /\ pos[k] \in Q /\ buckets[k] = line[pos[k]]
      /\ \A k, m \in 1..Len(buckets) : k < m => pos[k] < pos[m]
  <2> HIDE DEF line, Q, buckets
  <2> QED
    BY <1>5 DEF IsTaken
<1>7. \A k \in 1..Len(buckets) : /\ pos[k] \in Int /\ buckets[k] = pos[k] - 1
                                 /\ Len(of(buckets[k])) >= point.bucketMin
  <2> TAKE k \in 1..Len(buckets)
  <2>1. pos[k] \in 1..N /\ pos[k] \in Q /\ buckets[k] = line[pos[k]]
    BY <1>6
  <2> HIDE DEF buckets
  <2> QED
    BY <2>1
<1> DEFINE n == Len(buckets)
<1> HIDE DEF buckets, line, Q
<1>8. /\ DOMAIN medians = 1..n /\ medians = [i \in 1..n |-> medians[i]]
      /\ \A i \in 1..n : medians[i] = [time |-> buckets[i], segment |-> number,
                                        value |-> value(buckets[i])]
  BY <1>6
<1> HIDE DEF medians
<1>9. ASSUME NEW i \in 1..n
      PROVE  /\ medians[i].time = buckets[i] /\ IsItem(b, medians[i])
             /\ \E j \in 1..Len(s) : medians[i].time = BucketOf(b, s[j].time)
  <2> DEFINE x == buckets[i]
             y == value(x)
  <2>1. y \in Int /\ \E j \in 1..Len(s) : x = BucketOf(b, s[j].time)
    BY <1>4, <1>7
  <2>2. PICK j \in 1..Len(s) : x = BucketOf(b, s[j].time)
    BY <2>1
  <2>3. OnGrid(b, x)
    <3>1. s[j].time \in Nat /\ b <= s[j].time
      BY DEF Timed
    <3> QED
      BY <1>2, <2>2, <3>1, BucketIs
  <2>4. medians[i] = [time |-> x, segment |-> number, value |-> y]
    BY <1>8
  <2> HIDE DEF x, y
  <2>5. medians[i].time = x /\ medians[i].segment = number /\ medians[i].value = y
    BY <2>4
  <2>6. IsItem(b, medians[i])
    BY <2>1, <2>3, <2>4, <2>5 DEF IsItem
  <2> QED
    BY <2>1, <2>5, <2>6 DEF x
<1>10. Timed(medians) /\ Len(medians) = n
  <2>1. \A i \in 1..n : medians[i].time \in Nat \ {0}
    BY <1>9 DEF IsItem, OnGrid
  <2>2. ASSUME NEW i \in 1..n, NEW j \in 1..n, i <= j PROVE medians[i].time <= medians[j].time
    <3>1. i = j \/ i < j
      BY <1>6, <2>2
    <3>2. pos[i] <= pos[j]
      <4>1. CASE i = j
        BY <1>7, <4>1
      <4>2. CASE i < j
        <5>1. pos[i] < pos[j] /\ pos[i] \in Int /\ pos[j] \in Int
          BY <1>6, <1>7, <4>2
        <5> QED
          BY <5>1
      <4> QED
        BY <3>1, <4>1, <4>2
    <3> QED
      BY <1>7, <1>9, <3>2
  <2> QED
    BY <1>6, <1>8, <2>1, <2>2, MakeTimed
<1> QED
  BY <1>1, <1>9, <1>10, SMTT(30) DEF IsMetric, BucketsOf

-----------------------------------------------------------------------------
\* The medians of the first n segments.
MinutesTo(point, q, segments, n) ==
  /\ IsMetric(point.bucket, q)
  /\ \A i \in 1..Len(q) : \E j \in 1..n : \E k \in 1..Len(segments[j]) :
       q[i].time = BucketOf(point.bucket, segments[j][k].time)

MinutesTrace(g, point, segments) ==
  /\ g[0] = <<>>
  /\ \A k \in 1..Len(segments) : g[k] = g[k - 1] \o Visc!SegmentMedians(point, segments[k], k)

\* The medians of all segments, put together one segment after the other.
LEMMA MinutesTraceExists ==
  ASSUME NEW point, NEW samples,
         Len(PrepareNumericHistory(samples, point.bucket).segments) \in Nat
  PROVE  \E g : /\ MinutesTrace(g, point, PrepareNumericHistory(samples, point.bucket).segments)
                /\ Visc!MinuteMedians(point, samples)
                     = g[Len(PrepareNumericHistory(samples, point.bucket).segments)]
<1> DEFINE segments == PrepareNumericHistory(samples, point.bucket).segments
           N == Len(segments)
           c == <<>>
           E(x, k) == x \o Visc!SegmentMedians(point, segments[k], k)
           Is(g, n) == g = [k \in 0..n |-> IF k = 0 THEN c ELSE E(g[k - 1], k)]
           T == {n \in Nat : \E g : Is(g, n)}
<1>0. N \in Nat
  BY SMTT(30)
<1>6. Visc!MinuteMedians(point, samples) = (CHOOSE g : Is(g, N))[N]
  BY SameVisc DEF Visc!MinuteMedians
<1> HIDE DEF c, E, N
<1>1. 0 \in T
  <2>1. Is([i \in 0..0 |-> c], 0)
    OBVIOUS
  <2> QED
    BY <2>1
<1>2. ASSUME NEW n \in Nat, n \in T PROVE n + 1 \in T
  <2>1. PICK g : Is(g, n)
    BY <1>2
  <2> DEFINE h == [i \in 0..(n + 1) |-> IF i = n + 1 THEN E(g[n], n + 1) ELSE g[i]]
  <2>2. \A i \in 0..(n + 1) : h[i] = IF i = 0 THEN c ELSE E(h[i - 1], i)
    <3> TAKE i \in 0..(n + 1)
    <3>1. CASE i = n + 1
      BY <3>1
    <3>2. CASE i # n + 1
      BY <2>1, <3>2
    <3> QED
      BY <3>1, <3>2
  <2>3. Is(h, n + 1)
    <3>1. h = [i \in 0..(n + 1) |-> h[i]]
      OBVIOUS
    <3> HIDE DEF h
    <3> QED
      BY <2>2, <3>1
  <2> HIDE DEF Is
  <2> QED
    BY <2>3
<1> HIDE DEF T
<1>3. Nat \subseteq T
  BY <1>1, <1>2, SetInduction
<1>4. \E g : Is(g, N)
  BY <1>0, <1>3 DEF T
<1> DEFINE a == CHOOSE g : Is(g, N)
<1>5. Is(a, N)
  BY <1>4
<1> HIDE DEF a
<1>7. a[0] = c /\ \A i \in 1..N : a[i] = E(a[i - 1], i)
  BY <1>0, <1>5
<1>8. MinutesTrace(a, point, segments)
  BY <1>7 DEF MinutesTrace, c, E, N
<1>9. Visc!MinuteMedians(point, samples) = a[N]
  BY <1>6 DEF a
<1> QED
  BY <1>8, <1>9 DEF N

\* The medians of one more segment.
LEMMA MoreMinutes ==
  ASSUME NEW point, point.bucket \in Nat \ {0}, point.bucketMin \in Nat \ {0},
         NEW segments, InTurn(segments), NEW n \in Nat, n < Len(segments), Len(segments) \in Nat,
         \A k \in 1..Len(segments) :
           /\ Timed(segments[k])
           /\ \A i \in 1..Len(segments[k]) :
                segments[k][i].value \in Int /\ point.bucket <= segments[k][i].time,
         NEW q, MinutesTo(point, q, segments, n)
  PROVE  MinutesTo(point, q \o Visc!SegmentMedians(point, segments[n + 1], n + 1),
                   segments, n + 1)
<1> DEFINE b == point.bucket
           s == segments[n + 1]
           r == Visc!SegmentMedians(point, s, n + 1)
<1>1. n + 1 \in 1..Len(segments) /\ \A j \in 1..n : j \in 1..Len(segments) /\ j < n + 1
  OBVIOUS
<1>2. /\ Timed(s) /\ s # <<>>
      /\ \A i \in 1..Len(s) : s[i].value \in Int /\ b <= s[i].time
      /\ \A j \in 1..n : Precedes(segments[j], s)
  BY <1>1 DEF InTurn
<1>3. IsMetric(b, r) /\ BucketsOf(b, r, s)
  BY <1>2, SegmentMediansAre
<1>4. /\ IsMetric(b, q)
      /\ \A i \in 1..Len(q) : \E j \in 1..n : \E k \in 1..Len(segments[j]) :
           q[i].time = BucketOf(b, segments[j][k].time)
  BY DEF MinutesTo
<1>5. ASSUME NEW i \in 1..Len(q), NEW m \in 1..Len(r) PROVE q[i].time <= r[m].time
  <2>1. PICK j \in 1..n : \E k \in 1..Len(segments[j]) :
               q[i].time = BucketOf(b, segments[j][k].time)
    BY <1>4
  <2>2. PICK k \in 1..Len(segments[j]) : q[i].time = BucketOf(b, segments[j][k].time)
    BY <2>1
  <2>3. PICK l \in 1..Len(s) : r[m].time = BucketOf(b, s[l].time)
    BY <1>3 DEF BucketsOf
  <2> DEFINE t == segments[j][k].time
             u == s[l].time
  <2>4. t <= u
    BY <1>2 DEF Precedes
  <2>5. t \in Nat /\ u \in Nat
    <3>1. Timed(segments[j])
      BY <1>1
    <3> QED
      BY <1>2, <3>1 DEF Timed
  <2> HIDE DEF t, u
  <2>6. BucketOf(b, t) <= BucketOf(b, u)
    BY <2>4, <2>5, BucketMonotone
  <2> QED
    BY <2>2, <2>3, <2>6 DEF t, u
<1> HIDE DEF r, s
<1> DEFINE z == q \o r
<1>6. /\ Timed(z) /\ Len(z) = Len(q) + Len(r) /\ Len(q) \in Nat /\ Len(r) \in Nat
      /\ \A i \in 1..Len(q) : z[i] = q[i]
      /\ \A i \in 1..Len(r) : z[Len(q) + i] = r[i]
  BY <1>3, <1>4, <1>5, TimedConcat, TimedShape DEF IsMetric
<1> HIDE DEF z
<1>7. ASSUME NEW i \in 1..Len(z)
      PROVE  /\ IsItem(b, z[i])
             /\ \E j \in 1..(n + 1) : \E k \in 1..Len(segments[j]) :
                  z[i].time = BucketOf(b, segments[j][k].time)
  <2>1. CASE i \in 1..Len(q)
    <3>1. z[i] = q[i] /\ IsItem(b, q[i])
      BY <1>4, <1>6, <2>1 DEF IsMetric
    <3>2. PICK j \in 1..n : \E k \in 1..Len(segments[j]) :
                 q[i].time = BucketOf(b, segments[j][k].time)
      BY <1>4, <2>1
    <3>3. j \in 1..(n + 1)
      OBVIOUS
    <3> QED
      BY <3>1, <3>2, <3>3
  <2>2. CASE i \notin 1..Len(q)
    <3> DEFINE m == i - Len(q)
    <3>1. m \in 1..Len(r) /\ Len(q) + m = i
      BY <1>6, <2>2
    <3> HIDE DEF m
    <3>2. z[i] = r[m] /\ IsItem(b, r[m])
      BY <1>3, <1>6, <3>1 DEF IsMetric
    <3>3. \E k \in 1..Len(s) : r[m].time = BucketOf(b, s[k].time)
      BY <1>3, <3>1 DEF BucketsOf
    <3>4. n + 1 \in 1..(n + 1)
      OBVIOUS
    <3> QED
      BY <3>2, <3>3, <3>4 DEF s
  <2> QED
    BY <2>1, <2>2
<1>8. MinutesTo(point, z, segments, n + 1)
  BY <1>6, <1>7 DEF MinutesTo, IsMetric
<1> QED
  BY <1>8 DEF z, r, s

-----------------------------------------------------------------------------
\* Readings that the rule can put into buckets.
Readable(b, samples) ==
  /\ Timed(samples)
  /\ \A i \in 1..Len(samples) : samples[i].value \in Int /\ b <= samples[i].time

\* No item is later than all samples.
Reaches(q, samples) ==
  \A i \in 1..Len(q) : \E j \in 1..Len(samples) : q[i].time <= samples[j].time

\* aggregate_minute_medians.
LEMMA MinutesAre ==
  ASSUME NEW point, point.bucket \in Nat \ {0}, point.bucketMin \in Nat \ {0},
         NEW samples, Readable(point.bucket, samples)
  PROVE  /\ IsMetric(point.bucket, Visc!MinuteMedians(point, samples))
         /\ Reaches(Visc!MinuteMedians(point, samples), samples)
<1> DEFINE b == point.bucket
           segments == PrepareNumericHistory(samples, b).segments
           N == Len(segments)
           minutes == Visc!MinuteMedians(point, samples)
<1>1. Timed(samples) /\ \A i \in 1..Len(samples) : samples[i].value \in Int /\ b <= samples[i].time
  BY DEF Readable
<1>2. InTurn(segments)
  BY <1>1, SegmentsInTurn
<1>3. /\ N \in Nat
      /\ \A k \in 1..N :
           /\ Timed(segments[k])
           /\ \A i \in 1..Len(segments[k]) : \E j \in 1..Len(samples) : segments[k][i] = samples[j]
  <2>1. Segmented(segments, samples)
    BY <1>1, PreparedSegments
  <2> HIDE DEF segments
  <2> QED
    BY <2>1 DEF Segmented, PartOf, IsSequence
<1>4. PICK g : MinutesTrace(g, point, segments) /\ minutes = g[N]
  BY <1>3, MinutesTraceExists
<1> HIDE DEF segments, minutes
<1>5. g[0] = <<>> /\ \A k \in 1..N : g[k] = g[k - 1] \o Visc!SegmentMedians(point, segments[k], k)
  BY <1>4 DEF MinutesTrace
<1>6. \A k \in 1..N :
        /\ Timed(segments[k])
        /\ \A i \in 1..Len(segments[k]) : segments[k][i].value \in Int /\ b <= segments[k][i].time
  BY <1>1, <1>3
<1> DEFINE T == {n \in Nat : n <= N => MinutesTo(point, g[n], segments, n)}
<1>7. 0 \in T
  <2>1. MinutesTo(point, <<>>, segments, 0)
    BY EmptyTimed DEF MinutesTo, IsMetric
  <2> QED
    BY <1>5, <2>1
<1>8. ASSUME NEW n \in Nat, n \in T PROVE n + 1 \in T
  <2> SUFFICES ASSUME n + 1 <= N PROVE MinutesTo(point, g[n + 1], segments, n + 1)
    OBVIOUS
  <2>1. n + 1 \in 1..N /\ (n + 1) - 1 = n /\ n < N /\ MinutesTo(point, g[n], segments, n)
    BY <1>3, <1>8
  <2>2. g[n + 1] = g[n] \o Visc!SegmentMedians(point, segments[n + 1], n + 1)
    BY <1>5, <2>1
  <2> QED
    BY <1>2, <1>3, <1>6, <2>1, <2>2, MoreMinutes
<1> HIDE DEF T
<1>9. Nat \subseteq T
  BY <1>7, <1>8, SetInduction
<1>10. MinutesTo(point, minutes, segments, N)
  BY <1>3, <1>4, <1>9 DEF T
<1>11. ASSUME NEW i \in 1..Len(minutes)
       PROVE  \E j \in 1..Len(samples) : minutes[i].time <= samples[j].time
  <2>1. PICK k \in 1..N : \E m \in 1..Len(segments[k]) :
               minutes[i].time = BucketOf(b, segments[k][m].time)
    BY <1>10 DEF MinutesTo
  <2>2. PICK m \in 1..Len(segments[k]) : minutes[i].time = BucketOf(b, segments[k][m].time)
    BY <2>1
  <2>3. PICK j \in 1..Len(samples) : segments[k][m] = samples[j]
    BY <1>3
  <2>4. samples[j].time \in Nat /\ b <= samples[j].time
    BY <1>1 DEF Timed
  <2>5. BucketOf(b, samples[j].time) <= samples[j].time
    BY <2>4, BucketIs
  <2> QED
    BY <2>2, <2>3, <2>5
<1>12. IsMetric(b, minutes)
  BY <1>10 DEF MinutesTo
<1>13. Reaches(minutes, samples)
  BY <1>11 DEF Reaches
<1> QED
  BY <1>12, <1>13 DEF minutes

-----------------------------------------------------------------------------
\* Where windows end, in order.
LEMMA WindowEndsAre ==
  ASSUME NEW point, NEW items, Len(items) \in Nat, DOMAIN items = 1..Len(items), NEW n
  PROVE  LET ends == Visc!WindowEnds(point, items, n)
         IN  /\ Len(ends) \in Nat /\ DOMAIN ends = 1..Len(ends)
             /\ \A k \in 1..Len(ends) :
                  /\ ends[k] \in 1..Len(items) /\ ends[k] >= n
             /\ \A k, m \in 1..Len(ends) : k < m => ends[k] < ends[m]
<1> DEFINE N == Len(items)
           line == [i \in 1..N |-> i]
           P == {i \in DOMAIN items : /\ i >= n
                                      /\ \A j \in (i - n + 2)..i : Visc!Follows(point, items, j)}
           ends == Subsequence(line, P)
<1>1. Visc!WindowEnds(point, items, n) = ends
  BY SameVisc DEF Visc!WindowEnds
<1>2. Len(line) = N /\ N \in Nat
  OBVIOUS
<1> HIDE DEF N
<1>3. PICK pos : IsTaken(ends, line, N, P, pos)
  BY <1>2, SubsequenceIs
<1>4. \A i \in P : i >= n
  OBVIOUS
<1>5. \A i \in 1..N : line[i] = i
  OBVIOUS
<1> HIDE DEF ends, line, P
<1>6. /\ Len(ends) \in Nat /\ DOMAIN ends = 1..Len(ends)
      /\ \A k \in 1..Len(ends) : pos[k] \in 1..N /\ pos[k] \in P /\ ends[k] = line[pos[k]]
      /\ \A k, m \in 1..Len(ends) : k < m => pos[k] < pos[m]
  BY <1>3 DEF IsTaken
<1>7. \A k \in 1..Len(ends) : ends[k] = pos[k] /\ ends[k] \in 1..N /\ ends[k] >= n
  BY <1>4, <1>5, <1>6
<1>8. \A k, m \in 1..Len(ends) : k < m => ends[k] < ends[m]
  BY <1>6, <1>7, SMTT(30)
<1> QED
  BY <1>1, <1>6, <1>7, <1>8 DEF N

\* calculate_trailing_mean.
LEMMA BucketMeansAre ==
  ASSUME NEW point, point.bucket \in Nat \ {0},
         point.smoothing.window \in Nat \ {0}, point.smoothing.minSamples \in Nat \ {0},
         NEW q, IsMetric(point.bucket, q), NEW samples, Reaches(q, samples)
  PROVE  /\ IsMetric(point.bucket, Visc!BucketMeans(point, q))
         /\ Reaches(Visc!BucketMeans(point, q), samples)
<1> DEFINE b == point.bucket
           n == point.smoothing.window \div b
           few == n < point.smoothing.minSamples
           ends == IF few THEN <<>> ELSE Visc!WindowEnds(point, q, n)
           mean(i) == SumAt(q, (i - n + 1)..i) \div n
           means == [k \in DOMAIN ends |-> [q[ends[k]] EXCEPT !.value = mean(ends[k])]]
<1>1. Visc!BucketMeans(point, q) = means
  BY SameVisc DEF Visc!BucketMeans
<1>2. /\ Timed(q) /\ Len(q) \in Nat /\ DOMAIN q = 1..Len(q)
      /\ \A i \in 1..Len(q) : IsItem(b, q[i])
  BY TimedShape DEF IsMetric
<1>3. ~few => n \in Nat \ {0}
  OBVIOUS
<1>4. /\ Len(ends) \in Nat /\ DOMAIN ends = 1..Len(ends)
      /\ \A k \in 1..Len(ends) : ends[k] \in 1..Len(q) /\ ~few
      /\ \A k, m \in 1..Len(ends) : k < m => ends[k] < ends[m]
  <2>1. CASE few
    BY <2>1
  <2>2. CASE ~few
    <3> DEFINE r == Visc!WindowEnds(point, q, n)
    <3>1. /\ Len(r) \in Nat /\ DOMAIN r = 1..Len(r)
          /\ \A k \in 1..Len(r) : r[k] \in 1..Len(q)
          /\ \A k, m \in 1..Len(r) : k < m => r[k] < r[m]
      BY <1>2, WindowEndsAre
    <3> HIDE DEF r, few
    <3>2. ends = r
      BY <2>2 DEF r
    <3> HIDE DEF ends
    <3> QED
      BY <2>2, <3>1, <3>2
  <2> QED
    BY <2>1, <2>2
<1>5. \A i : n \in Nat \ {0} => mean(i) \in Int
  <2> TAKE i
  <2> DEFINE sum == SumAt(q, (i - n + 1)..i)
  <2>1. \A j \in 1..Len(q) : q[j].value \in Int
    BY <1>2 DEF IsItem
  <2>2. sum \in Int
    BY <1>2, <2>1, SumIsWhole
  <2> HIDE DEF sum, n
  <2>3. n \in Nat \ {0} => sum \div n \in Int
    BY <2>2
  <2> QED
    BY <2>3 DEF sum
<1> HIDE DEF ends, mean, n, few
<1> DEFINE M == Len(ends)
<1>6. /\ DOMAIN means = 1..M /\ means = [k \in 1..M |-> means[k]]
      /\ \A k \in 1..M : means[k] = [q[ends[k]] EXCEPT !.value = mean(ends[k])]
  BY <1>4
<1> HIDE DEF means
<1>7. ASSUME NEW k \in 1..M
      PROVE  ends[k] \in 1..Len(q) /\ means[k].time = q[ends[k]].time /\ IsItem(b, means[k])
  <2>1. ends[k] \in 1..Len(q) /\ IsItem(b, q[ends[k]]) /\ mean(ends[k]) \in Int
    BY <1>2, <1>3, <1>4, <1>5
  <2> DEFINE m == q[ends[k]]
             x == m.time
             y == m.segment
             v == m.value
             u == mean(ends[k])
             z == means[k]
  <2>2. m = [time |-> x, segment |-> y, value |-> v] /\ OnGrid(b, x)
    BY <2>1 DEF IsItem
  <2>3. z = [m EXCEPT !.value = u]
    BY <1>6
  <2>4. u \in Int
    BY <2>1
  <2> HIDE DEF m, x, y, v, u, z
  <2>5. z = [time |-> x, segment |-> y, value |-> u]
    BY <2>2, <2>3
  <2>6. z.time = x /\ z.segment = y /\ z.value = u
    BY <2>5
  <2>7. IsItem(b, z)
    BY <2>2, <2>4, <2>5, <2>6 DEF IsItem
  <2> QED
    BY <2>1, <2>6, <2>7 DEF m, x, z
<1>8. Timed(means) /\ Len(means) = M
  <2>1. \A i \in 1..M : means[i].time \in Nat \ {0}
    BY <1>7 DEF IsItem, OnGrid
  <2>2. ASSUME NEW i \in 1..M, NEW j \in 1..M, i <= j PROVE means[i].time <= means[j].time
    <3>1. ends[i] \in 1..Len(q) /\ ends[j] \in 1..Len(q)
      BY <1>7
    <3>2. ends[i] <= ends[j]
      <4>1. CASE i = j
        BY <3>1, <4>1
      <4>2. CASE i # j
        <5>1. i < j
          BY <1>4, <2>2, <4>2
        <5>2. ends[i] < ends[j]
          BY <1>4, <5>1
        <5> QED
          BY <3>1, <5>2
      <4> QED
        BY <4>1, <4>2
    <3>3. q[ends[i]].time <= q[ends[j]].time
      BY <1>2, <3>1, <3>2 DEF Timed
    <3> QED
      BY <1>7, <3>3
  <2> QED
    BY <1>4, <1>6, <2>1, <2>2, MakeTimed
<1>9. IsMetric(b, means)
  BY <1>7, <1>8 DEF IsMetric
<1>10. Reaches(means, samples)
  BY <1>7, <1>8 DEF Reaches
<1> QED
  BY <1>1, <1>9, <1>10

-----------------------------------------------------------------------------
\* What _parse_point has seen to.
LEMMA PointParsed ==
  ASSUME NEW point \in ViscosityPoints
  PROVE  /\ point.bucket \in Nat \ {0} /\ point.bucket <= Began
         /\ point.bucketMin \in Nat \ {0} /\ point.minDuration \in Nat \ {0}
         /\ point.mergeGap \in Nat
         /\ point.smoothing.window \in Nat \ {0} /\ point.smoothing.minSamples \in Nat \ {0}
         /\ point.exclusion.removeAfter \in Nat \ {0}
         /\ point.exclusion.window \in Nat \ {0}
         /\ point.penalty.maxUnits \in Nat
         /\ point.penalty.enabled => point.penalty.interval \in Nat \ {0}
<1>1. Visc!ValidViscosityPoint(point)
  BY PointsAreValid
<1>2. /\ {point.bucket, point.bucketMin, point.minDuration} \subseteq Nat \ {0}
      /\ Visc!ValidSmoothing(point.smoothing)
      /\ point.mergeGap \in Nat
      /\ Visc!ValidExclusion(point.exclusion, point.bucket)
      /\ Visc!ValidPenalty(point.penalty)
  BY <1>1 DEF Visc!ValidViscosityPoint
<1>3. point.smoothing.window \in Nat \ {0} /\ point.smoothing.minSamples \in Nat \ {0}
  BY <1>2 DEF Visc!ValidSmoothing
<1>4. point.exclusion.removeAfter \in Nat \ {0} /\ point.exclusion.window \in Nat \ {0}
  BY <1>2 DEF Visc!ValidExclusion
<1>5. /\ point.penalty.maxUnits \in Nat
      /\ point.penalty.enabled => point.penalty.interval \in Nat \ {0}
  BY <1>2 DEF Visc!ValidPenalty
<1> QED
  BY <1>2, <1>3, <1>4, <1>5, BeganAssumption

\* The metric of a point for a window.
LEMMA ViscosityMetricIs ==
  ASSUME HistoryInv, rule = "viscosity", NEW point \in ViscosityPoints, NEW w
  PROVE  /\ IsMetric(point.bucket, ViscosityMetric(point, w))
         /\ \A i \in 1..Len(ViscosityMetric(point, w)) : ViscosityMetric(point, w)[i].time < now
<1> DEFINE b == point.bucket
           from == Visc!QueryStart(point, Start(w))
           to == Visc!ViscosityEnd(point, End(w))
           s == recorded[point.tag]
           samples == Between(s, from, to)
           metric == ViscosityMetric(point, w)
<1>1. metric = Visc!Metric(point, samples)
  BY SameVisc DEF ViscosityMetric, Visc!MetricOf
<1>2. /\ b \in Nat \ {0} /\ b <= Began /\ point.bucketMin \in Nat \ {0}
      /\ point.smoothing.window \in Nat \ {0} /\ point.smoothing.minSamples \in Nat \ {0}
  BY PointParsed
<1>3. point.tag \in DOMAIN recorded
  BY TagsAssumption DEF HistoryInv
<1>4. /\ s \in Seq(Sample) /\ Timed(s)
      /\ \A i \in 1..Len(s) : Began <= s[i].time /\ s[i].time < now
      /\ now \in Nat
  BY <1>3 DEF HistoryInv
<1> HIDE DEF from, to, s, metric
<1>5. Timed(samples) /\ \A i \in 1..Len(samples) : \E j \in 1..Len(s) : samples[i] = s[j]
  BY <1>4, BetweenPart
<1> HIDE DEF samples
<1>6. \A j \in 1..Len(s) : s[j].value \in Int /\ s[j].time \in Nat
  <2>1. \A j \in 1..Len(s) : s[j] \in Sample
    BY <1>4
  <2> QED
    BY <2>1 DEF Sample
<1>7. \A i \in 1..Len(samples) : /\ samples[i].value \in Int /\ b <= samples[i].time
                                 /\ samples[i].time < now /\ samples[i].time \in Nat
  <2> TAKE i \in 1..Len(samples)
  <2>1. PICK j \in 1..Len(s) : samples[i] = s[j]
    BY <1>5
  <2> QED
    BY <1>2, <1>4, <1>6, <2>1, BeganAssumption
<1>8. Readable(b, samples)
  BY <1>5, <1>7 DEF Readable
<1> DEFINE minutes == Visc!MinuteMedians(point, samples)
<1>9. IsMetric(b, minutes) /\ Reaches(minutes, samples)
  BY <1>2, <1>8, MinutesAre
<1>10. IsMetric(b, Visc!BucketMeans(point, minutes)) /\ Reaches(Visc!BucketMeans(point, minutes), samples)
  <2> HIDE DEF minutes
  <2> QED
    BY <1>2, <1>9, BucketMeansAre
<1>11. IsMetric(b, metric) /\ Reaches(metric, samples)
  BY <1>1, <1>9, <1>10 DEF Visc!Metric
<1>12. ASSUME NEW i \in 1..Len(metric) PROVE metric[i].time < now
  <2>1. PICK j \in 1..Len(samples) : metric[i].time <= samples[j].time
    BY <1>11 DEF Reaches
  <2>2. metric[i].time \in Nat
    BY <1>11 DEF IsMetric, Timed
  <2> QED
    BY <1>4, <1>7, <2>1, <2>2
<1> QED
  BY <1>11, <1>12 DEF metric

-----------------------------------------------------------------------------
\* _merge_intervals begins intervals where it was given some.
LEMMA MergedBegin ==
  ASSUME NEW intervals, NEW gap, NEW d \in Visc!MergeIntervals(intervals, gap)
  PROVE  \E i \in intervals : d.start = i.start
<1> DEFINE starts == {i.start : i \in {j \in intervals :
                       \A k \in intervals : k.start < j.start => j.start - k.end > gap}}
           within(s) == {i \in intervals : /\ s <= i.start
                                           /\ \A t \in starts : s < t => i.start < t}
           end(s) == Visc!Max({i.end : i \in within(s)})
<1>1. Visc!MergeIntervals(intervals, gap) = {[start |-> s, end |-> end(s)] : s \in starts}
  BY DEF Visc!MergeIntervals
<1>2. \A s \in starts : \E i \in intervals : s = i.start
  OBVIOUS
<1> HIDE DEF starts, end
<1>3. PICK s \in starts : d = [start |-> s, end |-> end(s)]
  BY <1>1
<1> QED
  BY <1>2, <1>3

\* A set of times has a least one.
LEMMA LeastIs ==
  ASSUME NEW S, S \subseteq Nat, S # {}
  PROVE  Visc!Min(S) \in S /\ \A y \in S : Visc!Min(S) <= y
<1>1. \E x \in S : \A y \in S : x <= y
  BY LeastNumber
<1> QED
  BY <1>1 DEF Visc!Min

\* The first of the largest changes of values is one of them.
LEMMA FirstJump ==
  ASSUME NEW metric, NEW a \in Nat, NEW e \in Nat, 2 <= a, a <= e,
         \A j \in 1..e : metric[j].value \in Int
  PROVE  Visc!Min({j \in a..e : \A k \in a..e :
                     Visc!Distance(metric[k].value, metric[k - 1].value)
                       <= Visc!Distance(metric[j].value, metric[j - 1].value)}) \in a..e
<1> DEFINE change(j) == Visc!Distance(metric[j].value, metric[j - 1].value)
           jumps == {j \in a..e : \A k \in a..e : change(k) <= change(j)}
<1>1. \A j \in a..e : change(j) \in Nat
  <2> TAKE j \in a..e
  <2>1. j \in 1..e /\ j - 1 \in 1..e
    OBVIOUS
  <2>2. metric[j].value \in Int /\ metric[j - 1].value \in Int
    BY <2>1
  <2> QED
    BY <2>2 DEF Visc!Distance
<1> HIDE DEF change
<1> DEFINE f == [j \in a..e |-> change(j)]
<1>2. PICK u \in Nat : \A j \in a..e : f[j] <= u
  <2>1. IsFiniteSet(a..e) /\ \A j \in a..e : f[j] \in Nat
    BY <1>1, FS_Interval
  <2> HIDE DEF f
  <2> QED
    BY <2>1, FiniteBound
<1> DEFINE U == {change(j) : j \in a..e}
<1>3. U \subseteq 0..u /\ U # {}
  BY <1>1, <1>2
<1>4. \E x \in U : \A y \in U : y <= x
  BY <1>3, GreatestNumber
<1>5. jumps # {} /\ jumps \subseteq Nat
  BY <1>4
<1>6. Visc!Min(jumps) \in jumps
  <2> HIDE DEF jumps
  <2> QED
    BY <1>5, LeastIs
<1> QED
  BY <1>6 DEF change

\* A disturbance begins with an item of the metric.
LEMMA DisturbanceBegins ==
  ASSUME NEW point, point.bucket \in Nat \ {0}, point.exclusion.window \in Nat \ {0},
         point.exclusion.removeAfter \in Nat \ {0},
         NEW b, NEW metric, IsMetric(b, metric),
         NEW d \in Visc!Disturbances(point, metric)
  PROVE  OnGrid(b, d.start) /\ d.until \in Int /\ d.start < d.until
<1>1. /\ Timed(metric) /\ Len(metric) \in Nat /\ DOMAIN metric = 1..Len(metric)
      /\ \A i \in 1..Len(metric) : metric[i].value \in Int /\ OnGrid(b, metric[i].time)
  BY TimedShape DEF IsMetric, IsItem
<1> DEFINE rolling == Visc!RollingIntervals(point, metric)
           deviating == Visc!DeviationIntervals(point, metric)
           found == IF point.exclusion.method = "rolling_range" THEN rolling ELSE deviating
           merged == Visc!MergeIntervals(found, point.exclusion.mergeGap)
<1>2. Visc!Disturbances(point, metric)
        = IF ~point.exclusion.enabled THEN {}
          ELSE {[start |-> x.start, end |-> x.end,
                 until |-> x.start + point.exclusion.removeAfter] : x \in merged}
  BY DEF Visc!Disturbances
<1>3. \A x \in deviating : \E i \in 1..Len(metric) : x.start = metric[i].time
  <2> DEFINE off(i)   == Visc!Distance(metric[i].value, point.exclusion.baseline)
                           > point.exclusion.deviation
             joins(i) == i > 1 /\ off(i - 1) /\ Visc!Follows(point, metric, i)
             begun    == {i \in DOMAIN metric : off(i) /\ ~joins(i)}
             last(i)  == Visc!Max({j \in i..Len(metric) : \A k \in (i + 1)..j : off(k) /\ joins(k)})
             end(j)   == IF j < Len(metric) /\ ~off(j + 1) THEN metric[j + 1].time
                         ELSE metric[j].time + point.bucket
  <2>1. deviating = {[start |-> metric[i].time, end |-> end(last(i))] : i \in begun}
    BY DEF Visc!DeviationIntervals
  <2>2. \A i \in begun : i \in 1..Len(metric)
    BY <1>1
  <2> HIDE DEF deviating, begun, end, last
  <2> QED
    BY <2>1, <2>2
<1>4. \A x \in rolling : \E i \in 1..Len(metric) : x.start = metric[i].time
  <2> DEFINE n == point.exclusion.window \div point.bucket
             values(i)  == {metric[j].value : j \in (i - n + 1)..i}
             change(j)  == Visc!Distance(metric[j].value, metric[j - 1].value)
             jumps(i)   == {j \in (i - n + 2)..i : \A k \in (i - n + 2)..i : change(k) <= change(j)}
             ends == Visc!WindowEnds(point, metric, n)
             wide == {i \in Visc!Range(ends) :
                        Visc!Max(values(i)) - Visc!Min(values(i)) > point.exclusion.range}
  <2>1. rolling = IF n < 2 THEN {}
                  ELSE {[start |-> metric[Visc!Min(jumps(i))].time,
                         end   |-> metric[i].time + point.bucket] : i \in wide}
    BY DEF Visc!RollingIntervals
  <2> HIDE DEF rolling, values
  <2> SUFFICES ASSUME NEW x \in rolling PROVE \E i \in 1..Len(metric) : x.start = metric[i].time
    OBVIOUS
  <2>2. ~(n < 2)
    BY <2>1
  <2> DEFINE first(i) == Visc!Min(jumps(i))
  <2>3. \E i \in wide : x = [start |-> metric[first(i)].time, end |-> metric[i].time + point.bucket]
    BY <2>1, <2>2
  <2> HIDE DEF first
  <2>4. PICK i \in wide : x.start = metric[first(i)].time
    BY <2>3
  <2> HIDE DEF n
  <2>5. \E k \in DOMAIN ends : i = ends[k]
    BY DEF Visc!Range
  <2>6. i \in 1..Len(metric) /\ i >= n
    <3>1. /\ DOMAIN ends = 1..Len(ends)
          /\ \A k \in 1..Len(ends) : ends[k] \in 1..Len(metric) /\ ends[k] >= n
      BY <1>1, WindowEndsAre
    <3> HIDE DEF ends
    <3> QED
      BY <2>5, <3>1
  <2>7. n \in Int
    <3> DEFINE u == point.exclusion.window
               v == point.bucket
    <3>1. u \in Nat /\ v \in Nat \ {0}
      OBVIOUS
    <3> HIDE DEF u, v
    <3>2. u \div v \in Int
      BY <3>1
    <3> QED
      BY <3>2 DEF n, u, v
  <2> DEFINE a == i - n + 2
  <2>8. a \in Nat /\ 2 <= a /\ a <= i /\ i \in Nat
    BY <1>1, <2>2, <2>6, <2>7
  <2>9. first(i) \in a..i
    <3>1. \A j \in 1..i : metric[j].value \in Int
      BY <1>1, <2>6
    <3> HIDE DEF a
    <3>2. Visc!Min({j \in a..i : \A k \in a..i : change(k) <= change(j)}) \in a..i
      BY <2>8, <3>1, FirstJump
    <3> QED
      BY <3>2 DEF first, a
  <2>10. first(i) \in 1..Len(metric)
    BY <1>1, <2>6, <2>8, <2>9
  <2> QED
    BY <2>4, <2>10
<1> HIDE DEF rolling, deviating
<1>5. \A x \in found : \E i \in 1..Len(metric) : x.start = metric[i].time
  BY <1>3, <1>4
<1> HIDE DEF found
<1>6. \A x \in merged : \E i \in 1..Len(metric) : x.start = metric[i].time
  <2> TAKE x \in merged
  <2>1. PICK y \in found : x.start = y.start
    BY MergedBegin
  <2> QED
    BY <1>5, <2>1
<1> HIDE DEF merged
<1>7. PICK x \in merged : d = [start |-> x.start, end |-> x.end,
                               until |-> x.start + point.exclusion.removeAfter]
  BY <1>2
<1>8. OnGrid(b, x.start)
  BY <1>1, <1>6
<1>9. d.start = x.start /\ d.until = x.start + point.exclusion.removeAfter
  BY <1>7
<1> QED
  BY <1>8, <1>9 DEF OnGrid

-----------------------------------------------------------------------------
\* The detector of component_viscosity_control is that of analog_limit_exceedance.
LEMMA SameDetect ==
  /\ \A point, samples, start, horizon, boundary, allow :
       Visc!Detect(point, samples, start, horizon, boundary, allow)
         = Limit!Detect(point, samples, start, horizon, boundary, allow)
  /\ \A o, start, end : Visc!Owned(o, start, end) <=> start <= o.start /\ o.start < end
<1>1. ASSUME NEW point, NEW samples, NEW start, NEW horizon, NEW boundary, NEW allow
      PROVE  Visc!Detect(point, samples, start, horizon, boundary, allow)
               = Limit!Detect(point, samples, start, horizon, boundary, allow)
  BY Zenon
     DEF Visc!Detect, Visc!GetHistory, Visc!Between, Visc!Earlier, Visc!Cardinality,
         Visc!DetectorFrom, Visc!Step, Visc!StepIdle, Visc!StepRun, Visc!Remaining, Visc!Closed,
         Visc!Qualified, Visc!Resumes, Visc!NewRun, Visc!NoRun, Visc!Classify, Visc!Sides,
         Visc!Last,
         Limit!Detect, Limit!GetHistory, Limit!Between, Limit!Earlier, Limit!Cardinality,
         Limit!DetectorFrom, Limit!Step, Limit!StepIdle, Limit!StepRun, Limit!Remaining,
         Limit!Closed, Limit!Qualified, Limit!Resumes, Limit!NewRun, Limit!NoRun,
         Limit!Classify, Limit!Sides, Limit!Last
<1> QED
  BY <1>1 DEF Visc!Owned

-----------------------------------------------------------------------------
\* What disturbances leave of a metric.
LEMMA CleanIs ==
  ASSUME NEW b, NEW metric, IsMetric(b, metric), NEW disturbances
  PROVE  LET clean == Visc!Exclude(metric, disturbances)
         IN  /\ Timed(clean)
             /\ \A k \in 1..Len(clean) :
                  /\ \E i \in 1..Len(metric) : clean[k] = metric[i]
                  /\ \A d \in disturbances : ~(d.start <= clean[k].time /\ clean[k].time < d.until)
<1> DEFINE P == {i \in DOMAIN metric :
                   ~\E d \in disturbances : d.start <= metric[i].time /\ metric[i].time < d.until}
           clean == Visc!Exclude(metric, disturbances)
<1>1. clean = Subsequence(metric, P)
  BY SameVisc DEF Visc!Exclude
<1>2. Timed(metric)
  BY DEF IsMetric
<1>3. \A i \in P : \A d \in disturbances : ~(d.start <= metric[i].time /\ metric[i].time < d.until)
  OBVIOUS
<1> HIDE DEF P
<1>4. /\ Timed(Subsequence(metric, P))
      /\ \A k \in 1..Len(Subsequence(metric, P)) : \E i \in 1..Len(metric) :
           i \in P /\ Subsequence(metric, P)[k] = metric[i]
  BY <1>2, TimedSubsequence
<1> HIDE DEF clean
<1>5. \A k \in 1..Len(clean) : \E i \in 1..Len(metric) : i \in P /\ clean[k] = metric[i]
  BY <1>1, <1>4
<1>6. Timed(clean)
  BY <1>1, <1>4
<1>7. \A k \in 1..Len(clean) :
        /\ \E i \in 1..Len(metric) : clean[k] = metric[i]
        /\ \A d \in disturbances : ~(d.start <= clean[k].time /\ clean[k].time < d.until)
  BY <1>3, <1>5
<1> QED
  BY <1>6, <1>7 DEF clean

\* A part of a metric without a gap.
IsContiguous(b, q, metric) ==
  /\ Timed(q) /\ Len(q) > 0
  /\ \A i \in 1..Len(q) : \E j \in 1..Len(metric) : q[i] = metric[j]
  /\ \A i \in 2..Len(q) : q[i].time = q[i - 1].time + b

\* split_contiguous_segments yields parts without a gap.
LEMMA SplitIs ==
  ASSUME NEW point, NEW metric, Timed(metric), NEW q \in Visc!SplitContiguous(point, metric)
  PROVE  IsContiguous(point.bucket, q, metric)
<1> DEFINE N == Len(metric)
           starts == {i \in DOMAIN metric : i = 1 \/ ~Visc!Follows(point, metric, i)}
           S(i) == {j - 1 : j \in {k \in starts : k > i}} \cup {N}
           end(i) == Visc!Min(S(i))
<1>1. Visc!SplitContiguous(point, metric) = {SubSeq(metric, i, end(i)) : i \in starts}
  BY DEF Visc!SplitContiguous
<1>2. N \in Nat /\ DOMAIN metric = 1..N
  BY TimedShape
<1>3. /\ starts \subseteq 1..N
      /\ \A k \in 1..N : k \notin starts => metric[k].time = metric[k - 1].time + point.bucket
  BY <1>2 DEF Visc!Follows
<1> HIDE DEF starts
<1>4. ASSUME NEW i \in starts
      PROVE  /\ end(i) \in i..N /\ i \in 1..N
             /\ \A k \in (i + 1)..end(i) : k \notin starts
  <2>1. i \in 1..N /\ S(i) \subseteq i..N /\ S(i) # {}
    BY <1>2, <1>3
  <2>2. S(i) \subseteq Nat
    BY <1>2, <2>1
  <2>3. \A k \in starts : k > i => k - 1 \in S(i)
    OBVIOUS
  <2> DEFINE T == S(i)
  <2> HIDE DEF S, T
  <2>4. Visc!Min(T) \in T /\ \A y \in T : Visc!Min(T) <= y
    BY <2>1, <2>2, LeastIs DEF T
  <2>5. end(i) \in i..N /\ \A y \in T : end(i) <= y
    BY <2>1, <2>4 DEF T
  <2> HIDE DEF end
  <2>6. ASSUME NEW k \in (i + 1)..end(i), k \in starts PROVE FALSE
    <3>1. k \in Int /\ end(i) \in Int /\ i \in Int /\ k > i /\ k <= end(i)
      BY <1>2, <2>1, <2>5
    <3>2. end(i) <= k - 1
      BY <2>3, <2>5, <2>6, <3>1 DEF T
    <3> QED
      BY <3>1, <3>2
  <2> QED
    BY <2>1, <2>5, <2>6
<1> HIDE DEF end
<1>5. PICK a \in starts : q = SubSeq(metric, a, end(a))
  BY <1>1
<1> DEFINE e == end(a)
<1>6. /\ a \in 1..N /\ e \in a..N /\ a \in Nat /\ e \in Nat /\ a <= e
      /\ a \in 1..(N + 1) /\ e \in 0..N
      /\ \A k \in (a + 1)..e : k \notin starts
  BY <1>2, <1>4
<1>7. q = SubSeq(metric, a, e)
  BY <1>5
<1> HIDE DEF e, N
<1>8. /\ Timed(q) /\ Len(q) = e - a + 1
      /\ \A i \in 1..Len(q) : q[i] = metric[a + i - 1]
  <2>1. /\ Timed(SubSeq(metric, a, e))
        /\ Len(SubSeq(metric, a, e)) = IF a <= e THEN e - a + 1 ELSE 0
        /\ \A i \in 1..Len(SubSeq(metric, a, e)) :
             SubSeq(metric, a, e)[i] = metric[a + i - 1]
    BY <1>6, TimedSub DEF N
  <2> QED
    BY <1>6, <1>7, <2>1
<1>9. \A i \in 1..Len(q) : a + i - 1 \in 1..N
  BY <1>2, <1>6, <1>8
<1>10. ASSUME NEW i \in 2..Len(q) PROVE q[i].time = q[i - 1].time + point.bucket
  <2>1. /\ a + i - 1 \in (a + 1)..e /\ a + i - 1 \in 1..N /\ i \in 1..Len(q)
        /\ i - 1 \in 1..Len(q) /\ (a + i - 1) - 1 = a + (i - 1) - 1
    BY <1>2, <1>6, <1>8
  <2>2. metric[a + i - 1].time = metric[(a + i - 1) - 1].time + point.bucket
    BY <1>3, <1>6, <2>1
  <2> QED
    BY <1>8, <2>1, <2>2
<1>11. Len(q) > 0
  BY <1>6, <1>8
<1> QED
  BY <1>8, <1>9, <1>10, <1>11 DEF IsContiguous, N

-----------------------------------------------------------------------------
\* The line that SegmentExceedances looks at is what is seen of the last samples.
LEMMA LineSeen ==
  ASSUME NEW point, NEW samples, Timed(samples), NEW start \in Int, NEW allow
  PROVE  \E c \in 0..Len(samples) : SeenFrom(point, LimitLine(point, samples, start, allow), samples, c)
<1> DEFINE e == Earlier(samples, start)
           c == IF e = 0 THEN 0 ELSE e - 1
           obs == Observed(point, samples, start)
           N == Len(samples)
<1>1. N \in Nat /\ e \in 0..N
  BY TimedShape, EarlierIs
<1>2. SeenFrom(point, obs, samples, c)
  BY ObservedIs
<1> HIDE DEF e, obs
<1>3. c \in 0..N /\ c \in Nat
  BY <1>1
<1> HIDE DEF c
<1>4. CASE allow
  BY <1>2, <1>3, <1>4 DEF LimitLine, obs
<1>5. CASE ~allow
  <2>1. IsLine(obs, N - c)
    BY <1>2 DEF SeenFrom
  <2>2. PICK m \in 0..(N - c) : Proven(obs, start) = SubSeq(obs, m + 1, Len(obs))
    <3> DEFINE M == N - c
    <3> HIDE DEF M
    <3>1. \E m \in 0..M : Proven(obs, start) = SubSeq(obs, m + 1, Len(obs))
      BY <2>1, ProvenIs DEF M
    <3> QED
      BY <3>1 DEF M
  <2>3. SeenFrom(point, SubSeq(obs, m + 1, Len(obs)), samples, c + m)
    BY <1>2, <1>3, LaterSeen
  <2>4. c + m \in 0..N
    BY <1>1, <1>3
  <2> QED
    BY <1>5, <2>2, <2>3, <2>4 DEF LimitLine, obs
<1> QED
  BY <1>4, <1>5

\* What is found in samples begins at one of them and ends at a later one or at the horizon.
FoundIn(point, samples, horizon, o) ==
  /\ o = [start |-> o.start, end |-> o.end, type |-> o.type, open |-> o.open]
  /\ o.type \in {"low", "high"}
  /\ o.end - o.start > point[o.type].minDuration
  /\ \E i \in 1..Len(samples) : o.start = samples[i].time
  /\ o.end = horizon \/ \E j \in 1..Len(samples) : o.end = samples[j].time

\* An exceedance of a segment that nothing bounds lies in the segment, or goes on to the horizon.
LEMMA ExceedanceIs ==
  ASSUME NEW point, NEW samples, Timed(samples), NEW start \in Int, NEW horizon, NEW allow,
         NEW o \in SegmentExceedances(point, samples, start, horizon, 0, allow)
  PROVE  FoundIn(point, samples, horizon, o)
<1> DEFINE line == LimitLine(point, samples, start, allow)
           gap == LimitGap(point)
           boundary == 0
<1>1. PICK c \in 0..Len(samples) : SeenFrom(point, line, samples, c)
  BY LineSeen
<1> DEFINE M == Len(samples) - c
<1>2. Len(samples) \in Nat /\ c \in Nat /\ M \in Nat
  <2>1. Len(samples) \in Nat
    BY TimedShape
  <2> QED
    BY <2>1
<1>3. IsLine(line, M) /\ \A i \in 1..M : Sees(point, line[i], samples[c + i])
  BY <1>1 DEF SeenFrom
<1>4. SegmentExceedances(point, samples, start, horizon, boundary, allow)
        = LimitRuns(point, line, horizon, boundary)
  <2>1. \A i \in 1..M : line[i].fresh = FALSE
    BY <1>3 DEF Sees
  <2> HIDE DEF M, boundary
  <2> QED
    BY <1>3, <2>1, SegmentRunsAre
<1> HIDE DEF line, gap
<1>5. o \in LimitRuns(point, line, horizon, boundary)
  BY <1>4
<1>6. PICK i \in RunStarts(line, gap) :
        /\ o = LimitEvent(point, line, horizon, boundary, i)
        /\ o.end - o.start > point[o.type].minDuration
  BY <1>5 DEF LimitRuns, LimitCharged, gap
<1> DEFINE l == LastOf(line, gap, i)
<1>7. l \in 1..M /\ i \in 1..M /\ line[i].dir # "none"
  <2> HIDE DEF l, M
  <2> QED
    BY <1>3, LastInLine DEF l, RunStarts
<1> HIDE DEF l
<1>8. o = [start |-> line[i].time, type |-> line[i].dir,
           open  |-> ~(l < Len(line)) /\ boundary = 0,
           end   |-> IF l < Len(line) THEN line[l + 1].time ELSE horizon]
  BY <1>6 DEF LimitEvent, l, gap
<1>9. /\ o = [start |-> o.start, end |-> o.end, type |-> o.type, open |-> o.open]
      /\ o.start = line[i].time /\ o.type = line[i].dir
      /\ o.end = IF l < Len(line) THEN line[l + 1].time ELSE horizon
  BY <1>8
<1>10. Len(line) = M
  BY <1>3 DEF IsLine
<1>11. line[i].dir \in {"low", "high"} /\ line[i].time = samples[c + i].time /\ c + i \in 1..Len(samples)
  <2>1. Sees(point, line[i], samples[c + i])
    BY <1>3, <1>7
  <2> QED
    BY <1>2, <1>7, <2>1, ClassifyIs DEF Sees
<1>12. ASSUME l < Len(line)
       PROVE  line[l + 1].time = samples[c + (l + 1)].time /\ c + (l + 1) \in 1..Len(samples)
  <2>1. l + 1 \in 1..M
    BY <1>2, <1>7, <1>10, <1>12
  <2> QED
    BY <1>2, <1>3, <2>1 DEF Sees
<1> QED
  BY <1>6, <1>9, <1>11, <1>12 DEF FoundIn

-----------------------------------------------------------------------------
\* The least of two numbers.
LEMMA LesserOf ==
  ASSUME NEW x \in Int, NEW y \in Int
  PROVE  Visc!Min({x, y}) = IF y < x THEN y ELSE x
BY DEF Visc!Min

\* What evaluate finds in one segment.
LEMMA SegmentEventsAre ==
  ASSUME NEW point, point.bucket \in Nat \ {0}, point.minDuration \in Nat \ {0},
         NEW segment, Timed(segment), Len(segment) > 0,
         NEW start \in Int, NEW end \in Int, start < end,
         NEW until \in Int, until = Visc!ViscosityEnd(point, end), end <= until,
         \A i \in 1..Len(segment) : segment[i].time < until,
         NEW allow \in BOOLEAN
  PROVE  LET over == Last(segment).time + point.bucket
             horizon == IF over < until THEN over ELSE until
         IN  Visc!SegmentEvents(point, segment, allow, start, end)
               = {o \in SegmentExceedances(Visc!GenericPoint(point), segment, start, horizon, 0, allow) :
                    start <= o.start /\ o.start < end}
<1> DEFINE n == Len(segment)
           over == Last(segment).time + point.bucket
           horizon == IF over < until THEN over ELSE until
           generic == Visc!GenericPoint(point)
           boundary == 0
           all == SegmentExceedances(generic, segment, start, horizon, boundary, allow)
           detected == Limit!Detect(generic, segment, start, horizon, boundary, allow)
<1>1. n \in Nat /\ n \in 1..n
  <2>1. n \in Nat
    BY TimedShape
  <2> QED
    BY <2>1
<1>2. /\ \A i \in 1..n : segment[i].time \in Nat /\ segment[i].time <= segment[n].time
      /\ segment[n].time \in Nat
  BY <1>1 DEF Timed
<1>3. over = segment[n].time + point.bucket
  BY DEF Last
<1>4. /\ over \in Int /\ horizon \in Int /\ until \in Int
      /\ \A i \in 1..n : segment[i].time < over /\ segment[i].time < horizon
  BY <1>2, <1>3
<1>5. Visc!Min({until, over}) = horizon
  BY <1>4, LesserOf
<1>6. generic.low.minDuration = point.minDuration /\ generic.high.minDuration = point.minDuration
  BY DEF Visc!GenericPoint
<1>7. Visc!SegmentEvents(point, segment, allow, start, end)
        = IF over <= start THEN {}
          ELSE {o \in Visc!Detect(generic, segment, start, Visc!Min({until, over}), boundary, allow) :
                  Visc!Owned(o, start, end) /\ o.end > o.start}
  BY SameVisc DEF Visc!SegmentEvents
<1> HIDE DEF over, horizon, generic, boundary
<1>8. ASSUME NEW o \in all
      PROVE  /\ o.start \in Nat /\ o.start < over /\ o.start < horizon
             /\ o.end \in Int /\ o.end > o.start
  <2>1. FoundIn(generic, segment, horizon, o)
    BY ExceedanceIs DEF boundary
  <2>2. PICK i \in 1..n : o.start = segment[i].time
    BY <2>1 DEF FoundIn
  <2>3. o.start \in Nat /\ o.start < over /\ o.start < horizon
    BY <1>2, <1>4, <2>2
  <2>4. o.end = horizon \/ \E j \in 1..n : o.end = segment[j].time
    BY <2>1 DEF FoundIn
  <2>5. o.end \in Int
    BY <1>2, <1>4, <2>4
  <2>6. generic[o.type].minDuration = point.minDuration
    BY <1>6, <2>1 DEF FoundIn
  <2>7. o.end - o.start > point.minDuration
    BY <2>1, <2>6 DEF FoundIn
  <2> QED
    BY <2>3, <2>5, <2>7
<1>9. ASSUME over <= start
      PROVE  {o \in all : start <= o.start /\ o.start < end} = {}
  <2> HIDE DEF all
  <2> QED
    BY <1>4, <1>8, <1>9
<1>10. ASSUME ~(over <= start)
       PROVE  {o \in detected : (start <= o.start /\ o.start < end) /\ o.end > o.start}
                = {o \in all : start <= o.start /\ o.start < end}
  <2>1. start <= horizon
    BY <1>4, <1>10 DEF horizon
  <2>2. detected = {o \in all : start <= o.start /\ o.start < horizon}
    <3>1. \A i \in 1..Len(segment) : segment[i].time < horizon
      BY <1>4
    <3>2. horizon \in Int
      BY <1>4
    <3> QED
      BY <2>1, <3>1, <3>2, DetectFinds
  <2> HIDE DEF all, detected
  <2> QED
    BY <1>8, <2>2
<1>11. Visc!SegmentEvents(point, segment, allow, start, end)
        = IF over <= start THEN {}
          ELSE {o \in detected : (start <= o.start /\ o.start < end) /\ o.end > o.start}
  BY <1>5, <1>7, SameDetect
<1> HIDE DEF all, detected
<1>12. Visc!SegmentEvents(point, segment, allow, start, end)
         = {o \in all : start <= o.start /\ o.start < end}
  BY <1>9, <1>10, <1>11
<1> QED
  BY <1>12 DEF all, generic, horizon, over, boundary

-----------------------------------------------------------------------------
\* A part of the metric that disturbances leave.
IsLeft(b, q, disturbances) ==
  /\ Timed(q) /\ Len(q) > 0
  /\ \A i \in 1..Len(q) : /\ OnGrid(b, q[i].time)
                          /\ \A d \in disturbances : ~(d.start <= q[i].time /\ q[i].time < d.until)
  /\ \A i \in 2..Len(q) : q[i].time = q[i - 1].time + b

\* A disturbance that does not begin before such a part begins behind it.
LEMMA BehindPart ==
  ASSUME NEW b \in Nat \ {0}, NEW disturbances, NEW q, IsLeft(b, q, disturbances),
         NEW d \in disturbances, OnGrid(b, d.start), d.until \in Int, d.start < d.until,
         NEW i \in 1..Len(q), q[i].time < d.until
  PROVE  /\ q[Len(q)].time + b <= d.start
         /\ \A j \in 1..Len(q) : q[j].time <= d.start
<1> DEFINE n == Len(q)
           T == {k \in Nat : i + k <= n => q[i + k].time < d.start}
<1>1. n \in Nat /\ i \in Nat /\ i <= n /\ n \in 1..n /\ n - i \in Nat
  <2>1. n \in Nat
    BY TimedShape DEF IsLeft
  <2> QED
    BY <2>1 DEF IsLeft
<1>2. /\ d.start \in Nat
      /\ \A j \in 1..n : /\ q[j].time \in Nat /\ OnGrid(b, q[j].time)
                         /\ ~(d.start <= q[j].time /\ q[j].time < d.until)
                         /\ q[j].time <= q[n].time
  <2>1. /\ \A j \in 1..n : q[j].time \in Nat
        /\ \A j, k \in 1..n : j <= k => q[j].time <= q[k].time
    BY DEF IsLeft, Timed
  <2>2. \A j \in 1..n : /\ OnGrid(b, q[j].time)
                         /\ ~(d.start <= q[j].time /\ q[j].time < d.until)
    BY DEF IsLeft
  <2>3. d.start \in Nat
    BY DEF OnGrid
  <2> QED
    BY <1>1, <2>1, <2>2, <2>3
<1>3. 0 \in T
  BY <1>1, <1>2
<1>4. ASSUME NEW k \in Nat, k \in T PROVE k + 1 \in T
  <2> SUFFICES ASSUME i + (k + 1) <= n PROVE q[i + (k + 1)].time < d.start
    OBVIOUS
  <2>1. /\ i + k \in 1..n /\ i + (k + 1) \in 1..n /\ i + (k + 1) \in 2..n /\ i + k <= n
        /\ i + (k + 1) - 1 = i + k
    BY <1>1
  <2>2. q[i + k].time < d.start
    BY <1>4, <2>1
  <2>3. q[i + (k + 1)].time = q[i + k].time + b
    BY <2>1 DEF IsLeft
  <2>4. q[i + k].time + b <= d.start
    <3> DEFINE t == q[i + k].time
    <3>1. OnGrid(b, t)
      BY <1>2, <2>1
    <3> HIDE DEF t
    <3>2. t < d.start
      BY <2>2 DEF t
    <3>3. t + b <= d.start
      BY <3>1, <3>2, NextOnGrid
    <3> QED
      BY <3>3 DEF t
  <2> QED
    BY <1>2, <2>1, <2>3, <2>4
<1> HIDE DEF T
<1>5. Nat \subseteq T
  BY <1>3, <1>4, SetInduction
<1>6. q[n].time < d.start
  <2>1. n - i \in T /\ i + (n - i) = n
    BY <1>1, <1>5
  <2> QED
    BY <1>1, <2>1 DEF T
<1>7. q[n].time + b <= d.start
  <2> DEFINE t == q[n].time
  <2>1. OnGrid(b, t)
    BY <1>1, <1>2
  <2> HIDE DEF t
  <2>2. t < d.start
    BY <1>6 DEF t
  <2>3. t + b <= d.start
    BY <2>1, <2>2, NextOnGrid
  <2> QED
    BY <2>3 DEF t
<1>8. \A j \in 1..n : q[j].time <= d.start
  BY <1>1, <1>2, <1>6
<1> QED
  BY <1>7, <1>8

\* What is left of the metric of a window, and its parts.
LEMMA PartsAre ==
  ASSUME HistoryInv, rule = "viscosity", NEW point \in ViscosityPoints, NEW w
  PROVE  LET disturbed == Disturbed(point, w)
             clean == Visc!Exclude(ViscosityMetric(point, w), disturbed)
         IN  /\ \A d \in disturbed :
                  OnGrid(point.bucket, d.start) /\ d.until \in Int /\ d.start < d.until
             /\ Timed(clean)
             /\ \A q \in Visc!SplitContiguous(point, clean) :
                  /\ IsLeft(point.bucket, q, disturbed)
                  /\ \A i \in 1..Len(q) : q[i].time < now
<1> DEFINE b == point.bucket
           metric == ViscosityMetric(point, w)
           disturbed == Disturbed(point, w)
           clean == Visc!Exclude(metric, disturbed)
<1>1. IsMetric(b, metric) /\ \A i \in 1..Len(metric) : metric[i].time < now
  BY ViscosityMetricIs
<1>2. \A d \in disturbed : OnGrid(b, d.start) /\ d.until \in Int /\ d.start < d.until
  <2> TAKE d \in disturbed
  <2>1. d \in Visc!Disturbances(point, metric)
    BY DEF Disturbed
  <2> HIDE DEF metric
  <2> QED
    BY <1>1, <2>1, PointParsed, DisturbanceBegins
<1> HIDE DEF metric, disturbed
<1>3. /\ Timed(clean)
      /\ \A k \in 1..Len(clean) :
           /\ \E i \in 1..Len(metric) : clean[k] = metric[i]
           /\ \A d \in disturbed : ~(d.start <= clean[k].time /\ clean[k].time < d.until)
  BY <1>1, CleanIs
<1> HIDE DEF clean
<1>4. \A k \in 1..Len(clean) : OnGrid(b, clean[k].time) /\ clean[k].time < now
  <2> TAKE k \in 1..Len(clean)
  <2>1. PICK i \in 1..Len(metric) : clean[k] = metric[i]
    BY <1>3
  <2> QED
    BY <1>1, <2>1 DEF IsMetric, IsItem
<1>5. ASSUME NEW q \in Visc!SplitContiguous(point, clean)
      PROVE  IsLeft(b, q, disturbed) /\ \A i \in 1..Len(q) : q[i].time < now
  <2>1. IsContiguous(point.bucket, q, clean)
    BY <1>3, SplitIs
  <2>2. ASSUME NEW i \in 1..Len(q)
        PROVE  /\ OnGrid(b, q[i].time) /\ q[i].time < now
               /\ \A d \in disturbed : ~(d.start <= q[i].time /\ q[i].time < d.until)
    <3>1. PICK k \in 1..Len(clean) : q[i] = clean[k]
      BY <2>1 DEF IsContiguous
    <3> QED
      BY <1>3, <1>4, <3>1
  <2> QED
    BY <2>1, <2>2 DEF IsContiguous, IsLeft
<1> QED
  BY <1>2, <1>3, <1>5 DEF clean, disturbed, metric

\* The exceedances of a part that begin in a window.
LEMMA PartEvents ==
  ASSUME HistoryInv, NEW point \in ViscosityPoints, NEW w \in Window,
         ViscosityAssessed(point, w), NEW disturbed, NEW q,
         IsLeft(point.bucket, q, disturbed), \A i \in 1..Len(q) : q[i].time < now,
         NEW allow \in BOOLEAN
  PROVE  LET over == Last(q).time + point.bucket
             horizon == IF over < now THEN over ELSE now
         IN  Visc!SegmentEvents(point, q, allow, Start(w), End(w))
               = {o \in SegmentExceedances(Visc!GenericPoint(point), q, Start(w), horizon, 0, allow) :
                    Start(w) <= o.start /\ o.start < End(w)}
<1> DEFINE start == Start(w)
           end == End(w)
<1>1. start \in Int /\ end \in Int /\ start < end /\ now \in Int
  BY WindowIs DEF HistoryInv
<1>2. point.bucket \in Nat \ {0} /\ point.minDuration \in Nat \ {0} /\ point.mergeGap \in Nat
  BY PointParsed
<1>3. now = Visc!ViscosityEnd(point, end)
  BY DEF ViscosityAssessed
<1> HIDE DEF start, end
<1>4. end <= now
  BY <1>1, <1>2, <1>3 DEF Visc!ViscosityEnd, Visc!CONFIRMATION_MARGIN
<1>5. Timed(q) /\ Len(q) > 0
  BY DEF IsLeft
<1> DEFINE over == Last(q).time + point.bucket
           horizon == IF over < now THEN over ELSE now
<1>6. Visc!SegmentEvents(point, q, allow, start, end)
        = {o \in SegmentExceedances(Visc!GenericPoint(point), q, start, horizon, 0, allow) :
             start <= o.start /\ o.start < end}
  BY <1>1, <1>2, <1>3, <1>4, <1>5, SegmentEventsAre
<1> QED
  BY <1>6 DEF start, end

-----------------------------------------------------------------------------
\* What the rule charges is what it finds in the parts of the metric.
LEMMA ChargedAre ==
  ASSUME NEW point, NEW w
  PROVE  LET disturbed == Disturbed(point, w)
             clean == Visc!Exclude(ViscosityMetric(point, w), disturbed)
             events(q) == Visc!SegmentEvents(point, q,
                            Visc!FollowsExclusion(q, clean, disturbed), Start(w), End(w))
         IN  ViscosityCharged(point, w)
               = {[start |-> o.start, end |-> o.end, type |-> o.type, open |-> o.open,
                   units |-> Visc!PenaltyUnits(point, o.end - o.start),
                   checkpoints |-> Visc!Checkpoints(point, o.start, o.end - o.start)] :
                    o \in UNION {events(q) : q \in Visc!SplitContiguous(point, clean)}}
BY DEF ViscosityCharged, Disturbed, ViscosityMetric, Visc!ViscosityEvents

\* An event that the rule charges lies in a part of the metric.
LEMMA ChargedIs ==
  ASSUME HistoryInv, NEW point \in ViscosityPoints, NEW w \in Window,
         ViscosityAssessed(point, w), NEW e \in ViscosityCharged(point, w)
  PROVE  \E q, horizon, o :
           /\ IsLeft(point.bucket, q, Disturbed(point, w))
           /\ \A i \in 1..Len(q) : q[i].time < now
           /\ horizon \in Int /\ horizon <= q[Len(q)].time + point.bucket
           /\ FoundIn(Visc!GenericPoint(point), q, horizon, o)
           /\ e.start = o.start /\ e.end = o.end
           /\ e.units = Visc!PenaltyUnits(point, o.end - o.start)
           /\ e.checkpoints = Visc!Checkpoints(point, o.start, o.end - o.start)
<1> DEFINE disturbed == Disturbed(point, w)
           clean == Visc!Exclude(ViscosityMetric(point, w), disturbed)
           parts == Visc!SplitContiguous(point, clean)
           allow(q) == Visc!FollowsExclusion(q, clean, disturbed)
           events(q) == Visc!SegmentEvents(point, q, allow(q), Start(w), End(w))
<1>1. rule = "viscosity"
  BY DEF ViscosityAssessed
<1>2. \A q \in parts : IsLeft(point.bucket, q, disturbed) /\ \A i \in 1..Len(q) : q[i].time < now
  BY <1>1, PartsAre
<1>3. ViscosityCharged(point, w)
        = {[start |-> o.start, end |-> o.end, type |-> o.type, open |-> o.open,
            units |-> Visc!PenaltyUnits(point, o.end - o.start),
            checkpoints |-> Visc!Checkpoints(point, o.start, o.end - o.start)] :
             o \in UNION {events(q) : q \in parts}}
  BY ChargedAre
<1>4. \A q : allow(q) \in BOOLEAN
  BY DEF Visc!FollowsExclusion
<1> HIDE DEF disturbed, clean, parts, allow
<1>5. PICK q \in parts : \E o \in events(q) :
        e = [start |-> o.start, end |-> o.end, type |-> o.type, open |-> o.open,
             units |-> Visc!PenaltyUnits(point, o.end - o.start),
             checkpoints |-> Visc!Checkpoints(point, o.start, o.end - o.start)]
  <2> HIDE DEF events
  <2> QED
    BY <1>3
<1>6. PICK o \in events(q) :
        e = [start |-> o.start, end |-> o.end, type |-> o.type, open |-> o.open,
             units |-> Visc!PenaltyUnits(point, o.end - o.start),
             checkpoints |-> Visc!Checkpoints(point, o.start, o.end - o.start)]
  BY <1>5
<1>7. IsLeft(point.bucket, q, disturbed) /\ \A i \in 1..Len(q) : q[i].time < now
  BY <1>2
<1> DEFINE over == Last(q).time + point.bucket
           horizon == IF over < now THEN over ELSE now
           generic == Visc!GenericPoint(point)
           yes == allow(q)
           start == Start(w)
<1>8. yes \in BOOLEAN
  BY <1>4
<1> HIDE DEF yes
<1>9. events(q) = {x \in SegmentExceedances(generic, q, start, horizon, 0, yes) :
                     start <= x.start /\ x.start < End(w)}
  BY <1>7, <1>8, PartEvents DEF yes
<1>10. o \in SegmentExceedances(generic, q, start, horizon, 0, yes)
  BY <1>9
<1>11. Timed(q) /\ start \in Int
  BY <1>7, WindowIs DEF IsLeft
<1> HIDE DEF generic, horizon, start, events
<1>12. FoundIn(generic, q, horizon, o)
  BY <1>10, <1>11, ExceedanceIs
<1>13. horizon \in Int /\ horizon <= q[Len(q)].time + point.bucket
  <2>1. Len(q) \in 1..Len(q) /\ now \in Int /\ point.bucket \in Nat
    <3>1. Len(q) \in Nat /\ Len(q) > 0
      BY <1>7, <1>11, TimedShape DEF IsLeft
    <3> QED
      BY <3>1, PointParsed DEF HistoryInv
  <2>2. q[Len(q)].time \in Nat
    BY <1>11, <2>1 DEF Timed
  <2> QED
    BY <2>1, <2>2 DEF horizon, Last
<1> QED
  BY <1>6, <1>7, <1>12, <1>13 DEF generic, disturbed

\* No exceedance that is charged touches what is removed for a disturbance.
LEMMA ViscosityUndisturbed ==
  ASSUME HistoryInv
  PROVE  NothingChargedWhileDisturbed
<1> SUFFICES ASSUME NEW point \in ViscosityPoints, NEW w \in Window, ViscosityAssessed(point, w),
                    NEW e \in ViscosityCharged(point, w), NEW d \in Disturbed(point, w),
                    ~(d.until <= e.start)
             PROVE  e.end <= d.start
  BY DEF NothingChargedWhileDisturbed
<1> DEFINE disturbed == Disturbed(point, w)
           b == point.bucket
<1>1. PICK q, horizon, o :
        /\ IsLeft(b, q, disturbed)
        /\ horizon \in Int /\ horizon <= q[Len(q)].time + b
        /\ FoundIn(Visc!GenericPoint(point), q, horizon, o)
        /\ e.start = o.start /\ e.end = o.end
  BY ChargedIs
<1>2. OnGrid(b, d.start) /\ d.until \in Int /\ d.start < d.until
  BY PartsAre DEF ViscosityAssessed
<1>3. b \in Nat \ {0} /\ d \in disturbed
  BY PointParsed
<1> HIDE DEF b, disturbed
<1>4. PICK i \in 1..Len(q) : o.start = q[i].time
  BY <1>1 DEF FoundIn
<1>5. Timed(q) /\ \A j \in 1..Len(q) : q[j].time \in Nat
  BY <1>1 DEF IsLeft, Timed
<1>6. q[i].time < d.until
  BY <1>1, <1>2, <1>4, <1>5
<1>7. q[Len(q)].time + b <= d.start /\ \A j \in 1..Len(q) : q[j].time <= d.start
  BY <1>1, <1>2, <1>3, <1>6, BehindPart
<1>8. o.end = horizon \/ \E j \in 1..Len(q) : o.end = q[j].time
  BY <1>1 DEF FoundIn
<1>9. Len(q) \in 1..Len(q)
  BY <1>1, <1>5, TimedShape DEF IsLeft
<1>10. d.start \in Nat
  BY <1>2 DEF OnGrid
<1> QED
  BY <1>1, <1>3, <1>5, <1>7, <1>8, <1>9, <1>10

-----------------------------------------------------------------------------
\* The rule charges the exceedances of the parts that begin in the window.
LEMMA ViscosityRuns ==
  ASSUME HistoryInv
  PROVE  ViscosityRunsFound
<1> SUFFICES ASSUME NEW point \in ViscosityPoints, NEW w \in Window, ViscosityAssessed(point, w)
    PROVE
    LET metric == ViscosityMetric(point, w)
        disturbed == Visc!Disturbances(point, metric)
        clean == Visc!Exclude(metric, disturbed)
        horizon(segment) == IF Last(segment).time + point.bucket < now
                            THEN Last(segment).time + point.bucket ELSE now
        first(segment) ==
          \E d \in disturbed :
            /\ d.until <= segment[1].time
            /\ \A m \in Range(clean) : m.time < d.until \/ segment[1].time <= m.time
        Of(segment) == SegmentExceedances(Visc!GenericPoint(point), segment, Start(w),
                                          horizon(segment), 0, first(segment))
    IN  {[start |-> e.start, end |-> e.end, type |-> e.type, open |-> e.open] :
           e \in ViscosityCharged(point, w)}
          = {e \in UNION {Of(segment) : segment \in Visc!SplitContiguous(point, clean)} :
               Start(w) <= e.start /\ e.start < End(w)}
  BY DEF ViscosityRunsFound
<1> DEFINE metric == ViscosityMetric(point, w)
           disturbed == Disturbed(point, w)
           clean == Visc!Exclude(metric, disturbed)
           parts == Visc!SplitContiguous(point, clean)
           over(q) == Last(q).time + point.bucket
           horizon(q) == IF over(q) < now THEN over(q) ELSE now
           first(q) ==
             \E d \in disturbed :
               /\ d.until <= q[1].time
               /\ \A m \in Range(clean) : m.time < d.until \/ q[1].time <= m.time
           generic == Visc!GenericPoint(point)
           start == Start(w)
           end == End(w)
           allow(q) == Visc!FollowsExclusion(q, clean, disturbed)
           events(q) == Visc!SegmentEvents(point, q, allow(q), start, end)
           Of(q) == SegmentExceedances(generic, q, start, horizon(q), 0, first(q))
<1>1. rule = "viscosity"
  BY DEF ViscosityAssessed
<1>2. /\ \A d \in disturbed : OnGrid(point.bucket, d.start) /\ d.until \in Int /\ d.start < d.until
      /\ Timed(clean)
      /\ \A q \in parts : /\ IsLeft(point.bucket, q, disturbed)
                          /\ \A i \in 1..Len(q) : q[i].time < now
  BY <1>1, PartsAre
<1>3. ViscosityCharged(point, w)
        = {[start |-> o.start, end |-> o.end, type |-> o.type, open |-> o.open,
            units |-> Visc!PenaltyUnits(point, o.end - o.start),
            checkpoints |-> Visc!Checkpoints(point, o.start, o.end - o.start)] :
             o \in UNION {events(q) : q \in parts}}
  BY ChargedAre
<1>4. Visc!Disturbances(point, metric) = disturbed
  BY DEF Disturbed
<1>5. Visc!Range(clean) = Range(clean)
  BY DEF Visc!Range, Range
<1> HIDE DEF metric, disturbed, clean, parts
<1>6. \A m \in Range(clean) : m.time \in Nat
  BY <1>2, TimedShape DEF Timed, Range
<1>7. ASSUME NEW q \in parts
      PROVE  /\ Timed(q) /\ q[1].time \in Nat
             /\ allow(q) \in BOOLEAN /\ allow(q) = first(q)
  <2>1. Timed(q) /\ Len(q) \in Nat /\ Len(q) > 0
    BY <1>2, TimedShape DEF IsLeft
  <2>2. q[1].time \in Nat
    BY <2>1 DEF Timed
  <2>3. allow(q) <=> \E d \in disturbed :
                       /\ d.until <= q[1].time
                       /\ ~\E m \in Range(clean) : d.until <= m.time /\ m.time < q[1].time
    BY <1>5 DEF Visc!FollowsExclusion
  <2>4. allow(q) \in BOOLEAN
    BY DEF Visc!FollowsExclusion
  <2>5. \A d \in disturbed, m \in Range(clean) :
          ~(d.until <= m.time /\ m.time < q[1].time)
            <=> (m.time < d.until \/ q[1].time <= m.time)
    BY <1>2, <1>6, <2>2
  <2>6. allow(q) <=> first(q)
    <3> HIDE DEF allow
    <3> QED
      BY <2>3, <2>5
  <2>7. first(q) \in BOOLEAN
    OBVIOUS
  <2> HIDE DEF allow, first
  <2> QED
    BY <2>1, <2>2, <2>4, <2>6, <2>7
<1> HIDE DEF allow, first
<1>8. ASSUME NEW q \in parts
      PROVE  /\ events(q) = {o \in Of(q) : start <= o.start /\ o.start < end}
             /\ \A o \in Of(q) :
                  o = [start |-> o.start, end |-> o.end, type |-> o.type, open |-> o.open]
  <2> DEFINE yes == allow(q)
             h == horizon(q)
  <2>1. yes \in BOOLEAN /\ yes = first(q) /\ Timed(q)
    BY <1>7
  <2> HIDE DEF yes
  <2>2. events(q) = {o \in SegmentExceedances(generic, q, start, horizon(q), 0, yes) :
                       start <= o.start /\ o.start < end}
    BY <1>2, <2>1, PartEvents DEF yes
  <2>3. start \in Int
    BY WindowIs
  <2> HIDE DEF generic, h, start
  <2>4. \A o \in SegmentExceedances(generic, q, start, h, 0, yes) :
          o = [start |-> o.start, end |-> o.end, type |-> o.type, open |-> o.open]
    <3> TAKE o \in SegmentExceedances(generic, q, start, h, 0, yes)
    <3>1. FoundIn(generic, q, h, o)
      BY <2>1, <2>3, ExceedanceIs
    <3> QED
      BY <3>1 DEF FoundIn
  <2> QED
    BY <2>1, <2>2, <2>4 DEF h
<1> HIDE DEF generic, start, end, horizon, events, Of
<1> DEFINE E == UNION {events(q) : q \in parts}
<1>9. E = {e \in UNION {Of(q) : q \in parts} : start <= e.start /\ e.start < end}
  BY <1>8
<1>10. \A o \in E : o = [start |-> o.start, end |-> o.end, type |-> o.type, open |-> o.open]
  BY <1>8
<1> HIDE DEF E
<1>11. {[start |-> e.start, end |-> e.end, type |-> e.type, open |-> e.open] :
          e \in {[start |-> o.start, end |-> o.end, type |-> o.type, open |-> o.open,
                  units |-> Visc!PenaltyUnits(point, o.end - o.start),
                  checkpoints |-> Visc!Checkpoints(point, o.start, o.end - o.start)] : o \in E}} = E
  <2> DEFINE F(o) == [start |-> o.start, end |-> o.end, type |-> o.type, open |-> o.open,
                      units |-> Visc!PenaltyUnits(point, o.end - o.start),
                      checkpoints |-> Visc!Checkpoints(point, o.start, o.end - o.start)]
             G(e) == [start |-> e.start, end |-> e.end, type |-> e.type, open |-> e.open]
  <2>1. ASSUME NEW o \in E PROVE G(F(o)) = o
    <3>1. G(F(o)) = [start |-> o.start, end |-> o.end, type |-> o.type, open |-> o.open]
      OBVIOUS
    <3> HIDE DEF F, G
    <3> QED
      BY <1>10, <3>1
  <2> HIDE DEF F, G
  <2>2. {G(e) : e \in {F(o) : o \in E}} = E
    BY <2>1
  <2> QED
    BY <2>2 DEF F, G
<1>12. {[start |-> e.start, end |-> e.end, type |-> e.type, open |-> e.open] :
           e \in ViscosityCharged(point, w)}
         = {e \in UNION {Of(q) : q \in parts} : start <= e.start /\ e.start < end}
  BY <1>3, <1>9, <1>11 DEF E
<1> QED
  BY <1>4, <1>12 DEF Of, generic, horizon, first, parts, clean, metric, start, end

\* The rule component_viscosity_control charges, in each uninterrupted part of the
\* metric that disturbances leave, the merged exceedances that begin in the window, and
\* nothing of what is removed for a disturbance.
THEOREM ViscosityEventsCharged == Spec => []ViscosityFound
<1>1. HistoryInv => ViscosityFound
  BY ViscosityRuns, ViscosityUndisturbed DEF ViscosityFound
<1> QED
  BY <1>1, HistoryOrdered, PTL

-----------------------------------------------------------------------------
\* The first n numbers of a progression from a with a positive step.
Progression(a, step, n) == {a + k * step : k \in 0..(n - 1)}

\* A progression of n numbers has n elements.
LEMMA ProgressionSize ==
  ASSUME NEW a \in Int, NEW step \in Nat \ {0}, NEW n \in Nat
  PROVE  IsFiniteSet(Progression(a, step, n)) /\ Cardinality(Progression(a, step, n)) = n
<1> DEFINE P(m) == Progression(a, step, m)
           T == {m \in Nat : IsFiniteSet(P(m)) /\ Cardinality(P(m)) = m}
<1>1. 0 \in T
  <2>1. P(0) = {}
    BY DEF Progression
  <2> QED
    BY <2>1, FS_EmptySet
<1>2. ASSUME NEW m \in Nat, m \in T PROVE m + 1 \in T
  <2> DEFINE x == a + m * step
  <2>1. P(m + 1) = P(m) \cup {x}
    <3>1. 0..((m + 1) - 1) = 0..(m - 1) \cup {m}
      OBVIOUS
    <3> QED
      BY <3>1 DEF Progression
  <2>2. x \notin P(m)
    <3> SUFFICES ASSUME NEW k \in 0..(m - 1), a + k * step = a + m * step PROVE FALSE
      BY DEF Progression
    <3>1. k \in Nat /\ k < m /\ k * step \in Int /\ m * step \in Int /\ k * step < m * step
      OBVIOUS
    <3> QED
      BY <3>1
  <2>3. IsFiniteSet(P(m)) /\ Cardinality(P(m)) = m
    BY <1>2
  <2> HIDE DEF P, x
  <2>4. IsFiniteSet(P(m + 1)) /\ Cardinality(P(m + 1)) = m + 1
    BY <2>1, <2>2, <2>3, FS_AddElement
  <2> QED
    BY <2>4
<1> HIDE DEF T
<1>3. Nat \subseteq T
  BY <1>1, <1>2, SetInduction
<1> QED
  BY <1>3 DEF T

\* What PenaltiesRepeat says of an event from start to end.
Repeats(point, start, end, units, checkpoints) ==
  LET due == {t \in start..end :
                /\ t - start >= point.minDuration
                /\ \/ t - start = point.minDuration
                   \/ /\ point.penalty.enabled
                      /\ (t - start - point.minDuration) % point.penalty.interval = 0}
      before(t) == Cardinality({u \in due : u < t})
  IN  /\ checkpoints = {t \in due : \/ point.penalty.maxUnits = 0
                                    \/ before(t) < point.penalty.maxUnits}
      /\ units = Cardinality(checkpoints)

\* The members of a set that come after fewer than so many others.
FirstOnes(S, max) == {t \in S : max = 0 \/ Cardinality({u \in S : u < t}) < max}

\* The first of the times that are due, as many as there may be.
LEMMA FirstOfProgression ==
  ASSUME NEW a \in Int, NEW step \in Nat \ {0}, NEW n \in Nat, NEW max \in Nat
  PROVE  FirstOnes(Progression(a, step, n), max)
           = Progression(a, step, IF max = 0 \/ n <= max THEN n ELSE max)
<1> DEFINE D == Progression(a, step, n)
           before(t) == Cardinality({u \in D : u < t})
           m == IF max = 0 \/ n <= max THEN n ELSE max
           at(k) == a + k * step
<1>1. \A k \in Nat, j \in Nat : at(j) \in Int /\ (at(j) < at(k) <=> j < k)
  <2> TAKE k \in Nat, j \in Nat
  <2>1. j * step \in Int /\ k * step \in Int
    OBVIOUS
  <2>2. j < k => j * step < k * step
    OBVIOUS
  <2>3. k <= j => k * step <= j * step
    OBVIOUS
  <2> QED
    BY <2>1, <2>2, <2>3
<1>2. ASSUME NEW k \in 0..(n - 1) PROVE before(at(k)) = k
  <2>1. {u \in D : u < at(k)} = Progression(a, step, k)
    <3>1. \A u : u \in D <=> \E j \in 0..(n - 1) : u = at(j)
      BY DEF Progression
    <3>2. \A u : u \in Progression(a, step, k) <=> \E j \in 0..(k - 1) : u = at(j)
      BY DEF Progression
    <3>3. \A j \in 0..(n - 1) : j \in Nat
      OBVIOUS
    <3>4. \A j \in 0..(n - 1) : j \in 0..(k - 1) <=> j < k
      OBVIOUS
    <3>5. \A j \in 0..(k - 1) : j \in 0..(n - 1)
      OBVIOUS
    <3> HIDE DEF at, D
    <3> QED
      BY <1>1, <3>1, <3>2, <3>3, <3>4, <3>5
  <2>2. k \in Nat
    OBVIOUS
  <2>3. Cardinality(Progression(a, step, k)) = k
    BY <2>2, ProgressionSize
  <2> HIDE DEF at, D
  <2> QED
    BY <2>1, <2>3
<1>3. \A k \in 0..(n - 1) : (max = 0 \/ k < max) <=> k \in 0..(m - 1)
  OBVIOUS
<1>4. 0..(m - 1) \subseteq 0..(n - 1)
  OBVIOUS
<1> HIDE DEF before, m
<1>5. D = {at(k) : k \in 0..(n - 1)} /\ Progression(a, step, m) = {at(k) : k \in 0..(m - 1)}
  BY DEF Progression
<1> HIDE DEF D, at
<1>6. {t \in D : max = 0 \/ before(t) < max} = Progression(a, step, m)
  BY <1>2, <1>3, <1>4, <1>5
<1>7. FirstOnes(D, max) = {t \in D : max = 0 \/ before(t) < max}
  BY DEF FirstOnes, before
<1> QED
  BY <1>6, <1>7 DEF D, m

\* The times that are due are a progression.
DueTimes(start, end, least, step) ==
  {t \in start..end : t - start >= least /\ (t - start - least) % step = 0}

\* They begin at the minimum, and there is one for each interval that is complete.
LEMMA DueIs ==
  ASSUME NEW start \in Int, NEW end \in Int, NEW least \in Nat, NEW step \in Nat \ {0},
         end - start > least
  PROVE  DueTimes(start, end, least, step)
           = Progression(start + least, step, 1 + ((end - start - least) \div step))
<1> DEFINE a == start + least
           n == 1 + ((end - start - least) \div step)
           D == {t \in start..end : t - start >= least /\ (t - start - least) % step = 0}
           r == end - start - least
<1>1. r \in Nat /\ n \in Nat /\ n - 1 = r \div step
  OBVIOUS
<1>2. ASSUME NEW t \in D PROVE t \in Progression(a, step, n)
  <2> DEFINE s == t - start - least
             k == s \div step
  <2>1. s \in Nat /\ s <= r /\ s % step = 0 /\ t = a + s
    OBVIOUS
  <2> HIDE DEF s, r
  <2>2. k \in Nat /\ s = k * step /\ k <= r \div step
    BY <1>1, <2>1
  <2> HIDE DEF k, n
  <2>3. k \in 0..(n - 1)
    BY <1>1, <2>2
  <2>4. t = a + k * step
    BY <2>1, <2>2
  <2> QED
    BY <2>3, <2>4 DEF Progression
<1>3. ASSUME NEW t \in Progression(a, step, n) PROVE t \in D
  <2>1. PICK k \in 0..(n - 1) : t = a + k * step
    BY DEF Progression
  <2>2. k \in Nat /\ k <= r \div step
    BY <1>1
  <2> DEFINE s == k * step
  <2>3. s \in Nat /\ s <= r /\ s % step = 0
    <3> HIDE DEF r
    <3> QED
      BY <1>1, <2>2
  <2> HIDE DEF s
  <2>4. t = start + least + s
    BY <2>1 DEF s
  <2>5. t \in start..end /\ t - start >= least /\ t - start - least = s
    BY <2>3, <2>4
  <2> QED
    BY <2>3, <2>5
<1> QED
  BY <1>2, <1>3 DEF DueTimes

-----------------------------------------------------------------------------
\* An event that lasts longer than the minimum is penalised as often as it is due.
LEMMA PenaltiesOf ==
  ASSUME NEW point, point.minDuration \in Nat \ {0}, point.penalty.maxUnits \in Nat,
         point.penalty.enabled => point.penalty.interval \in Nat \ {0},
         NEW start \in Int, NEW end \in Int, end - start > point.minDuration
  PROVE  Repeats(point, start, end, Visc!PenaltyUnits(point, end - start),
                 Visc!Checkpoints(point, start, end - start))
<1> DEFINE least == point.minDuration
           max == point.penalty.maxUnits
           step == IF point.penalty.enabled THEN point.penalty.interval ELSE 1
           a == start + least
           n == IF point.penalty.enabled THEN 1 + ((end - start - least) \div step) ELSE 1
           m == IF max = 0 \/ n <= max THEN n ELSE max
           due == {t \in start..end :
                    /\ t - start >= least
                    /\ \/ t - start = least
                       \/ /\ point.penalty.enabled
                          /\ (t - start - least) % point.penalty.interval = 0}
           units == Visc!PenaltyUnits(point, end - start)
           checkpoints == Visc!Checkpoints(point, start, end - start)
           before(t) == Cardinality({u \in due : u < t})
<1>1. /\ least \in Nat \ {0} /\ max \in Nat /\ step \in Nat \ {0} /\ a \in Int
      /\ end - start > least
  OBVIOUS
<1>2. n \in Nat \ {0} /\ m \in Nat \ {0}
  <2> HIDE DEF least, max, step
  <2> QED
    BY <1>1
<1>3. due = Progression(a, step, n)
  <2>1. CASE point.penalty.enabled
    <3>1. \A t \in start..end : t - start = least => (t - start - least) % step = 0
      BY <1>1
    <3>2. due = {t \in start..end : t - start >= least /\ (t - start - least) % step = 0}
      BY <2>1, <3>1
    <3>0. least \in Nat
      BY <1>1
    <3> HIDE DEF due, least, step
    <3>3. due = Progression(start + least, step, 1 + ((end - start - least) \div step))
      <4>1. least \in Nat /\ step \in Nat \ {0} /\ end - start > least
        BY <1>1
      <4>2. DueTimes(start, end, least, step)
              = Progression(start + least, step, 1 + ((end - start - least) \div step))
        BY <4>1, DueIs
      <4> QED
        BY <3>2, <4>2 DEF DueTimes
    <3>4. a = start + least /\ n = 1 + ((end - start - least) \div step)
      BY <2>1 DEF step
    <3> HIDE DEF a, n
    <3> QED
      BY <3>3, <3>4
  <2>2. CASE ~point.penalty.enabled
    <3>1. due = {start + least}
      BY <1>1, <2>2
    <3>2. Progression(a, step, n) = {start + least}
      BY <1>1, <2>2 DEF Progression
    <3> QED
      BY <3>1, <3>2
  <2> QED
    BY <2>1, <2>2
<1>4. units = m
  <2>1. units = IF max = 0 THEN n ELSE Visc!Min({n, max})
    <3> DEFINE k == end - start
    <3>1. ~(k < point.minDuration)
      BY <1>1
    <3>2. n = IF point.penalty.enabled
              THEN 1 + ((k - point.minDuration) \div point.penalty.interval) ELSE 1
      OBVIOUS
    <3> HIDE DEF k, n
    <3>3. Visc!PenaltyUnits(point, k)
            = IF point.penalty.maxUnits = 0 THEN n ELSE Visc!Min({n, point.penalty.maxUnits})
      BY <3>1, <3>2 DEF Visc!PenaltyUnits
    <3> QED
      BY <3>3 DEF k
  <2>2. Visc!Min({n, max}) = IF max < n THEN max ELSE n
    BY <1>1, <1>2, LesserOf
  <2> HIDE DEF n, max
  <2> QED
    BY <1>1, <1>2, <2>1, <2>2
<1> HIDE DEF units
<1>5. checkpoints = Progression(a, step, m)
  <2>1. checkpoints = IF point.penalty.enabled
                      THEN {start + least + k * point.penalty.interval : k \in 0..(m - 1)}
                      ELSE {start + least}
    BY <1>2, <1>4 DEF Visc!Checkpoints, units
  <2>2. CASE point.penalty.enabled
    BY <2>1, <2>2 DEF Progression
  <2>3. CASE ~point.penalty.enabled
    <3>1. m = 1
      BY <1>1, <1>2, <2>3
    <3>2. Progression(a, step, 1) = {start + least}
      BY <1>1 DEF Progression
    <3> QED
      BY <2>1, <2>3, <3>1, <3>2
  <2> QED
    BY <2>2, <2>3
<1> HIDE DEF checkpoints, due, n, m, a, step
<1>6. {t \in due : max = 0 \/ before(t) < max} = Progression(a, step, m)
  <2>1. a \in Int /\ step \in Nat \ {0} /\ n \in Nat /\ max \in Nat
    BY <1>1, <1>2 DEF a, step
  <2> HIDE DEF max
  <2>2. FirstOnes(Progression(a, step, n), max) = Progression(a, step, m)
    BY <2>1, FirstOfProgression DEF m
  <2>3. FirstOnes(due, max) = {t \in due : max = 0 \/ before(t) < max}
    BY DEF FirstOnes
  <2> QED
    BY <1>3, <2>2, <2>3
<1>7. Cardinality(checkpoints) = m
  BY <1>1, <1>2, <1>5, ProgressionSize
<1>8. checkpoints = {t \in due : max = 0 \/ before(t) < max} /\ units = Cardinality(checkpoints)
  BY <1>4, <1>5, <1>6, <1>7
<1> QED
  BY <1>8 DEF Repeats, due, units, checkpoints

\* The rule component_viscosity_control penalises an exceedance when it has lasted the
\* minimum and after each further interval, as often as the point allows.
THEOREM PenaltiesCharged == Spec => []PenaltiesRepeat
<1>1. ASSUME HistoryInv PROVE PenaltiesRepeat
  <2>1. ASSUME NEW point \in ViscosityPoints, NEW w \in Window, ViscosityAssessed(point, w),
               NEW e \in ViscosityCharged(point, w)
        PROVE  Repeats(point, e.start, e.end, e.units, e.checkpoints)
    <3> DEFINE generic == Visc!GenericPoint(point)
    <3>1. PICK q, horizon, o :
            /\ IsLeft(point.bucket, q, Disturbed(point, w))
            /\ horizon \in Int
            /\ FoundIn(generic, q, horizon, o)
            /\ e.start = o.start /\ e.end = o.end
            /\ e.units = Visc!PenaltyUnits(point, o.end - o.start)
            /\ e.checkpoints = Visc!Checkpoints(point, o.start, o.end - o.start)
      BY <1>1, <2>1, ChargedIs
    <3>2. generic.low.minDuration = point.minDuration /\ generic.high.minDuration = point.minDuration
      BY DEF Visc!GenericPoint
    <3> HIDE DEF generic
    <3>3. \A i \in 1..Len(q) : q[i].time \in Int
      BY <3>1 DEF IsLeft, OnGrid
    <3>4. /\ o.start \in Int /\ o.end \in Int
          /\ o.end - o.start > point.minDuration
      BY <3>1, <3>2, <3>3 DEF FoundIn
    <3>5. Repeats(point, o.start, o.end, Visc!PenaltyUnits(point, o.end - o.start),
                  Visc!Checkpoints(point, o.start, o.end - o.start))
      BY <3>4, PointParsed, PenaltiesOf
    <3> QED
      BY <3>1, <3>5
  <2> QED
    BY <2>1 DEF PenaltiesRepeat, Repeats
<1> QED
  BY <1>1, HistoryOrdered, PTL

-----------------------------------------------------------------------------
\* What is charged of a run that is over.
ClosedEvent(obs, i, end) ==
  [start |-> obs[i].time, end |-> end, type |-> obs[i].dir, open |-> FALSE]
OpenEvent(obs, i, end) ==
  [start |-> obs[i].time, end |-> end, type |-> obs[i].dir, open |-> TRUE]
ClosedOccurrence(point, run, end) == Flow!Occurrence(point, run, end, FALSE)
OpenOccurrence(point, run, end) == Flow!Occurrence(point, run, end, TRUE)
LongRun(point, e) ==
  IF e.end > e.start /\ e.end - e.start >= point.minDuration THEN {e} ELSE {}

\* When a run of the first n observations that deviates last at l is over.
EndOfRun(obs, n, l) ==
  IF l = n \/ obs[l + 1].fresh THEN obs[l].time ELSE obs[l + 1].time

ClosedRun(point, obs, gap, k) ==
  LongRun(point, ClosedEvent(obs, k, EndOfRun(obs, Len(obs), LastOf(obs, gap, k))))
ClosedBefore(point, obs, gap, i) ==
  UNION {ClosedRun(point, obs, gap, k) : k \in {x \in RunStarts(obs, gap) : x < i}}

\* The run that the detector follows.
FollowedRun(obs, n, i, l) ==
  [dir |-> obs[i].dir, start |-> obs[i].time, pending |-> IF l = n THEN 0 ELSE obs[l + 1].time]

RunState(run, last, found) == [run |-> run, last |-> last, found |-> found]

NothingYet(obs, n, run, found) ==
  (\A k \in 1..n : obs[k].dir = "none") /\ run = Flow!NoRun /\ found = {}
Follows(point, obs, gap, n, run, found) ==
  \E i, l : /\ Current(obs, gap, n, i, l) /\ ~Broken(obs, l, n)
            /\ run = FollowedRun(obs, n, i, l) /\ found = ClosedBefore(point, obs, gap, i)
HasClosed(point, obs, gap, n, m, run, found) ==
  \E i, l : /\ Current(obs, gap, n, i, l) /\ Broken(obs, l, m)
            /\ run = Flow!NoRun
            /\ found = ClosedBefore(point, obs, gap, i)
                         \cup LongRun(point, ClosedEvent(obs, i, EndOfRun(obs, n, l)))
HasCut(point, obs, gap, n, run, found) ==
  \E i, l : /\ Current(obs, gap, n, i, l)
            /\ run = Flow!NoRun
            /\ found = ClosedBefore(point, obs, gap, i)
                         \cup LongRun(point, ClosedEvent(obs, i, EndOfRun(obs, n, l)))

\* What the detector knows after n valid observations, and, if g, a hole after them.
RunsKnown(point, obs, gap, n, g, d) ==
  /\ d = RunState(d.run, IF n = 0 \/ g THEN 0 ELSE obs[n].time, d.found)
  /\ \/ NothingYet(obs, n, d.run, d.found)
     \/ ~g /\ Follows(point, obs, gap, n, d.run, d.found)
     \/ ~g /\ HasClosed(point, obs, gap, n, n, d.run, d.found)
     \/ g /\ HasCut(point, obs, gap, n, d.run, d.found)

\* Observations with times, merged over the same time whatever their direction.
IsRunLine(point, obs, gap, N) ==
  /\ IsLine(obs, N)
  /\ \A i \in 1..N : obs[i].time \in Nat \ {0} /\ gap[obs[i].dir] = point.mergeGap
  /\ point.mergeGap \in Nat

-----------------------------------------------------------------------------
\* What _append_occurrence keeps of the run that is followed.
LEMMA OccurrenceIs ==
  ASSUME NEW point, NEW obs, NEW n, NEW i, NEW l, NEW end
  PROVE  /\ ClosedOccurrence(point, FollowedRun(obs, n, i, l), end)
              = LongRun(point, ClosedEvent(obs, i, end))
         /\ OpenOccurrence(point, FollowedRun(obs, n, i, l), end)
              = LongRun(point, OpenEvent(obs, i, end))
BY DEF Flow!Occurrence, LongRun, FollowedRun, ClosedEvent, OpenEvent,
       ClosedOccurrence, OpenOccurrence

\* A hole, when no run is followed.
LEMMA CutIdle ==
  ASSUME NEW point, NEW last, NEW found, NEW o
  PROVE  Flow!Cut(point, RunState(Flow!NoRun, last, found), o) = RunState(Flow!NoRun, 0, found)
<1> DEFINE d == RunState(Flow!NoRun, last, found)
           no == Flow!NoRun
<1>1. /\ d.run = no /\ d.last = last /\ d.found = found
      /\ d = [run |-> no, last |-> last, found |-> found]
  BY DEF RunState
<1> HIDE DEF d
<1>2. Flow!Cut(point, d, o) = [d EXCEPT !.run = no, !.last = 0, !.found = found]
  BY <1>1 DEF Flow!Cut
<1> HIDE DEF no
<1>3. Flow!Cut(point, d, o) = RunState(no, 0, found)
  BY <1>1, <1>2 DEF RunState
<1> QED
  BY <1>3 DEF no, d

\* A hole ends the run that is followed at its recovery, or at the last value.
LEMMA CutRun ==
  ASSUME NEW point, NEW run, run # Flow!NoRun, NEW last, NEW found, NEW o,
         NEW end, end = IF run.pending # 0 THEN run.pending ELSE last, end # 0
  PROVE  Flow!Cut(point, RunState(run, last, found), o)
           = RunState(Flow!NoRun, 0, found \cup ClosedOccurrence(point, run, end))
<1> DEFINE d == RunState(run, last, found)
           no == Flow!NoRun
           more == ClosedOccurrence(point, run, end)
<1>1. /\ d.run = run /\ d.last = last /\ d.found = found
      /\ d = [run |-> run, last |-> last, found |-> found]
  BY DEF RunState
<1> HIDE DEF d
<1>2. Flow!Cut(point, d, o) = [d EXCEPT !.run = no, !.last = 0, !.found = found \cup more]
  BY <1>1 DEF Flow!Cut, ClosedOccurrence
<1> HIDE DEF no, more
<1>3. Flow!Cut(point, d, o) = RunState(no, 0, found \cup more)
  BY <1>1, <1>2 DEF RunState
<1> QED
  BY <1>3 DEF no, more, d

\* Whether there is a hole after l, with one more observation.
LEMMA BrokenNext ==
  ASSUME NEW obs, NEW l \in Nat, NEW n \in Nat, l <= n
  PROVE  /\ Broken(obs, l, n + 1) <=> Broken(obs, l, n) \/ obs[n + 1].fresh
         /\ Broken(obs, l, n) => l < n
         /\ ~Broken(obs, l, n) /\ l < n => ~obs[l + 1].fresh
<1>1. \A k : k \in (l + 1)..(n + 1) <=> k \in (l + 1)..n \/ k = n + 1
  OBVIOUS
<1>2. l < n => l + 1 \in (l + 1)..n
  OBVIOUS
<1>3. ~(l < n) => (l + 1)..n = {}
  OBVIOUS
<1> QED
  BY <1>1, <1>2, <1>3 DEF Broken

\* A hole.
LEMMA CutKnows ==
  ASSUME NEW point, NEW obs, NEW gap, NEW N, IsRunLine(point, obs, gap, N),
         NEW n \in 0..N, NEW g, NEW d, RunsKnown(point, obs, gap, n, g, d), NEW o,
         NEW h, h
  PROVE  RunsKnown(point, obs, gap, n, h, Flow!Cut(point, d, o))
<1> DEFINE run == d.run
           found == d.found
           last == IF n = 0 \/ g THEN 0 ELSE obs[n].time
           no == Flow!NoRun
           e == Flow!Cut(point, d, o)
<1>1. d = RunState(run, last, found)
  BY DEF RunsKnown
<1>2. n \in Nat /\ N \in Nat /\ IsLine(obs, N)
  BY DEF IsRunLine, IsLine
<1>3. ASSUME NEW f, e = RunState(no, 0, f),
             NothingYet(obs, n, no, f) \/ HasCut(point, obs, gap, n, no, f)
      PROVE  RunsKnown(point, obs, gap, n, h, e)
  <2>1. e.run = no /\ e.found = f
    BY <1>3 DEF RunState
  <2> HIDE DEF e, no
  <2> QED
    BY <1>3, <2>1 DEF RunsKnown
<1>8. SUFFICES RunsKnown(point, obs, gap, n, h, e)
  OBVIOUS
<1>9. d.run = run /\ d.found = found
  OBVIOUS
<1> HIDE DEF run, found, last, e
<1>0. e = Flow!Cut(point, d, o)
  BY DEF e
<1>4. CASE NothingYet(obs, n, run, found)
  <2>1. run = no /\ NothingYet(obs, n, no, found)
    BY <1>4 DEF NothingYet
  <2>2. e = RunState(no, 0, found)
    BY <1>0, <1>1, <2>1, CutIdle
  <2> QED
    BY <1>3, <2>1, <2>2
<1>5. CASE ~g /\ HasClosed(point, obs, gap, n, n, run, found)
  <2>1. run = no /\ HasCut(point, obs, gap, n, no, found)
    BY <1>5 DEF HasClosed, HasCut
  <2>2. e = RunState(no, 0, found)
    BY <1>0, <1>1, <2>1, CutIdle
  <2> QED
    BY <1>3, <2>1, <2>2
<1>6. CASE g /\ HasCut(point, obs, gap, n, run, found)
  <2>1. run = no
    BY <1>6 DEF HasCut
  <2>2. e = RunState(no, 0, found)
    BY <1>0, <1>1, <2>1, CutIdle
  <2> QED
    BY <1>3, <1>6, <2>1, <2>2
<1>7. CASE ~g /\ Follows(point, obs, gap, n, run, found)
  <2>1. PICK i, l : /\ Current(obs, gap, n, i, l) /\ ~Broken(obs, l, n)
                    /\ run = FollowedRun(obs, n, i, l)
                    /\ found = ClosedBefore(point, obs, gap, i)
    BY <1>7 DEF Follows
  <2>2. /\ i \in 1..n /\ l \in i..n /\ obs[i].dir # "none" /\ n \in 1..N /\ l \in Nat /\ l <= n
    BY <1>2, <2>1 DEF Current, RunStarts, IsLine
  <2>3. /\ run.dir = obs[i].dir /\ run # no
        /\ run.pending = IF l = n THEN 0 ELSE obs[l + 1].time
    BY <2>1, <2>2 DEF FollowedRun, Flow!NoRun
  <2> DEFINE end == IF run.pending # 0 THEN run.pending ELSE last
  <2>4. end = EndOfRun(obs, n, l) /\ end # 0
    <3>1. CASE l = n
      <4>1. run.pending = 0 /\ last = obs[n].time /\ obs[n].time # 0
        BY <1>7, <2>2, <2>3, <3>1 DEF IsRunLine, last
      <4> QED
        BY <3>1, <4>1 DEF EndOfRun
    <3>2. CASE l < n
      <4>1. l + 1 \in 1..N /\ ~obs[l + 1].fresh
        BY <1>2, <2>1, <2>2, <3>2, BrokenNext
      <4>2. run.pending = obs[l + 1].time /\ obs[l + 1].time # 0
        BY <2>2, <2>3, <3>2, <4>1 DEF IsRunLine
      <4> QED
        BY <2>2, <3>2, <4>1, <4>2 DEF EndOfRun
    <3> QED
      BY <2>2, <3>1, <3>2
  <2>5. ClosedOccurrence(point, run, end) = LongRun(point, ClosedEvent(obs, i, end))
    BY <2>1, OccurrenceIs
  <2>8. end = IF run.pending # 0 THEN run.pending ELSE last
    OBVIOUS
  <2>6. e = RunState(no, 0, found \cup LongRun(point, ClosedEvent(obs, i, EndOfRun(obs, n, l))))
    <3> HIDE DEF end
    <3>1. e = RunState(no, 0, found \cup ClosedOccurrence(point, run, end))
      BY <1>0, <1>1, <2>3, <2>4, <2>8, CutRun
    <3> QED
      BY <2>4, <2>5, <3>1
  <2>7. HasCut(point, obs, gap, n, no,
               found \cup LongRun(point, ClosedEvent(obs, i, EndOfRun(obs, n, l))))
    BY <2>1 DEF HasCut
  <2> QED
    BY <1>3, <2>6, <2>7
<1> QED
  BY <1>4, <1>5, <1>6, <1>7, <1>9 DEF RunsKnown

-----------------------------------------------------------------------------
\* What a valid observation makes of the state.
Advanced(point, d, o) == [Flow!Observe(point, d, o) EXCEPT !.last = o.time]

RunOf(a, b, p) == [dir |-> a, start |-> b, pending |-> p]
RunOn(a, b) == [dir |-> a, start |-> b, pending |-> 0]
Begun(o) == [dir |-> o.dir, start |-> o.time, pending |-> 0]

\* A value, when no run is followed.
LEMMA ObserveIdle ==
  ASSUME NEW point, NEW last, NEW found, NEW o
  PROVE  /\ o.dir = "none" => Advanced(point, RunState(Flow!NoRun, last, found), o)
                                = RunState(Flow!NoRun, o.time, found)
         /\ o.dir # "none" => Advanced(point, RunState(Flow!NoRun, last, found), o)
                                = RunState(Begun(o), o.time, found)
<1> DEFINE d == RunState(Flow!NoRun, last, found)
           no == Flow!NoRun
<1>1. /\ d.run = no /\ d.last = last /\ d.found = found
      /\ d = [run |-> no, last |-> last, found |-> found]
  BY DEF RunState
<1> HIDE DEF d
<1>2. o.dir = "none" => Flow!Observe(point, d, o) = d
  BY <1>1 DEF Flow!Observe
<1>3. o.dir # "none" => Flow!Observe(point, d, o) = [d EXCEPT !.run = Flow!NewRun(o)]
  BY <1>1 DEF Flow!Observe
<1>4. Flow!NewRun(o) = Begun(o)
  BY DEF Flow!NewRun, Begun
<1> HIDE DEF no
<1>5. o.dir = "none" => Advanced(point, d, o) = RunState(no, o.time, found)
  BY <1>1, <1>2 DEF RunState, Advanced
<1>6. o.dir # "none" => Advanced(point, d, o) = RunState(Begun(o), o.time, found)
  BY <1>1, <1>3, <1>4 DEF RunState, Advanced
<1> QED
  BY <1>5, <1>6 DEF no, d

EndWith(p, t) == IF p # 0 THEN p ELSE t

\* The state after an observation o, of a detector that follows a run.
GoesTo(point, a, b, p, found, o, end, e) ==
  /\ o.dir = "none" => e = RunState(RunOf(a, b, end), o.time, found)
  /\ o.dir # "none" /\ o.dir = a /\ o.time - end <= point.mergeGap =>
       e = RunState(RunOn(a, b), o.time, found)
  /\ o.dir # "none" /\ ~(o.dir = a /\ o.time - end <= point.mergeGap) =>
       e = RunState(Begun(o), o.time, found \cup ClosedOccurrence(point, RunOf(a, b, p), end))

\* A value continues the run, ends it or lets it recover.
LEMMA ObserveRun ==
  ASSUME NEW point, NEW a, a # "none", NEW b, NEW p, NEW last, NEW found, NEW o,
         NEW end, end = EndWith(p, o.time),
         NEW d, d = RunState(RunOf(a, b, p), last, found)
  PROVE  GoesTo(point, a, b, p, found, o, end, Advanced(point, d, o))
<1> DEFINE run == [dir |-> a, start |-> b, pending |-> p]
           no == Flow!NoRun
           more == ClosedOccurrence(point, run, end)
           again == o.dir = a /\ o.time - end <= point.mergeGap
<1>1. /\ d.run = run /\ d.last = last /\ d.found = found
      /\ d = [run |-> run, last |-> last, found |-> found]
  BY DEF RunState, RunOf
<1>2. run # no /\ run.pending = p /\ run.dir = a /\ run = [dir |-> run.dir, start |-> run.start, pending |-> run.pending]
  BY DEF Flow!NoRun
<1>3. [d EXCEPT !.run.pending = end] = [d EXCEPT !.run = [run EXCEPT !.pending = end]]
  BY <1>1
<1>4. [d EXCEPT !.run.pending = 0] = [d EXCEPT !.run = [run EXCEPT !.pending = 0]]
  BY <1>1
<1>5. /\ [run EXCEPT !.pending = end] = RunOf(a, b, end)
      /\ [run EXCEPT !.pending = 0] = RunOn(a, b)
  BY DEF RunOf, RunOn
<1>6. Flow!NewRun(o) = Begun(o)
  BY DEF Flow!NewRun, Begun
<1>7. Flow!Observe(point, d, o)
        = CASE o.dir = "none" /\ run # no -> [d EXCEPT !.run.pending = end]
            [] o.dir = "none" /\ run = no -> d
            [] o.dir # "none" /\ run = no -> [d EXCEPT !.run = Flow!NewRun(o)]
            [] run # no /\ o.dir = run.dir /\ o.time - end <= point.mergeGap ->
                 [d EXCEPT !.run.pending = 0]
            [] OTHER -> [d EXCEPT !.run = Flow!NewRun(o),
                                  !.found = @ \cup Flow!Occurrence(point, run, end, FALSE)]
  BY <1>1, <1>2 DEF Flow!Observe, EndWith
<1> HIDE DEF run, no, more
<1>8. o.dir = "none" => Flow!Observe(point, d, o) = [d EXCEPT !.run.pending = end]
  BY <1>2, <1>7
<1>9. o.dir # "none" /\ again => Flow!Observe(point, d, o) = [d EXCEPT !.run.pending = 0]
  BY <1>2, <1>7
<1>10. o.dir # "none" /\ ~again =>
         Flow!Observe(point, d, o) = [d EXCEPT !.run = Flow!NewRun(o), !.found = @ \cup more]
  BY <1>2, <1>7 DEF more, ClosedOccurrence
<1> HIDE DEF again
<1>11. o.dir = "none" => Advanced(point, d, o)
                           = RunState(RunOf(a, b, end), o.time, found)
  BY <1>1, <1>3, <1>5, <1>8 DEF RunState, Advanced
<1>12. o.dir # "none" /\ again =>
         Advanced(point, d, o) = RunState(RunOn(a, b), o.time, found)
  BY <1>1, <1>4, <1>5, <1>9 DEF RunState, Advanced
<1>13. o.dir # "none" /\ ~again =>
         Advanced(point, d, o) = RunState(Begun(o), o.time, found \cup more)
  <2> DEFINE r == Begun(o)
             f == found \cup more
             x == [d EXCEPT !.run = r]
             e == [x EXCEPT !.found = f]
  <2>1. o.dir # "none" /\ ~again => Flow!Observe(point, d, o) = e
    BY <1>1, <1>6, <1>10
  <2> HIDE DEF r, f
  <2>4. x = [run |-> r, last |-> last, found |-> found]
    BY <1>1
  <2> HIDE DEF x
  <2>2. e = [run |-> r, last |-> last, found |-> f]
    BY <2>4
  <2> HIDE DEF e
  <2>3. [e EXCEPT !.last = o.time] = RunState(r, o.time, f)
    BY <2>2 DEF RunState
  <2> QED
    BY <2>1, <2>3 DEF Advanced, r, f
<1> QED
  BY <1>11, <1>12, <1>13 DEF more, run, again, RunOf, GoesTo

-----------------------------------------------------------------------------
\* What is known after one more valid observation.
LEMMA KnownNext ==
  ASSUME NEW point, NEW obs, NEW gap, NEW n \in Nat, NEW h, ~h,
         NEW run, NEW found, NEW d, d = RunState(run, obs[n + 1].time, found),
         \/ NothingYet(obs, n + 1, run, found)
         \/ Follows(point, obs, gap, n + 1, run, found)
         \/ HasClosed(point, obs, gap, n + 1, n + 1, run, found)
  PROVE  RunsKnown(point, obs, gap, n + 1, h, d)
<1>1. d.run = run /\ d.found = found
  BY DEF RunState
<1>2. n + 1 # 0
  OBVIOUS
<1> QED
  BY <1>1, <1>2 DEF RunsKnown

\* The runs that begin before a new one, when the last one before it is over.
LEMMA ClosedNext ==
  ASSUME NEW point, NEW obs, NEW gap, NEW N, IsRunLine(point, obs, gap, N),
         NEW n \in 0..N, n < N, NEW i, NEW l, Current(obs, gap, n, i, l),
         LastOf(obs, gap, i) = l
  PROVE  ClosedBefore(point, obs, gap, n + 1)
           = ClosedBefore(point, obs, gap, i)
               \cup LongRun(point, ClosedEvent(obs, i, EndOfRun(obs, N, l)))
<1> DEFINE c(k) == ClosedRun(point, obs, gap, k)
           S == {x \in RunStarts(obs, gap) : x < n + 1}
           R == {x \in RunStarts(obs, gap) : x < i}
<1>1. IsLine(obs, N) /\ Len(obs) = N
  BY DEF IsRunLine, IsLine
<1>2. S = R \cup {i}
  BY <1>1, NewBefore
<1>3. c(i) = LongRun(point, ClosedEvent(obs, i, EndOfRun(obs, N, l)))
  BY <1>1 DEF ClosedRun
<1>4. /\ ClosedBefore(point, obs, gap, n + 1) = UNION {c(k) : k \in S}
      /\ ClosedBefore(point, obs, gap, i) = UNION {c(k) : k \in R}
  BY DEF ClosedBefore
<1> HIDE DEF c, S, R
<1>5. UNION {c(k) : k \in S} = (UNION {c(k) : k \in R}) \cup c(i)
  BY <1>2
<1> QED
  BY <1>3, <1>4, <1>5

\* No run is over before the first deviation.
LEMMA NoneClosed ==
  ASSUME NEW point, NEW obs, NEW gap, NEW N, IsRunLine(point, obs, gap, N),
         NEW n \in 0..N, n < N, \A k \in 1..n : obs[k].dir = "none"
  PROVE  ClosedBefore(point, obs, gap, n + 1) = {}
<1>1. n \in Nat /\ \A k \in RunStarts(obs, gap) : k \in Nat \ {0}
  BY DEF RunStarts, IsRunLine, IsLine
<1>2. {x \in RunStarts(obs, gap) : x < n + 1} = {}
  <2> SUFFICES ASSUME NEW x \in RunStarts(obs, gap), x < n + 1 PROVE FALSE
    OBVIOUS
  <2>1. x \in 1..n
    BY <1>1
  <2> QED
    BY <1>1, <2>1, NoneBegun
<1> QED
  BY <1>2 DEF ClosedBefore

\* A new run begins.
LEMMA BeginsKnown ==
  ASSUME NEW point, NEW obs, NEW gap, NEW N, IsRunLine(point, obs, gap, N),
         NEW n \in 0..N, n < N, NEW h, ~h, NEW o, o.time = obs[n + 1].time, o.dir = obs[n + 1].dir,
         Current(obs, gap, n + 1, n + 1, n + 1),
         NEW d, d = RunState(Begun(o), o.time, ClosedBefore(point, obs, gap, n + 1))
  PROVE  RunsKnown(point, obs, gap, n + 1, h, d)
<1>1. n \in Nat /\ n + 1 \in Nat
  BY DEF IsRunLine, IsLine
<1>2. Begun(o) = FollowedRun(obs, n + 1, n + 1, n + 1)
  BY DEF Begun, FollowedRun
<1>3. ~Broken(obs, n + 1, n + 1)
  BY <1>1 DEF Broken
<1>4. Follows(point, obs, gap, n + 1, Begun(o), ClosedBefore(point, obs, gap, n + 1))
  BY <1>2, <1>3 DEF Follows
<1> QED
  BY <1>1, <1>4, KnownNext

\* After a hole, or when all was well.
LEMMA IdleKnows ==
  ASSUME NEW point, NEW obs, NEW gap, NEW N, IsRunLine(point, obs, gap, N),
         NEW n \in 0..N, n < N, NEW h, ~h, NEW o, o.time = obs[n + 1].time, o.dir = obs[n + 1].dir,
         NEW run, NEW last, NEW found,
         \/ NothingYet(obs, n, run, found)
         \/ HasClosed(point, obs, gap, n, n + 1, run, found)
  PROVE  RunsKnown(point, obs, gap, n + 1, h, Advanced(point, RunState(run, last, found), o))
<1> DEFINE e == Advanced(point, RunState(run, last, found), o)
           no == Flow!NoRun
<1>1. n \in Nat /\ N \in Nat /\ IsLine(obs, N) /\ n + 1 \in 1..N
  BY DEF IsRunLine, IsLine
<1>2. run = no
  BY DEF NothingYet, HasClosed
<1>3. /\ o.dir = "none" => e = RunState(no, o.time, found)
      /\ o.dir # "none" => e = RunState(Begun(o), o.time, found)
  BY <1>2, ObserveIdle
<1> HIDE DEF e, no
<1>4. CASE NothingYet(obs, n, run, found)
  <2>1. (\A k \in 1..n : obs[k].dir = "none") /\ found = {}
    BY <1>4 DEF NothingYet
  <2>2. CASE o.dir = "none"
    <3>1. \A k \in 1..(n + 1) : obs[k].dir = "none"
      <4> TAKE k \in 1..(n + 1)
      <4>1. k = n + 1 \/ k \in 1..n
        BY <1>1
      <4> QED
        BY <2>1, <2>2, <4>1
    <3>2. NothingYet(obs, n + 1, no, found)
      BY <2>1, <3>1 DEF NothingYet, no
    <3> QED
      BY <1>1, <1>3, <2>2, <3>2, KnownNext DEF e
  <2>3. CASE o.dir # "none"
    <3>1. Current(obs, gap, n + 1, n + 1, n + 1)
      BY <1>1, <2>1, <2>3, FirstDeviation
    <3>2. found = ClosedBefore(point, obs, gap, n + 1)
      BY <2>1, NoneClosed
    <3> QED
      BY <1>3, <2>3, <3>1, <3>2, BeginsKnown DEF e
  <2> QED
    BY <2>2, <2>3
<1>5. CASE HasClosed(point, obs, gap, n, n + 1, run, found)
  <2>1. PICK i, l : /\ Current(obs, gap, n, i, l) /\ Broken(obs, l, n + 1)
                    /\ found = ClosedBefore(point, obs, gap, i)
                         \cup LongRun(point, ClosedEvent(obs, i, EndOfRun(obs, n, l)))
    BY <1>5 DEF HasClosed
  <2>2. l \in Nat /\ l <= n
    BY <1>1, <2>1 DEF Current, RunStarts, IsLine
  <2>3. EndOfRun(obs, n, l) = EndOfRun(obs, n + 1, l) /\ EndOfRun(obs, n, l) = EndOfRun(obs, N, l)
    <3>1. l = n => obs[n + 1].fresh
      BY <1>1, <2>1, <2>2, BrokenNext
    <3> QED
      BY <1>1, <2>2, <3>1 DEF EndOfRun
  <2>4. CASE o.dir = "none"
    <3>1. Current(obs, gap, n + 1, i, l)
      BY <1>1, <2>1, <2>4, Recovers
    <3>2. HasClosed(point, obs, gap, n + 1, n + 1, no, found)
      BY <2>1, <2>3, <3>1 DEF HasClosed, no
    <3> QED
      BY <1>1, <1>3, <2>4, <3>2, KnownNext DEF e
  <2>5. CASE o.dir # "none"
    <3>1. ~GoesOn(obs, gap, n, i, l)
      BY <2>1 DEF GoesOn
    <3>2. Current(obs, gap, n + 1, n + 1, n + 1) /\ LastOf(obs, gap, i) = l
      BY <1>1, <2>1, <2>5, <3>1, Deviates
    <3>3. found = ClosedBefore(point, obs, gap, n + 1)
      BY <2>1, <2>3, <3>2, ClosedNext
    <3> QED
      BY <1>3, <2>5, <3>2, <3>3, BeginsKnown DEF e
  <2> QED
    BY <2>4, <2>5
<1> QED
  BY <1>4, <1>5

\* While a run is followed, without a hole.
LEMMA FollowsKnows ==
  ASSUME NEW point, NEW obs, NEW gap, NEW N, IsRunLine(point, obs, gap, N),
         NEW n \in 0..N, n < N, NEW h, ~h, NEW o, o.time = obs[n + 1].time, o.dir = obs[n + 1].dir,
         ~obs[n + 1].fresh, NEW run, NEW last, NEW found,
         Follows(point, obs, gap, n, run, found)
  PROVE  RunsKnown(point, obs, gap, n + 1, h, Advanced(point, RunState(run, last, found), o))
<1> DEFINE e == Advanced(point, RunState(run, last, found), o)
           t == o.time
<1>1. n \in Nat /\ N \in Nat /\ IsLine(obs, N) /\ n + 1 \in 1..N /\ t # 0 /\ t \in Nat
  BY DEF IsRunLine, IsLine
<1>2. PICK i, l : /\ Current(obs, gap, n, i, l) /\ ~Broken(obs, l, n)
                  /\ run = FollowedRun(obs, n, i, l)
                  /\ found = ClosedBefore(point, obs, gap, i)
  BY DEF Follows
<1>3. i \in 1..n /\ l \in Nat /\ l <= n /\ obs[i].dir # "none"
  BY <1>1, <1>2 DEF Current, RunStarts, IsLine
<1>4. ~Broken(obs, l, n + 1) /\ (l < n => ~obs[l + 1].fresh)
  BY <1>1, <1>2, <1>3, BrokenNext
<1> DEFINE p == IF l = n THEN 0 ELSE obs[l + 1].time
           end == IF p # 0 THEN p ELSE t
           a == obs[i].dir
           b == obs[i].time
           d == RunState(RunOf(a, b, p), last, found)
<1>5. end = obs[l + 1].time
  <2>1. l < n => l + 1 \in 1..N
    BY <1>1, <1>3
  <2> QED
    BY <1>1, <1>3, <2>1 DEF IsRunLine
<1>6. run = RunOf(a, b, p)
  BY <1>2 DEF FollowedRun, RunOf
<1>7. e = Advanced(point, d, o)
  BY <1>6
<1>8. a # "none" /\ end = EndWith(p, o.time)
  BY <1>3 DEF EndWith
<1>14. d = RunState(RunOf(a, b, p), last, found)
  OBVIOUS
<1> HIDE DEF a, b, p, end, t, e, d
<1>9. /\ o.dir = "none" =>
           e = RunState(RunOf(a, b, end), o.time, found)
      /\ o.dir # "none" /\ o.dir = a /\ o.time - end <= point.mergeGap =>
           e = RunState(RunOn(a, b), o.time, found)
      /\ o.dir # "none" /\ ~(o.dir = a /\ o.time - end <= point.mergeGap) =>
           e = RunState(Begun(o), o.time, found \cup ClosedOccurrence(
                             point, RunOf(a, b, p), end))
  <2>1. GoesTo(point, a, b, p, found, o, end, Advanced(point, d, o))
    BY <1>8, <1>14, ObserveRun
  <2> QED
    BY <1>7, <2>1 DEF GoesTo
<1>10. GoesOn(obs, gap, n, i, l) <=> o.dir = a /\ o.time - end <= point.mergeGap
  <2>1. GoesOn(obs, gap, n, i, l)
          <=> o.dir = a /\ (l < n => o.time - end <= gap[obs[n + 1].dir])
    BY <1>4, <1>5 DEF GoesOn, a
  <2>2. gap[obs[n + 1].dir] = point.mergeGap /\ point.mergeGap \in Nat
    BY <1>1 DEF IsRunLine
  <2>3. ~(l < n) => o.time - end = 0
    <3>1. ~(l < n) => l = n
      BY <1>1, <1>3
    <3>2. l = n => end = o.time
      BY <1>5
    <3> QED
      BY <1>1, <3>1, <3>2 DEF t
  <2> QED
    BY <2>1, <2>2, <2>3
<1>11. CASE o.dir = "none"
  <2>1. Current(obs, gap, n + 1, i, l)
    BY <1>1, <1>2, <1>11, Recovers
  <2>2. FollowedRun(obs, n + 1, i, l) = RunOf(a, b, end)
    <3>1. l # n + 1
      BY <1>1, <1>3
    <3> QED
      BY <1>5, <3>1 DEF FollowedRun, RunOf, RunOn, a, b
  <2>3. Follows(point, obs, gap, n + 1, RunOf(a, b, end), found)
    BY <1>2, <1>4, <2>1, <2>2 DEF Follows
  <2> QED
    BY <1>1, <1>9, <1>11, <2>3, KnownNext DEF e
<1>12. CASE o.dir # "none" /\ GoesOn(obs, gap, n, i, l)
  <2>1. Current(obs, gap, n + 1, i, n + 1)
    BY <1>1, <1>2, <1>12, Deviates
  <2>2. FollowedRun(obs, n + 1, i, n + 1) = RunOn(a, b)
    BY DEF FollowedRun, RunOf, RunOn, a, b
  <2>3. ~Broken(obs, n + 1, n + 1)
    BY <1>1 DEF Broken
  <2>4. Follows(point, obs, gap, n + 1, RunOn(a, b), found)
    BY <1>2, <2>1, <2>2, <2>3 DEF Follows
  <2> QED
    BY <1>1, <1>9, <1>10, <1>12, <2>4, KnownNext DEF e
<1>13. CASE o.dir # "none" /\ ~GoesOn(obs, gap, n, i, l)
  <2>1. Current(obs, gap, n + 1, n + 1, n + 1) /\ LastOf(obs, gap, i) = l
    BY <1>1, <1>2, <1>13, Deviates
  <2>2. EndOfRun(obs, N, l) = end
    <3>1. l # N /\ ~obs[l + 1].fresh
      <4>1. l = n \/ l < n
        BY <1>1, <1>3
      <4> QED
        BY <1>1, <1>3, <1>4, <4>1
    <3> QED
      BY <1>5, <3>1 DEF EndOfRun
  <2>3. ClosedOccurrence(point, RunOf(a, b, p), end)
          = LongRun(point, ClosedEvent(obs, i, end))
    <3>1. ClosedOccurrence(point, FollowedRun(obs, n, i, l), end)
            = LongRun(point, ClosedEvent(obs, i, end))
      BY OccurrenceIs
    <3> QED
      BY <1>2, <1>6, <3>1
  <2>4. found \cup LongRun(point, ClosedEvent(obs, i, end)) = ClosedBefore(point, obs, gap, n + 1)
    BY <1>2, <2>1, <2>2, ClosedNext
  <2>5. e = RunState(Begun(o), o.time, ClosedBefore(point, obs, gap, n + 1))
    BY <1>9, <1>10, <1>13, <2>3, <2>4
  <2> QED
    BY <2>1, <2>5, BeginsKnown DEF e
<1> QED
  BY <1>11, <1>12, <1>13

-----------------------------------------------------------------------------
\* The current run is among the observations so far.
LEMMA CurrentIs ==
  ASSUME NEW point, NEW obs, NEW gap, NEW N, IsRunLine(point, obs, gap, N), NEW n \in 0..N,
         NEW i, NEW l, Current(obs, gap, n, i, l)
  PROVE  n \in Nat \ {0} /\ n \in 1..N /\ l \in Nat /\ l <= n /\ i \in 1..n
BY DEF IsRunLine, IsLine, Current, RunStarts

\* After a hole the observation starts afresh, so that the run is over.
LEMMA CutThenFresh ==
  ASSUME NEW point, NEW obs, NEW gap, NEW N, IsRunLine(point, obs, gap, N), NEW n \in 0..N,
         NEW run, NEW found, HasCut(point, obs, gap, n, run, found),
         n # 0 => obs[n + 1].fresh
  PROVE  HasClosed(point, obs, gap, n, n + 1, run, found)
<1>1. PICK i, l : /\ Current(obs, gap, n, i, l) /\ run = Flow!NoRun
                  /\ found = ClosedBefore(point, obs, gap, i)
                       \cup LongRun(point, ClosedEvent(obs, i, EndOfRun(obs, n, l)))
  BY DEF HasCut
<1>2. n \in Nat \ {0} /\ l \in Nat /\ l <= n
  BY <1>1, CurrentIs
<1>3. Broken(obs, l, n + 1)
  BY <1>2, BrokenNext
<1> QED
  BY <1>1, <1>3 DEF HasClosed

\* A run that is over stays over.
LEMMA ClosedLater ==
  ASSUME NEW point, NEW obs, NEW gap, NEW N, IsRunLine(point, obs, gap, N), NEW n \in 0..N,
         NEW run, NEW found, HasClosed(point, obs, gap, n, n, run, found)
  PROVE  HasClosed(point, obs, gap, n, n + 1, run, found)
<1>1. PICK i, l : /\ Current(obs, gap, n, i, l) /\ Broken(obs, l, n) /\ run = Flow!NoRun
                  /\ found = ClosedBefore(point, obs, gap, i)
                       \cup LongRun(point, ClosedEvent(obs, i, EndOfRun(obs, n, l)))
  BY DEF HasClosed
<1>2. n \in Nat \ {0} /\ l \in Nat /\ l <= n
  BY <1>1, CurrentIs
<1>3. Broken(obs, l, n + 1)
  BY <1>1, <1>2, BrokenNext
<1> QED
  BY <1>1, <1>3 DEF HasClosed

\* A run that is followed has been observed.
LEMMA FollowsSome ==
  ASSUME NEW point, NEW obs, NEW gap, NEW N, IsRunLine(point, obs, gap, N), NEW n \in 0..N,
         NEW run, NEW found, Follows(point, obs, gap, n, run, found)
  PROVE  n # 0 /\ n \in 1..N
BY CurrentIs DEF Follows

\* A time without a value.
LEMMA HoleKnows ==
  ASSUME NEW point, NEW obs, NEW gap, NEW N, IsRunLine(point, obs, gap, N),
         NEW n \in 0..N, NEW g, NEW d, RunsKnown(point, obs, gap, n, g, d), NEW o, ~o.valid,
         NEW h, h
  PROVE  RunsKnown(point, obs, gap, n, h, Flow!StepRun(point, d, o))
<1>1. Flow!StepRun(point, d, o) = Flow!Cut(point, d, o)
  BY DEF Flow!StepRun, Flow!IsHole
<1> QED
  BY <1>1, CutKnows

\* One with a value: a fresh one if there is a hole before it.
LEMMA ValueKnows ==
  ASSUME NEW point, NEW obs, NEW gap, NEW N, IsRunLine(point, obs, gap, N),
         NEW n \in 0..N, n < N, NEW g, NEW d, RunsKnown(point, obs, gap, n, g, d),
         NEW o, o.valid, o.time = obs[n + 1].time, o.dir = obs[n + 1].dir,
         n # 0 => (obs[n + 1].fresh <=> \/ o.boundary \/ g
                                        \/ obs[n + 1].time - obs[n].time > point.maxGap),
         NEW h, ~h
  PROVE  RunsKnown(point, obs, gap, n + 1, h, Flow!StepRun(point, d, o))
<1> DEFINE hole == Flow!IsHole(point, d, o)
           e == IF hole THEN Flow!Cut(point, d, o) ELSE d
           last == IF n = 0 \/ g THEN 0 ELSE obs[n].time
<1>1. Flow!StepRun(point, d, o) = Advanced(point, e, o)
  BY DEF Flow!StepRun, Advanced
<1>2. d = RunState(d.run, last, d.found) /\ d.last = last
  BY DEF RunsKnown, RunState
<1>3. hole <=> o.boundary \/ (last # 0 /\ o.time - last > point.maxGap)
  BY <1>2 DEF Flow!IsHole
<1>4. n # 0 /\ hole => obs[n + 1].fresh
  BY <1>3
<1>5. n # 0 /\ ~g => last = obs[n].time /\ last # 0
  BY DEF IsRunLine, IsLine
<1>6. n # 0 /\ ~g /\ ~hole => ~obs[n + 1].fresh
  BY <1>3, <1>5
<1>7. CASE hole
  <2> DEFINE yes == TRUE
  <2>1. yes /\ e = Flow!Cut(point, d, o)
    BY <1>7
  <2> HIDE DEF yes, hole, e, last
  <2>2. RunsKnown(point, obs, gap, n, yes, e)
    BY <2>1, CutKnows
  <2> DEFINE t == IF n = 0 \/ yes THEN 0 ELSE obs[n].time
  <2>3. /\ e = RunState(e.run, t, e.found)
        /\ NothingYet(obs, n, e.run, e.found) \/ HasCut(point, obs, gap, n, e.run, e.found)
    BY <2>1, <2>2 DEF RunsKnown
  <2> HIDE DEF t
  <2>4. NothingYet(obs, n, e.run, e.found) \/ HasClosed(point, obs, gap, n, n + 1, e.run, e.found)
    BY <1>4, <1>7, <2>3, CutThenFresh
  <2>5. RunsKnown(point, obs, gap, n + 1, h, Advanced(point, RunState(e.run, t, e.found), o))
    BY <2>4, IdleKnows
  <2> QED
    BY <1>1, <2>3, <2>5
<1>8. CASE ~hole
  <2>1. e = RunState(d.run, last, d.found)
    BY <1>2, <1>8
  <2> HIDE DEF hole, e, last
  <2>2. CASE NothingYet(obs, n, d.run, d.found) \/ HasClosed(point, obs, gap, n, n + 1, d.run, d.found)
    <3>1. RunsKnown(point, obs, gap, n + 1, h, Advanced(point, RunState(d.run, last, d.found), o))
      BY <2>2, IdleKnows
    <3> QED
      BY <1>1, <2>1, <3>1
  <2>3. CASE ~g /\ Follows(point, obs, gap, n, d.run, d.found)
    <3>1. ~obs[n + 1].fresh
      BY <1>6, <1>8, <2>3, FollowsSome
    <3>2. RunsKnown(point, obs, gap, n + 1, h, Advanced(point, RunState(d.run, last, d.found), o))
      BY <2>3, <3>1, FollowsKnows
    <3> QED
      BY <1>1, <2>1, <3>2
  <2>4. CASE ~g /\ HasClosed(point, obs, gap, n, n, d.run, d.found)
    BY <2>2, <2>4, ClosedLater
  <2>5. CASE g /\ HasCut(point, obs, gap, n, d.run, d.found)
    BY <2>2, <2>5, CutThenFresh
  <2> QED
    BY <2>2, <2>3, <2>4, <2>5 DEF RunsKnown
<1> QED
  BY <1>7, <1>8

-----------------------------------------------------------------------------
\* A timeline: a time without a value is no other time.
IsTimeline(tl) ==
  /\ IsSequence(tl)
  /\ \A i \in 1..Len(tl) : tl[i].time \in Nat \ {0}
  /\ \A i, j \in 1..Len(tl) : i < j /\ ~(tl[i].valid /\ tl[j].valid) => tl[i].time < tl[j].time

\* What RunsCharged compares.
ValidIn(tl) == Subsequence(tl, {k \in DOMAIN tl : tl[k].valid})
HoleBefore(point, tl, i) ==
  \/ ValidIn(tl)[i].boundary
  \/ i > 1 /\ ValidIn(tl)[i].time - ValidIn(tl)[i - 1].time > point.maxGap
  \/ \E o \in Range(tl) :
       /\ ~o.valid /\ o.time < ValidIn(tl)[i].time
       /\ i > 1 => ValidIn(tl)[i - 1].time < o.time
TimelineObs(point, tl) ==
  [i \in DOMAIN ValidIn(tl) |-> [time |-> ValidIn(tl)[i].time, dir |-> ValidIn(tl)[i].dir,
                                 fresh |-> HoleBefore(point, tl, i)]]
TimelineGap(point, obs) == [dir \in {o.dir : o \in Range(obs)} |-> point.mergeGap]

\* Of the valid observations, at the positions pos of the timeline, n are among the
\* first m of the timeline.
Place(pos, N, m, n) ==
  /\ n \in 0..N
  /\ \A k \in 1..N : k <= n => pos[k] <= m
  /\ \A k \in 1..N : n < k => m < pos[k]

\* A hole comes after them.
HoleSince(tl, pos, m, n) == \E j \in 1..m : ~tl[j].valid /\ (n = 0 \/ pos[n] < j)

ValidPositions(tl, pos, N) ==
  /\ N \in Nat
  /\ \A k \in 1..N : pos[k] \in 1..Len(tl) /\ tl[pos[k]].valid
  /\ \A k, m \in 1..N : k < m => pos[k] < pos[m]
  /\ \A j \in 1..Len(tl) : tl[j].valid => \E k \in 1..N : pos[k] = j

\* Whether the next time has a value decides how many valid observations there are.
LEMMA PlaceNext ==
  ASSUME NEW tl, IsTimeline(tl), NEW pos, NEW N, ValidPositions(tl, pos, N),
         NEW m \in Nat, m < Len(tl), NEW n, Place(pos, N, m, n)
  PROVE  /\ tl[m + 1].valid => /\ n < N /\ pos[n + 1] = m + 1
                               /\ Place(pos, N, m + 1, n + 1)
                               /\ ~HoleSince(tl, pos, m + 1, n + 1)
         /\ ~tl[m + 1].valid => Place(pos, N, m + 1, n) /\ HoleSince(tl, pos, m + 1, n)
<1>1. /\ Len(tl) \in Nat /\ m + 1 \in 1..Len(tl) /\ n \in 0..N /\ N \in Nat
      /\ \A k \in 1..N : pos[k] \in Nat
  BY DEF IsTimeline, IsSequence, Place, ValidPositions
<1>2. ASSUME tl[m + 1].valid
      PROVE  /\ n < N /\ pos[n + 1] = m + 1
             /\ Place(pos, N, m + 1, n + 1)
             /\ ~HoleSince(tl, pos, m + 1, n + 1)
  <2>1. PICK k \in 1..N : pos[k] = m + 1
    BY <1>1, <1>2 DEF ValidPositions
  <2>2. n < k
    BY <1>1, <2>1 DEF Place
  <2>3. ~(n + 1 < k)
    <3> SUFFICES ASSUME n + 1 < k PROVE FALSE
      OBVIOUS
    <3>1. n + 1 \in 1..N
      BY <1>1, <2>1
    <3>2. pos[n + 1] < pos[k] /\ m < pos[n + 1]
      BY <1>1, <2>1, <3>1 DEF ValidPositions, Place
    <3> QED
      BY <1>1, <2>1, <3>1, <3>2
  <2>4. k = n + 1
    BY <1>1, <2>2, <2>3
  <2>5. Place(pos, N, m + 1, n + 1)
    <3>1. ASSUME NEW j \in 1..N, j <= n + 1 PROVE pos[j] <= m + 1
      <4>1. j = n + 1 \/ j <= n
        BY <1>1, <3>1
      <4>2. j <= n => pos[j] <= m
        BY DEF Place
      <4> QED
        BY <1>1, <2>1, <2>4, <4>1, <4>2
    <3>2. ASSUME NEW j \in 1..N, n + 1 < j PROVE m + 1 < pos[j]
      BY <1>1, <2>1, <2>4, <3>2 DEF ValidPositions
    <3>3. n + 1 \in 0..N
      BY <1>1, <2>4
    <3> QED
      BY <3>1, <3>2, <3>3 DEF Place
  <2>6. ~HoleSince(tl, pos, m + 1, n + 1)
    BY <1>1, <2>1, <2>4 DEF HoleSince
  <2> QED
    BY <1>1, <2>1, <2>4, <2>5, <2>6
<1>3. ASSUME ~tl[m + 1].valid
      PROVE  Place(pos, N, m + 1, n) /\ HoleSince(tl, pos, m + 1, n)
  <2>1. \A k \in 1..N : pos[k] # m + 1
    BY <1>3 DEF ValidPositions
  <2>2. Place(pos, N, m + 1, n)
    BY <1>1, <2>1 DEF Place
  <2>3. n # 0 => pos[n] < m + 1
    BY <1>1 DEF Place
  <2>4. m + 1 \in 1..(m + 1)
    OBVIOUS
  <2> QED
    BY <1>3, <2>2, <2>3, <2>4 DEF HoleSince
<1> QED
  BY <1>2, <1>3

\* A hole before a valid observation, seen from the positions.
LEMMA HoleBetween ==
  ASSUME NEW tl, IsTimeline(tl), NEW p \in 1..Len(tl), NEW q \in 1..Len(tl), p < q,
         tl[p].valid, tl[q].valid
  PROVE  (\E o \in Range(tl) : ~o.valid /\ o.time < tl[q].time /\ tl[p].time < o.time)
           <=> \E j \in 1..(q - 1) : ~tl[j].valid /\ p < j
<1>1. /\ Len(tl) \in Nat /\ DOMAIN tl = 1..Len(tl)
      /\ \A i \in 1..Len(tl) : tl[i].time \in Nat
  BY DEF IsTimeline, IsSequence
<1>2. ASSUME NEW o \in Range(tl), ~o.valid, o.time < tl[q].time, tl[p].time < o.time
      PROVE  \E j \in 1..(q - 1) : ~tl[j].valid /\ p < j
  <2>1. PICK j \in 1..Len(tl) : o = tl[j]
    BY <1>1 DEF Range
  <2>2. ~(q < j) /\ q # j /\ p # j /\ ~(j < p)
    BY <1>1, <1>2, <2>1 DEF IsTimeline
  <2>3. j \in 1..(q - 1) /\ p < j
    BY <1>1, <2>2
  <2> QED
    BY <1>2, <2>1, <2>3
<1>3. ASSUME NEW j \in 1..(q - 1), ~tl[j].valid, p < j
      PROVE  \E o \in Range(tl) : ~o.valid /\ o.time < tl[q].time /\ tl[p].time < o.time
  <2>1. j \in 1..Len(tl) /\ j < q
    BY <1>1
  <2>2. tl[j].time < tl[q].time /\ tl[p].time < tl[j].time
    BY <1>3, <2>1 DEF IsTimeline
  <2>3. tl[j] \in Range(tl)
    BY <1>1, <2>1 DEF Range
  <2> QED
    BY <1>3, <2>2, <2>3
<1> QED
  BY <1>2, <1>3

-----------------------------------------------------------------------------
\* A run that is followed by another is over.
LEMMA LastBeforeNext ==
  ASSUME NEW obs, NEW gap, NEW N, IsLine(obs, N), NEW i \in RunStarts(obs, gap),
         NEW k \in RunStarts(obs, gap), k < i
  PROVE  LastOf(obs, gap, k) \in Nat /\ LastOf(obs, gap, k) < i /\ i \in 1..N /\ k \in 1..N
<1>1. /\ LastOf(obs, gap, k) \in Within(obs, gap, k) /\ LastOf(obs, gap, k) \in 1..N
      /\ i \in 1..N /\ k \in 1..N /\ N \in Nat
  BY LastInLine DEF IsLine
<1>2. ~(k < i /\ i <= LastOf(obs, gap, k))
  BY <1>1 DEF Within
<1> QED
  BY <1>1, <1>2

TimelineAt(point, tl, obs, gap, N, pos) ==
  /\ IsRunLine(point, obs, gap, N) /\ ValidPositions(tl, pos, N)
  /\ \A k \in 1..N : obs[k].time = tl[pos[k]].time /\ obs[k].dir = tl[pos[k]].dir
  /\ \A k \in 1..N : k > 1 =>
       (obs[k].fresh <=> \/ tl[pos[k]].boundary
                         \/ obs[k].time - obs[k - 1].time > point.maxGap
                         \/ \E j \in 1..(pos[k] - 1) : ~tl[j].valid /\ pos[k - 1] < j)

\* The valid observations of a timeline, with the holes before them.
LEMMA TimelineIs ==
  ASSUME NEW point, point.mergeGap \in Nat, NEW tl, IsTimeline(tl),
         NEW obs, obs = TimelineObs(point, tl)
  PROVE  \E pos : TimelineAt(point, tl, obs, TimelineGap(point, obs), Len(obs), pos)
<1> DEFINE q == ValidIn(tl)
           P == {k \in DOMAIN tl : tl[k].valid}
           N == Len(q)
           gap == TimelineGap(point, obs)
<1>1. /\ Len(tl) \in Nat /\ DOMAIN tl = 1..Len(tl)
      /\ \A i \in 1..Len(tl) : tl[i].time \in Nat \ {0}
  BY DEF IsTimeline, IsSequence
<1>2. PICK pos : IsTaken(q, tl, Len(tl), P, pos)
  BY <1>1, SubsequenceIs DEF ValidIn
<1> HIDE DEF q
<1>3. /\ N \in Nat /\ DOMAIN q = 1..N
      /\ \A k \in 1..N : pos[k] \in 1..Len(tl) /\ pos[k] \in P /\ q[k] = tl[pos[k]]
      /\ \A k, m \in 1..N : k < m => pos[k] < pos[m]
      /\ \A i \in 1..Len(tl) : i \in P => \E k \in 1..N : pos[k] = i
  BY <1>2 DEF IsTaken
<1>4. ValidPositions(tl, pos, N)
  BY <1>1, <1>3 DEF ValidPositions
<1>5. /\ DOMAIN obs = 1..N
      /\ obs = [i \in 1..N |-> [time |-> q[i].time, dir |-> q[i].dir,
                                fresh |-> HoleBefore(point, tl, i)]]
  BY <1>3 DEF TimelineObs, q
<1>6. Len(obs) = N /\ IsLine(obs, N)
  <2>1. obs \in Seq(Range(obs))
    <3>1. obs \in [1..N -> Range(obs)]
      BY <1>5 DEF Range
    <3> QED
      BY <1>3, <3>1
  <2> QED
    BY <1>3, <1>5, <2>1 DEF IsLine
<1>7. ASSUME NEW k \in 1..N
      PROVE  /\ obs[k].time = tl[pos[k]].time /\ obs[k].dir = tl[pos[k]].dir
             /\ obs[k].fresh <=> HoleBefore(point, tl, k)
             /\ obs[k].time \in Nat \ {0} /\ gap[obs[k].dir] = point.mergeGap
  <2>1. obs[k] = [time |-> q[k].time, dir |-> q[k].dir, fresh |-> HoleBefore(point, tl, k)]
    BY <1>5
  <2>2. HoleBefore(point, tl, k) \in BOOLEAN
    BY DEF HoleBefore
  <2>3. obs[k].dir \in {o.dir : o \in Range(obs)}
    BY <1>5 DEF Range
  <2>4. gap[obs[k].dir] = point.mergeGap
    BY <2>3 DEF TimelineGap
  <2> QED
    BY <1>1, <1>3, <2>1, <2>2, <2>4
<1>8. IsRunLine(point, obs, gap, N)
  BY <1>6, <1>7 DEF IsRunLine
<1>9. ASSUME NEW k \in 1..N, k > 1
      PROVE  obs[k].fresh <=> \/ tl[pos[k]].boundary
                              \/ obs[k].time - obs[k - 1].time > point.maxGap
                              \/ \E j \in 1..(pos[k] - 1) : ~tl[j].valid /\ pos[k - 1] < j
  <2>1. k - 1 \in 1..N /\ k - 1 < k
    BY <1>3, <1>9
  <2>2. /\ pos[k] \in 1..Len(tl) /\ pos[k - 1] \in 1..Len(tl) /\ pos[k - 1] < pos[k]
        /\ tl[pos[k]].valid /\ tl[pos[k - 1]].valid
        /\ q[k] = tl[pos[k]] /\ q[k - 1] = tl[pos[k - 1]]
    BY <1>3, <2>1
  <2>3. (\E o \in Range(tl) : ~o.valid /\ o.time < q[k].time /\ q[k - 1].time < o.time)
          <=> \E j \in 1..(pos[k] - 1) : ~tl[j].valid /\ pos[k - 1] < j
    <3> DEFINE u == pos[k - 1]
               v == pos[k]
    <3>1. /\ u \in 1..Len(tl) /\ v \in 1..Len(tl) /\ u < v /\ tl[u].valid /\ tl[v].valid
          /\ q[k].time = tl[v].time /\ q[k - 1].time = tl[u].time
      BY <2>2
    <3> HIDE DEF u, v
    <3>2. (\E o \in Range(tl) : ~o.valid /\ o.time < tl[v].time /\ tl[u].time < o.time)
            <=> \E j \in 1..(v - 1) : ~tl[j].valid /\ u < j
      BY <3>1, HoleBetween
    <3> QED
      BY <3>1, <3>2 DEF u, v
  <2>4. obs[k].fresh <=> \/ q[k].boundary
                         \/ q[k].time - q[k - 1].time > point.maxGap
                         \/ \E o \in Range(tl) :
                              ~o.valid /\ o.time < q[k].time /\ q[k - 1].time < o.time
    BY <1>7, <1>9 DEF HoleBefore, q
  <2> QED
    BY <1>7, <2>1, <2>2, <2>3, <2>4
<1>10. TimelineAt(point, tl, obs, gap, N, pos)
  BY <1>4, <1>7, <1>8, <1>9 DEF TimelineAt
<1> QED
  BY <1>6, <1>10

-----------------------------------------------------------------------------
\* The states that the detector goes through.
RunsTrace(g, point, tl, horizon, found) ==
  /\ g[0] = RunState(Flow!NoRun, 0, {})
  /\ \A i \in 1..Len(tl) : g[i] = Flow!StepRun(point, g[i - 1], tl[i])
  /\ tl # <<>> => found = g[Len(tl)].found \cup Flow!Left(point, g[Len(tl)], horizon)

\* The loop of detect_flow_balance_events, state by state.
LEMMA RunsTraceExists ==
  ASSUME NEW point, NEW tl, NEW horizon, Len(tl) \in Nat
  PROVE  \E g : RunsTrace(g, point, tl, horizon, Flow!DetectRuns(point, tl, horizon))
<1> DEFINE c == [run |-> Flow!NoRun, last |-> 0, found |-> {}]
           E(x, i) == Flow!StepRun(point, x, tl[i])
           Is(g, n) == g = [i \in 0..n |-> IF i = 0 THEN c ELSE E(g[i - 1], i)]
           T == {n \in Nat : \E g : Is(g, n)}
<1> HIDE DEF c, E
<1>1. 0 \in T
  <2>1. Is([i \in 0..0 |-> c], 0)
    OBVIOUS
  <2> QED
    BY <2>1
<1>2. ASSUME NEW n \in Nat, n \in T PROVE n + 1 \in T
  <2>1. PICK g : Is(g, n)
    BY <1>2
  <2> DEFINE h == [i \in 0..(n + 1) |-> IF i = n + 1 THEN E(g[n], n + 1) ELSE g[i]]
  <2>2. \A i \in 0..(n + 1) : h[i] = IF i = 0 THEN c ELSE E(h[i - 1], i)
    <3> TAKE i \in 0..(n + 1)
    <3>1. CASE i = n + 1
      BY <3>1
    <3>2. CASE i # n + 1
      BY <2>1, <3>2
    <3> QED
      BY <3>1, <3>2
  <2>3. Is(h, n + 1)
    <3>1. h = [i \in 0..(n + 1) |-> h[i]]
      OBVIOUS
    <3> HIDE DEF h
    <3> QED
      BY <2>2, <3>1
  <2> HIDE DEF Is
  <2> QED
    BY <2>3
<1> HIDE DEF T
<1>3. Nat \subseteq T
  BY <1>1, <1>2, SetInduction
<1>4. \E g : Is(g, Len(tl))
  BY <1>3 DEF T
<1> DEFINE a == CHOOSE g : Is(g, Len(tl))
<1>5. Is(a, Len(tl))
  BY <1>4
<1>6. tl # <<>> => Flow!DetectRuns(point, tl, horizon)
                     = a[Len(tl)].found \cup Flow!Left(point, a[Len(tl)], horizon)
  BY DEF Flow!DetectRuns, c, E
<1> HIDE DEF a
<1>7. a[0] = c /\ \A i \in 1..Len(tl) : a[i] = E(a[i - 1], i)
  BY <1>5
<1>8. RunsTrace(a, point, tl, horizon, Flow!DetectRuns(point, tl, horizon))
  BY <1>6, <1>7 DEF RunsTrace, RunState, c, E
<1> QED
  BY <1>8

-----------------------------------------------------------------------------
\* What is known at the end of the timeline: whether the last time has no value.
LEMMA TimelineKnown ==
  ASSUME NEW point, NEW tl, IsTimeline(tl), tl # <<>>, NEW obs, NEW gap, NEW N, NEW pos,
         TimelineAt(point, tl, obs, gap, N, pos), NEW horizon, NEW g, NEW found,
         RunsTrace(g, point, tl, horizon, found), NEW broken, broken <=> ~Last(tl).valid
  PROVE  RunsKnown(point, obs, gap, N, broken, g[Len(tl)])
<1> DEFINE M == Len(tl)
           Knows(m, n) == RunsKnown(point, obs, gap, n, HoleSince(tl, pos, m, n), g[m])
           T == {m \in Nat : m <= M => \E n : Place(pos, N, m, n) /\ Knows(m, n)}
<1>1. /\ M \in Nat \ {0} /\ DOMAIN tl = 1..M
  <2>1. M \in Nat /\ DOMAIN tl = 1..M /\ tl = [k \in 1..M |-> tl[k]]
    BY DEF IsTimeline, IsSequence
  <2>2. M # 0
    <3> SUFFICES ASSUME M = 0 PROVE tl = <<>>
      OBVIOUS
    <3>1. tl = [k \in 1..0 |-> tl[k]]
      BY <2>1
    <3> QED
      BY <3>1
  <2> QED
    BY <2>1, <2>2
<1>2. /\ IsRunLine(point, obs, gap, N) /\ ValidPositions(tl, pos, N)
      /\ \A k \in 1..N : obs[k].time = tl[pos[k]].time /\ obs[k].dir = tl[pos[k]].dir
      /\ \A k \in 1..N : k > 1 =>
           (obs[k].fresh <=> \/ tl[pos[k]].boundary
                             \/ obs[k].time - obs[k - 1].time > point.maxGap
                             \/ \E j \in 1..(pos[k] - 1) : ~tl[j].valid /\ pos[k - 1] < j)
  BY DEF TimelineAt
<1>3. N \in Nat /\ \A k \in 1..N : pos[k] \in 1..M
  BY <1>2 DEF ValidPositions
<1>4. /\ g[0] = RunState(Flow!NoRun, 0, {})
      /\ \A i \in 1..M : g[i] = Flow!StepRun(point, g[i - 1], tl[i])
  BY DEF RunsTrace
<1>5. 0 \in T
  <2>1. Place(pos, N, 0, 0)
    BY <1>3 DEF Place
  <2>2. NothingYet(obs, 0, Flow!NoRun, {})
    BY DEF NothingYet
  <2>3. Knows(0, 0)
    <3>1. g[0].run = Flow!NoRun /\ g[0].found = {}
      BY <1>4 DEF RunState
    <3> QED
      BY <1>4, <2>2, <3>1 DEF RunsKnown
  <2> QED
    BY <2>1, <2>3
<1>6. ASSUME NEW m \in Nat, m \in T PROVE m + 1 \in T
  <2> SUFFICES ASSUME m + 1 <= M PROVE \E n : Place(pos, N, m + 1, n) /\ Knows(m + 1, n)
    OBVIOUS
  <2>1. m + 1 \in 1..M /\ (m + 1) - 1 = m /\ m < M
    BY <1>1
  <2>2. PICK n : Place(pos, N, m, n) /\ RunsKnown(point, obs, gap, n, HoleSince(tl, pos, m, n), g[m])
    BY <1>6, <2>1
  <2>3. n \in 0..N /\ n \in Nat
    BY <1>3, <2>2 DEF Place
  <2> DEFINE o == tl[m + 1]
             since == HoleSince(tl, pos, m, n)
  <2>4. g[m + 1] = Flow!StepRun(point, g[m], o)
    BY <1>4, <2>1
  <2>5. CASE ~o.valid
    <3> DEFINE h == HoleSince(tl, pos, m + 1, n)
    <3>1. Place(pos, N, m + 1, n) /\ h
      BY <1>2, <2>1, <2>2, <2>5, PlaceNext
    <3> HIDE DEF h, since, o
    <3>2. RunsKnown(point, obs, gap, n, since, g[m])
      BY <2>2 DEF since
    <3>3. RunsKnown(point, obs, gap, n, h, Flow!StepRun(point, g[m], o))
      BY <1>2, <2>3, <2>5, <3>1, <3>2, HoleKnows
    <3>4. Knows(m + 1, n)
      BY <2>4, <3>3 DEF h
    <3> QED
      BY <3>1, <3>4
  <2>6. CASE o.valid
    <3> DEFINE h == HoleSince(tl, pos, m + 1, n + 1)
    <3>1. n < N /\ pos[n + 1] = m + 1 /\ Place(pos, N, m + 1, n + 1) /\ ~h
      BY <1>2, <2>1, <2>2, <2>6, PlaceNext
    <3>2. n + 1 \in 1..N /\ o.time = obs[n + 1].time /\ o.dir = obs[n + 1].dir
      BY <1>2, <1>3, <2>3, <3>1
    <3>3. n # 0 => (obs[n + 1].fresh <=> \/ o.boundary \/ since
                                        \/ obs[n + 1].time - obs[n].time > point.maxGap)
      <4> SUFFICES ASSUME n # 0
                   PROVE  obs[n + 1].fresh <=> \/ o.boundary \/ since
                                               \/ obs[n + 1].time - obs[n].time > point.maxGap
        OBVIOUS
      <4>1. n + 1 > 1 /\ (n + 1) - 1 = n /\ pos[n + 1] - 1 = m
        BY <2>1, <2>3, <3>1
      <4>2. since <=> \E j \in 1..m : ~tl[j].valid /\ pos[n] < j
        BY DEF HoleSince
      <4> HIDE DEF since
      <4>3. obs[n + 1].fresh <=> \/ tl[pos[n + 1]].boundary
                                 \/ obs[n + 1].time - obs[n].time > point.maxGap
                                 \/ \E j \in 1..m : ~tl[j].valid /\ pos[n] < j
        BY <1>2, <3>2, <4>1
      <4> QED
        BY <3>1, <4>2, <4>3
    <3> HIDE DEF h, since, o
    <3>4. RunsKnown(point, obs, gap, n, since, g[m])
      BY <2>2 DEF since
    <3>5. RunsKnown(point, obs, gap, n + 1, h, Flow!StepRun(point, g[m], o))
      BY <1>2, <2>3, <2>6, <3>1, <3>2, <3>3, <3>4, ValueKnows
    <3>6. Knows(m + 1, n + 1)
      BY <2>4, <3>5 DEF h
    <3> QED
      BY <3>1, <3>6
  <2> QED
    BY <2>5, <2>6
<1> HIDE DEF T
<1>7. Nat \subseteq T
  BY <1>5, <1>6, SetInduction
<1>8. PICK n : Place(pos, N, M, n) /\ RunsKnown(point, obs, gap, n, HoleSince(tl, pos, M, n), g[M])
  BY <1>1, <1>7 DEF T
<1>9. n = N
  <2>1. n \in 0..N
    BY <1>8 DEF Place
  <2>2. ~(n < N)
    <3> SUFFICES ASSUME n < N PROVE FALSE
      OBVIOUS
    <3>1. N \in 1..N
      BY <1>3, <2>1
    <3>2. M < pos[N]
      BY <1>8, <3>1 DEF Place
    <3> QED
      BY <1>1, <1>3, <3>1, <3>2
  <2> QED
    BY <1>3, <2>1, <2>2
<1>10. HoleSince(tl, pos, M, N) <=> broken
  <2>1. ASSUME ~tl[M].valid PROVE HoleSince(tl, pos, M, N)
    <3>1. N # 0 => pos[N] < M
      <4> SUFFICES ASSUME N # 0 PROVE pos[N] < M
        OBVIOUS
      <4>1. N \in 1..N
        BY <1>3
      <4>2. pos[N] \in 1..M /\ tl[pos[N]].valid
        BY <1>2, <4>1 DEF ValidPositions
      <4>3. pos[N] # M
        BY <2>1, <4>2
      <4> QED
        BY <1>1, <4>2, <4>3
    <3>2. M \in 1..M
      BY <1>1
    <3> QED
      BY <2>1, <3>1, <3>2 DEF HoleSince
  <2>2. ASSUME tl[M].valid PROVE ~HoleSince(tl, pos, M, N)
    <3>1. PICK k \in 1..N : pos[k] = M
      BY <1>1, <1>2, <2>2 DEF ValidPositions
    <3>2. ~(k < N)
      <4> SUFFICES ASSUME k < N PROVE FALSE
        OBVIOUS
      <4>1. N \in 1..N
        BY <1>3
      <4>2. pos[k] < pos[N] /\ pos[N] \in 1..M
        BY <1>2, <4>1 DEF ValidPositions
      <4> QED
        BY <1>1, <3>1, <4>2
    <3>3. N # 0 /\ pos[N] = M
      BY <1>3, <3>1, <3>2
    <3> QED
      BY <1>1, <3>3 DEF HoleSince
  <2> QED
    BY <2>1, <2>2 DEF Last
<1>11. RunsKnown(point, obs, gap, N, HoleSince(tl, pos, M, N), g[M])
  BY <1>8, <1>9
<1> DEFINE since == HoleSince(tl, pos, M, N)
<1>12. since <=> broken
  BY <1>10
<1> HIDE DEF since
<1>13. RunsKnown(point, obs, gap, N, since, g[M])
  BY <1>11 DEF since
<1> QED
  BY <1>12, <1>13 DEF RunsKnown

-----------------------------------------------------------------------------
\* What RunsCharged takes a run for.
GoesOnAtEnd(point, tl, obs, until, run) ==
  ~Over(obs, run) /\ ~(~Last(tl).valid) /\ until - obs[Len(obs)].time <= point.maxGap
TimelineEvent(point, tl, obs, until, run) ==
  [start |-> obs[run.first].time, type |-> obs[run.first].dir,
   open |-> GoesOnAtEnd(point, tl, obs, until, run),
   end |-> IF Over(obs, run) THEN OverAt(obs, run)
           ELSE IF GoesOnAtEnd(point, tl, obs, until, run) THEN until ELSE obs[Len(obs)].time]
TimelineRuns(point, tl, obs, gap, until) ==
  UNION {LongRun(point, TimelineEvent(point, tl, obs, until, RunAt(obs, gap, i))) :
           i \in RunStarts(obs, gap)}

\* What is charged of a run, by whether another one follows or the data ends.
LEMMA TimelineEventIs ==
  ASSUME NEW point, NEW tl, NEW obs, NEW gap, NEW N, IsRunLine(point, obs, gap, N), NEW until,
         NEW i \in RunStarts(obs, gap), NEW l, l = LastOf(obs, gap, i),
         NEW e, e = TimelineEvent(point, tl, obs, until, RunAt(obs, gap, i))
  PROVE  /\ l < N => e = ClosedEvent(obs, i, EndOfRun(obs, N, l))
         /\ ~(l < N) /\ Last(tl).valid /\ until - obs[N].time <= point.maxGap =>
              e = OpenEvent(obs, i, until)
         /\ ~(l < N) /\ ~(Last(tl).valid /\ until - obs[N].time <= point.maxGap) =>
              e = ClosedEvent(obs, i, EndOfRun(obs, N, l))
         /\ ~(l < N) => l = N /\ EndOfRun(obs, N, l) = obs[N].time
<1> DEFINE run == RunAt(obs, gap, i)
           open == GoesOnAtEnd(point, tl, obs, until, run)
<1>1. Len(obs) = N /\ IsLine(obs, N) /\ N \in Nat
  BY DEF IsRunLine, IsLine
<1>2. l \in 1..N
  BY <1>1, LastInLine
<1>3. run.first = i /\ run.last = l
  BY DEF RunAt
<1>4. Over(obs, run) <=> l < N
  BY <1>1, <1>3 DEF Over
<1>5. l < N => OverAt(obs, run) = EndOfRun(obs, N, l)
  BY <1>1, <1>2, <1>3 DEF OverAt, EndOfRun
<1>6. open <=> ~(l < N) /\ Last(tl).valid /\ until - obs[N].time <= point.maxGap
  BY <1>1, <1>4 DEF GoesOnAtEnd
<1>7. e = [start |-> obs[i].time, type |-> obs[i].dir, open |-> open,
           end |-> IF l < N THEN EndOfRun(obs, N, l) ELSE IF open THEN until ELSE obs[N].time]
  BY <1>1, <1>3, <1>4, <1>5 DEF TimelineEvent
<1>8. ~(l < N) => l = N /\ EndOfRun(obs, N, l) = obs[N].time
  BY <1>1, <1>2 DEF EndOfRun
<1>9. open \in BOOLEAN
  BY DEF GoesOnAtEnd
<1> HIDE DEF open, run
<1>10. ASSUME open PROVE e = OpenEvent(obs, i, until)
  BY <1>6, <1>7, <1>9, <1>10 DEF OpenEvent
<1>11. ASSUME ~open PROVE e = ClosedEvent(obs, i, EndOfRun(obs, N, l))
  BY <1>7, <1>8, <1>9, <1>11 DEF ClosedEvent
<1> QED
  BY <1>6, <1>8, <1>10, <1>11

\* A run that is not the last of the line is over.
LEMMA FollowedEvent ==
  ASSUME NEW point, NEW tl, NEW obs, NEW gap, NEW N, IsRunLine(point, obs, gap, N), NEW until,
         NEW i \in RunStarts(obs, gap), LastOf(obs, gap, i) < N
  PROVE  TimelineEvent(point, tl, obs, until, RunAt(obs, gap, i))
           = ClosedEvent(obs, i, EndOfRun(obs, N, LastOf(obs, gap, i)))
<1> DEFINE l == LastOf(obs, gap, i)
           run == RunAt(obs, gap, i)
<1>1. Len(obs) = N /\ IsLine(obs, N) /\ N \in Nat
  BY DEF IsRunLine, IsLine
<1>2. l \in 1..N
  BY <1>1, LastInLine
<1>3. run.first = i /\ run.last = l
  BY DEF RunAt
<1> HIDE DEF run
<1>4. /\ Over(obs, run) /\ OverAt(obs, run) = EndOfRun(obs, N, l)
      /\ GoesOnAtEnd(point, tl, obs, until, run) = FALSE
  BY <1>1, <1>2, <1>3 DEF Over, OverAt, EndOfRun, GoesOnAtEnd
<1>5. TimelineEvent(point, tl, obs, until, run) = ClosedEvent(obs, i, EndOfRun(obs, N, l))
  BY <1>3, <1>4 DEF TimelineEvent, ClosedEvent
<1> QED
  BY <1>5 DEF run

\* A run that another follows is charged as the detector charged it.
LEMMA EarlierRuns ==
  ASSUME NEW point, NEW tl, NEW obs, NEW gap, NEW N, IsRunLine(point, obs, gap, N), NEW until,
         NEW i, NEW l, Current(obs, gap, N, i, l)
  PROVE  /\ TimelineRuns(point, tl, obs, gap, until)
              = ClosedBefore(point, obs, gap, i)
                  \cup LongRun(point, TimelineEvent(point, tl, obs, until, RunAt(obs, gap, i)))
         /\ LastOf(obs, gap, i) = l /\ i \in RunStarts(obs, gap)
<1> DEFINE c(k) == ClosedRun(point, obs, gap, k)
           t(k) == LongRun(point, TimelineEvent(point, tl, obs, until, RunAt(obs, gap, k)))
           R == {x \in RunStarts(obs, gap) : x < i}
           S == RunStarts(obs, gap)
<1>1. IsLine(obs, N) /\ Len(obs) = N /\ N \in Nat /\ N \in 0..N
  BY DEF IsRunLine, IsLine
<1>2. LastOf(obs, gap, i) = l /\ i \in S
  BY <1>1, LastIs DEF Current
<1>3. S = R \cup {i}
  BY <1>1, AllBefore
<1>4. ASSUME NEW k \in R PROVE c(k) = t(k)
  <2>1. k \in RunStarts(obs, gap) /\ k < i
    OBVIOUS
  <2>2. /\ LastOf(obs, gap, k) \in Nat /\ LastOf(obs, gap, k) < i /\ i \in 1..N
    BY <1>1, <1>2, <2>1, LastBeforeNext
  <2>3. LastOf(obs, gap, k) < N
    BY <1>1, <2>2
  <2> HIDE DEF R, S
  <2>4. TimelineEvent(point, tl, obs, until, RunAt(obs, gap, k))
          = ClosedEvent(obs, k, EndOfRun(obs, N, LastOf(obs, gap, k)))
    BY <2>1, <2>3, FollowedEvent
  <2> QED
    BY <1>1, <2>4 DEF ClosedRun
<1>5. /\ TimelineRuns(point, tl, obs, gap, until) = UNION {t(k) : k \in S}
      /\ ClosedBefore(point, obs, gap, i) = UNION {c(k) : k \in R}
  BY DEF TimelineRuns, ClosedBefore
<1>6. t(i) = LongRun(point, TimelineEvent(point, tl, obs, until, RunAt(obs, gap, i)))
  OBVIOUS
<1> HIDE DEF c, t, R, S
<1>7. UNION {t(k) : k \in S} = (UNION {c(k) : k \in R}) \cup t(i)
  BY <1>3, <1>4
<1> QED
  BY <1>2, <1>5, <1>6, <1>7 DEF S

\* What becomes of the run that is followed at the horizon.
LEMMA LeftIs ==
  ASSUME NEW point, NEW d, NEW horizon
  PROVE  /\ d.run = Flow!NoRun => Flow!Left(point, d, horizon) = {}
         /\ d.run # Flow!NoRun /\ d.run.pending # 0 =>
              Flow!Left(point, d, horizon) = ClosedOccurrence(point, d.run, d.run.pending)
         /\ d.run # Flow!NoRun /\ d.run.pending = 0 /\ horizon - d.last <= point.maxGap =>
              Flow!Left(point, d, horizon) = OpenOccurrence(point, d.run, horizon)
         /\ d.run # Flow!NoRun /\ d.run.pending = 0 /\ ~(horizon - d.last <= point.maxGap) =>
              Flow!Left(point, d, horizon) = ClosedOccurrence(point, d.run, d.last)
BY DEF Flow!Left, ClosedOccurrence, OpenOccurrence

\* All that the detector has found at the horizon.
FoundAtEnd(point, d, horizon) == d.found \cup Flow!Left(point, d, horizon)
\* At the horizon the detector has found the runs of the timeline.
LEMMA RunsDetected ==
  ASSUME NEW point, NEW tl, NEW obs, NEW gap, NEW N, IsRunLine(point, obs, gap, N),
         NEW broken, broken <=> ~Last(tl).valid, NEW horizon, NEW d,
         RunsKnown(point, obs, gap, N, broken, d)
  PROVE  FoundAtEnd(point, d, horizon) = TimelineRuns(point, tl, obs, gap, horizon)
<1> DEFINE all == TimelineRuns(point, tl, obs, gap, horizon)
           left == Flow!Left(point, d, horizon)
<1> SUFFICES d.found \cup left = all
  BY DEF FoundAtEnd
<1>1. IsLine(obs, N) /\ N \in Nat /\ N \in 0..N
  BY DEF IsRunLine, IsLine
<1>2. d = RunState(d.run, IF N = 0 \/ broken THEN 0 ELSE obs[N].time, d.found)
  BY DEF RunsKnown
<1>3. CASE NothingYet(obs, N, d.run, d.found)
  <2>1. RunStarts(obs, gap) = {}
    BY <1>1, <1>3, NoneBegun DEF NothingYet, RunStarts, IsLine
  <2>2. left = {}
    BY <1>3, LeftIs DEF NothingYet
  <2> QED
    BY <1>3, <2>1, <2>2 DEF NothingYet, TimelineRuns
<1>4. ASSUME NEW i, NEW l, Current(obs, gap, N, i, l), d.run = Flow!NoRun,
             d.found = ClosedBefore(point, obs, gap, i)
                         \cup LongRun(point, ClosedEvent(obs, i, EndOfRun(obs, N, l))),
             l < N \/ broken
      PROVE  d.found \cup left = all
  <2> DEFINE e == TimelineEvent(point, tl, obs, horizon, RunAt(obs, gap, i))
  <2>1. /\ all = ClosedBefore(point, obs, gap, i) \cup LongRun(point, e)
        /\ LastOf(obs, gap, i) = l /\ i \in RunStarts(obs, gap)
    BY <1>4, EarlierRuns
  <2>2. e = TimelineEvent(point, tl, obs, horizon, RunAt(obs, gap, i))
    OBVIOUS
  <2> HIDE DEF e, all, left
  <2>3. e = ClosedEvent(obs, i, EndOfRun(obs, N, l))
    BY <1>4, <2>1, <2>2, TimelineEventIs
  <2>4. left = {}
    BY <1>4, LeftIs DEF left
  <2> QED
    BY <1>4, <2>1, <2>3, <2>4
<1>5. CASE ~broken /\ HasClosed(point, obs, gap, N, N, d.run, d.found)
  <2>1. PICK i, l : /\ Current(obs, gap, N, i, l) /\ Broken(obs, l, N) /\ d.run = Flow!NoRun
                    /\ d.found = ClosedBefore(point, obs, gap, i)
                         \cup LongRun(point, ClosedEvent(obs, i, EndOfRun(obs, N, l)))
    BY <1>5 DEF HasClosed
  <2>2. l < N
    BY <1>1, <2>1, CurrentIs, BrokenNext
  <2> QED
    BY <1>4, <2>1, <2>2
<1>6. CASE broken /\ HasCut(point, obs, gap, N, d.run, d.found)
  BY <1>4, <1>6 DEF HasCut
<1>7. CASE ~broken /\ Follows(point, obs, gap, N, d.run, d.found)
  <2>1. PICK i, l : /\ Current(obs, gap, N, i, l) /\ ~Broken(obs, l, N)
                    /\ d.run = FollowedRun(obs, N, i, l)
                    /\ d.found = ClosedBefore(point, obs, gap, i)
    BY <1>7 DEF Follows
  <2> DEFINE e == TimelineEvent(point, tl, obs, horizon, RunAt(obs, gap, i))
  <2>2. /\ all = ClosedBefore(point, obs, gap, i) \cup LongRun(point, e)
        /\ LastOf(obs, gap, i) = l /\ i \in RunStarts(obs, gap)
    BY <2>1, EarlierRuns
  <2>3. /\ N \in Nat \ {0} /\ l \in Nat /\ l <= N /\ i \in 1..N
    BY <1>1, <2>1, CurrentIs
  <2>4. d.last = obs[N].time
    BY <1>2, <1>7, <2>3 DEF RunState
  <2>5. obs[i].dir # "none" /\ d.run # Flow!NoRun /\ d.run.pending = IF l = N THEN 0 ELSE obs[l + 1].time
    BY <2>1 DEF Current, RunStarts, FollowedRun, Flow!NoRun
  <2>6. e = TimelineEvent(point, tl, obs, horizon, RunAt(obs, gap, i))
    OBVIOUS
  <2> HIDE DEF e, all, left
  <2>7. left = LongRun(point, e)
    <3>1. CASE l < N
      <4>1. l + 1 \in 1..N /\ ~obs[l + 1].fresh
        BY <1>1, <2>1, <2>3, <3>1, BrokenNext
      <4>2. d.run.pending = obs[l + 1].time /\ d.run.pending # 0
        BY <2>3, <2>5, <3>1, <4>1 DEF IsRunLine
      <4>3. EndOfRun(obs, N, l) = d.run.pending
        BY <2>3, <3>1, <4>1, <4>2 DEF EndOfRun
      <4>4. left = ClosedOccurrence(point, d.run, d.run.pending)
        BY <2>5, <4>2, LeftIs DEF left
      <4>5. e = ClosedEvent(obs, i, EndOfRun(obs, N, l))
        BY <2>2, <2>6, <3>1, TimelineEventIs
      <4>6. ClosedOccurrence(point, FollowedRun(obs, N, i, l), d.run.pending)
              = LongRun(point, ClosedEvent(obs, i, d.run.pending))
        BY OccurrenceIs
      <4> QED
        BY <2>1, <4>3, <4>4, <4>5, <4>6
    <3>2. CASE ~(l < N)
      <4>1. l = N /\ d.run.pending = 0 /\ Last(tl).valid /\ EndOfRun(obs, N, l) = d.last
        BY <1>7, <2>3, <2>4, <2>5, <3>2 DEF EndOfRun
      <4>2. CASE horizon - d.last <= point.maxGap
        <5>1. left = OpenOccurrence(point, d.run, horizon)
          BY <2>5, <4>1, <4>2, LeftIs DEF left
        <5>2. e = OpenEvent(obs, i, horizon)
          BY <2>2, <2>4, <2>6, <3>2, <4>1, <4>2, TimelineEventIs
        <5>3. OpenOccurrence(point, FollowedRun(obs, N, i, l), horizon)
                = LongRun(point, OpenEvent(obs, i, horizon))
          BY OccurrenceIs
        <5> QED
          BY <2>1, <5>1, <5>2, <5>3
      <4>3. CASE ~(horizon - d.last <= point.maxGap)
        <5>1. left = ClosedOccurrence(point, d.run, d.last)
          BY <2>5, <4>1, <4>3, LeftIs DEF left
        <5>2. e = ClosedEvent(obs, i, d.last)
          BY <2>2, <2>4, <2>6, <3>2, <4>1, <4>3, TimelineEventIs
        <5>3. ClosedOccurrence(point, FollowedRun(obs, N, i, l), d.last)
                = LongRun(point, ClosedEvent(obs, i, d.last))
          BY OccurrenceIs
        <5> QED
          BY <2>1, <5>1, <5>2, <5>3
      <4> QED
        BY <4>2, <4>3
    <3> QED
      BY <3>1, <3>2
  <2> QED
    BY <2>1, <2>2, <2>7 DEF left, all
<1> QED
  BY <1>3, <1>5, <1>6, <1>7 DEF RunsKnown

-----------------------------------------------------------------------------
\* What the detector finds in a timeline, for both rules.
TimelineFound(point, tl, until) ==
  IF tl = <<>> THEN {}
  ELSE TimelineRuns(point, tl, TimelineObs(point, tl),
                    TimelineGap(point, TimelineObs(point, tl)), until)

\* Whoever goes through these states finds the runs of the timeline.
LEMMA FoundIs ==
  ASSUME NEW point, point.mergeGap \in Nat, NEW tl, IsTimeline(tl), tl # <<>>, NEW until,
         NEW found, NEW g, RunsTrace(g, point, tl, until, found)
  PROVE  found = TimelineFound(point, tl, until)
<1> DEFINE obs == TimelineObs(point, tl)
           gap == TimelineGap(point, obs)
           broken == ~Last(tl).valid
           d == g[Len(tl)]
<1>1. PICK pos : TimelineAt(point, tl, obs, gap, Len(obs), pos)
  BY TimelineIs
<1>2. TimelineFound(point, tl, until) = TimelineRuns(point, tl, obs, gap, until)
  BY DEF TimelineFound
<1>3. found = d.found \cup Flow!Left(point, d, until)
  BY DEF RunsTrace
<1>4. broken <=> ~Last(tl).valid
  OBVIOUS
<1> HIDE DEF obs, gap, broken
<1>5. RunsKnown(point, obs, gap, Len(obs), broken, d)
  BY <1>1, <1>4, TimelineKnown
<1>6. IsRunLine(point, obs, gap, Len(obs))
  BY <1>1 DEF TimelineAt
<1> HIDE DEF d
<1>7. FoundAtEnd(point, d, until) = TimelineRuns(point, tl, obs, gap, until)
  BY <1>4, <1>5, <1>6, RunsDetected
<1> QED
  BY <1>2, <1>3, <1>7 DEF FoundAtEnd

\* The detector finds the runs of any timeline.
LEMMA DetectedIs ==
  ASSUME NEW point, point.mergeGap \in Nat, NEW tl, IsTimeline(tl), NEW until
  PROVE  Flow!DetectRuns(point, tl, until) = TimelineFound(point, tl, until)
<1>1. CASE tl = <<>>
  BY <1>1 DEF Flow!DetectRuns, TimelineFound
<1>2. CASE tl # <<>>
  <2>1. PICK g : RunsTrace(g, point, tl, until, Flow!DetectRuns(point, tl, until))
    BY RunsTraceExists DEF IsTimeline, IsSequence
  <2> QED
    BY <1>2, <2>1, FoundIs
<1> QED
  BY <1>1, <1>2

\* What RunsCharged keeps of the merged runs.
LongRunsOf(point, tl, obs, gap, until) ==
  {e \in {TimelineEvent(point, tl, obs, until, run) : run \in MergedRuns(obs, gap)} :
     e.end > e.start /\ e.end - e.start >= point.minDuration}

\* The long ones of the merged runs, run by run.
LEMMA LongRunsAreRuns ==
  ASSUME NEW point, NEW tl, NEW obs, NEW gap, NEW until
  PROVE  LongRunsOf(point, tl, obs, gap, until) = TimelineRuns(point, tl, obs, gap, until)
<1> DEFINE ev(i) == TimelineEvent(point, tl, obs, until, RunAt(obs, gap, i))
           S == RunStarts(obs, gap)
           Long(e) == e.end > e.start /\ e.end - e.start >= point.minDuration
<1>1. MergedRuns(obs, gap) = {RunAt(obs, gap, i) : i \in S}
  BY MergedRunsAre
<1>2. {TimelineEvent(point, tl, obs, until, run) : run \in MergedRuns(obs, gap)} = {ev(i) : i \in S}
  BY <1>1
<1>3. LongRunsOf(point, tl, obs, gap, until) = {e \in {ev(i) : i \in S} : Long(e)}
  BY <1>2 DEF LongRunsOf
<1>4. TimelineRuns(point, tl, obs, gap, until) = UNION {LongRun(point, ev(i)) : i \in S}
  BY DEF TimelineRuns
<1>5. \A e : LongRun(point, e) = IF Long(e) THEN {e} ELSE {}
  BY DEF LongRun
<1> HIDE DEF ev, S, Long
<1> QED
  BY <1>3, <1>4, <1>5

\* RunsCharged clips what is found in the timeline to the window.
LEMMA RunsChargedAre ==
  ASSUME NEW point, NEW tl, NEW w, NEW until
  PROVE  RunsCharged(point, tl, w, until)
           = Flow!Charged(TimelineFound(point, tl, until), Start(w), End(w))
<1> DEFINE obs == TimelineObs(point, tl)
           gap == TimelineGap(point, obs)
           long == LongRunsOf(point, tl, obs, gap, until)
<1>1. RunsCharged(point, tl, w, until)
        = IF tl = <<>> THEN {} ELSE Flow!Charged(long, Start(w), End(w))
  BY Zenon DEF RunsCharged, LongRunsOf, TimelineEvent, GoesOnAtEnd, TimelineObs, TimelineGap,
               HoleBefore, ValidIn, Flow!Charged
<1>2. long = TimelineRuns(point, tl, obs, gap, until)
  BY LongRunsAreRuns
<1>3. Flow!Charged({}, Start(w), End(w)) = {}
  BY DEF Flow!Charged
<1> HIDE DEF long
<1> QED
  BY <1>1, <1>2, <1>3 DEF TimelineFound

\* What a rule charges of a timeline.
LEMMA TimelineCharged ==
  ASSUME NEW point, point.mergeGap \in Nat, NEW tl, IsTimeline(tl), NEW until, NEW w
  PROVE  Flow!Charged(Flow!DetectRuns(point, tl, until), Start(w), End(w))
           = RunsCharged(point, tl, w, until)
BY DetectedIs, RunsChargedAre

-----------------------------------------------------------------------------
\* A sequence joined from those of f.
IsConcat(z, q, r) ==
  /\ IsSequence(z) /\ Len(z) = Len(q) + Len(r)
  /\ \A i \in 1..Len(z) : \/ \E k \in 1..Len(q) : z[i] = q[k]
                          \/ \E k \in 1..Len(r) : z[i] = r[k]

\* Two sequences of anything, one after the other.
LEMMA ConcatIs ==
  ASSUME NEW q, IsSequence(q), NEW r, IsSequence(r)
  PROVE  IsConcat(q \o r, q, r)
<1> DEFINE X == {q[k] : k \in 1..Len(q)} \cup {r[k] : k \in 1..Len(r)}
           z == q \o r
<1>1. /\ Len(q) \in Nat /\ DOMAIN q = 1..Len(q) /\ q = [k \in 1..Len(q) |-> q[k]]
      /\ Len(r) \in Nat /\ DOMAIN r = 1..Len(r) /\ r = [k \in 1..Len(r) |-> r[k]]
  BY DEF IsSequence
<1>2. (\A k \in 1..Len(q) : q[k] \in X) /\ (\A k \in 1..Len(r) : r[k] \in X)
  OBVIOUS
<1> HIDE DEF X
<1>3. q \in Seq(X) /\ r \in Seq(X)
  <2>1. q \in [1..Len(q) -> X] /\ r \in [1..Len(r) -> X]
    BY <1>1, <1>2
  <2> QED
    BY <1>1, <2>1
<1>4. /\ z \in Seq(X) /\ Len(z) = Len(q) + Len(r)
      /\ \A i \in 1..(Len(q) + Len(r)) :
           z[i] = IF i <= Len(q) THEN q[i] ELSE r[i - Len(q)]
  BY <1>3
<1> HIDE DEF z
<1>5. IsSequence(z)
  <2>1. Len(z) \in Nat /\ DOMAIN z = 1..Len(z) /\ z \in [1..Len(z) -> X]
    BY <1>4
  <2>2. z = [k \in 1..Len(z) |-> z[k]]
    BY <2>1
  <2> QED
    BY <2>1, <2>2 DEF IsSequence
<1>6. ASSUME NEW i \in 1..Len(z)
      PROVE  \/ \E k \in 1..Len(q) : z[i] = q[k]
             \/ \E k \in 1..Len(r) : z[i] = r[k]
  <2>1. CASE i <= Len(q)
    <3>1. i \in 1..Len(q) /\ z[i] = q[i]
      BY <1>1, <1>4, <2>1
    <3> QED
      BY <3>1
  <2>2. CASE ~(i <= Len(q))
    <3> DEFINE k == i - Len(q)
    <3>1. k \in 1..Len(r) /\ z[i] = r[k]
      BY <1>1, <1>4, <2>2
    <3> QED
      BY <3>1
  <2> QED
    BY <2>1, <2>2
<1> QED
  BY <1>4, <1>5, <1>6 DEF IsConcat, z

Joined(g, f, N) == g[0] = <<>> /\ \A k \in 1..N : g[k] = g[k - 1] \o f[k]
JoinOf(q, f, n) ==
  IsSequence(q) /\ \A i \in 1..Len(q) : \E k \in 1..n : \E m \in 1..Len(f[k]) : q[i] = f[k][m]

\* Sequences of anything, one after the other.
LEMMA JoinedIs ==
  ASSUME NEW f, NEW N \in Nat, \A k \in 1..N : IsSequence(f[k]), NEW g, Joined(g, f, N)
  PROVE  JoinOf(g[N], f, N)
<1> DEFINE T == {n \in Nat : n <= N => JoinOf(g[n], f, n)}
<1>1. g[0] = <<>> /\ \A k \in 1..N : g[k] = g[k - 1] \o f[k]
  BY DEF Joined
<1>2. 0 \in T
  <2>1. IsSequence(<<>>) /\ Len(<<>>) = 0
    BY DEF IsSequence
  <2>2. JoinOf(<<>>, f, 0)
    BY <2>1 DEF JoinOf
  <2> QED
    BY <1>1, <2>2
<1>3. ASSUME NEW n \in Nat, n \in T PROVE n + 1 \in T
  <2> SUFFICES ASSUME n + 1 <= N PROVE JoinOf(g[n + 1], f, n + 1)
    OBVIOUS
  <2>1. n + 1 \in 1..N /\ (n + 1) - 1 = n /\ JoinOf(g[n], f, n)
    BY <1>3
  <2> DEFINE q == g[n]
             r == f[n + 1]
             z == g[n + 1]
  <2>2. z = q \o r
    BY <1>1, <2>1
  <2>3. IsSequence(q) /\ IsSequence(r)
    BY <2>1 DEF JoinOf
  <2>4. IsConcat(z, q, r)
    BY <2>2, <2>3, ConcatIs
  <2>5. ASSUME NEW i \in 1..Len(z)
        PROVE  \E k \in 1..(n + 1) : \E m \in 1..Len(f[k]) : z[i] = f[k][m]
    <3>1. CASE \E j \in 1..Len(q) : z[i] = q[j]
      <4>1. PICK j \in 1..Len(q) : z[i] = q[j]
        BY <3>1
      <4>2. PICK k \in 1..n : \E m \in 1..Len(f[k]) : q[j] = f[k][m]
        BY <2>1 DEF JoinOf
      <4>3. k \in 1..(n + 1)
        OBVIOUS
      <4> QED
        BY <4>1, <4>2, <4>3
    <3>2. CASE \E j \in 1..Len(r) : z[i] = r[j]
      <4>1. n + 1 \in 1..(n + 1)
        OBVIOUS
      <4> QED
        BY <3>2, <4>1
    <3> QED
      BY <2>4, <3>1, <3>2 DEF IsConcat
  <2> QED
    BY <2>4, <2>5 DEF JoinOf, IsConcat
<1> HIDE DEF T
<1>4. Nat \subseteq T
  BY <1>2, <1>3, SetInduction
<1> QED
  BY <1>4 DEF T

-----------------------------------------------------------------------------
\* Rate has the helpers of the modules it extends.
LEMMA SameRate ==
  /\ \A samples, maxGap :
       Rate!PrepareNumericHistory(samples, maxGap) = PrepareNumericHistory(samples, maxGap)
  /\ \A s, P : Rate!Subsequence(s, P) = Subsequence(s, P)
  /\ \A s, smoothing : Rate!Smooth(s, smoothing) = Smooth(s, smoothing)
  /\ \A s, from, to : Rate!GetHistory(s, from, to) = Between(s, from, to)
  /\ \A found, start, end : Rate!Charged(found, start, end) = Flow!Charged(found, start, end)
<1>1. \A samples, maxGap :
        Rate!PrepareNumericHistory(samples, maxGap) = PrepareNumericHistory(samples, maxGap)
  BY DEF PrepareNumericHistory, AddSample, CloseSegment, Last, Rate!PrepareNumericHistory,
         Rate!AddSample, Rate!CloseSegment, Rate!Last
<1>2. \A s, P : Rate!Subsequence(s, P) = Subsequence(s, P)
  BY DEF Subsequence, Rate!Subsequence
<1>3. \A s, smoothing : Rate!Smooth(s, smoothing) = Smooth(s, smoothing)
  BY Zenon DEF Smooth, TrailingMean, SumAt, Subsequence, Cardinality, Rate!Smooth,
               Rate!TrailingMean, Rate!SumAt, Rate!Subsequence, Rate!Cardinality
<1>4. \A s, from, to : Rate!GetHistory(s, from, to) = Between(s, from, to)
  BY DEF Between, Earlier, Cardinality, Rate!GetHistory, Rate!Between, Rate!Earlier,
         Rate!Cardinality
<1>5. \A found, start, end : Rate!Charged(found, start, end) = Flow!Charged(found, start, end)
  BY DEF Rate!Charged, Flow!Charged
<1> QED
  BY <1>1, <1>2, <1>3, <1>4, <1>5

\* The detector as the other rule has it.
LEMMA SameRunDetector ==
  /\ \A point, d, o : Rate!StepRun(point, d, o) = Flow!StepRun(point, d, o)
  /\ \A point, d, until : Rate!Left(point, d, until) = Flow!Left(point, d, until)
  /\ Rate!NoRun = Flow!NoRun
<1>1. /\ Rate!NoRun = Flow!NoRun
      /\ \A o : Rate!NewRun(o) = Flow!NewRun(o)
      /\ \A point, run, end, open :
           Rate!Occurrence(point, run, end, open) = Flow!Occurrence(point, run, end, open)
  BY DEF Rate!NoRun, Flow!NoRun, Rate!NewRun, Flow!NewRun, Rate!Occurrence, Flow!Occurrence
<1>2. \A point, d, o : Rate!IsHole(point, d, o) <=> Flow!IsHole(point, d, o)
  BY DEF Rate!IsHole, Flow!IsHole
<1>3. \A point, d, o : Rate!Cut(point, d, o) = Flow!Cut(point, d, o)
  BY <1>1 DEF Rate!Cut, Flow!Cut
<1>4. \A point, d, o : Rate!Observe(point, d, o) = Flow!Observe(point, d, o)
  BY ZenonT(40) DEF Rate!Observe, Flow!Observe, Rate!NoRun, Flow!NoRun, Rate!NewRun, Flow!NewRun,
               Rate!Occurrence, Flow!Occurrence
<1>5. \A point, d, o : Rate!StepRun(point, d, o) = Flow!StepRun(point, d, o)
  BY <1>2, <1>3, <1>4 DEF Rate!StepRun, Flow!StepRun
<1>6. \A point, d, until : Rate!Left(point, d, until) = Flow!Left(point, d, until)
  BY <1>1 DEF Rate!Left, Flow!Left
<1> QED
  BY <1>1, <1>5, <1>6

-----------------------------------------------------------------------------
\* The loop of detect_rate_events, state by state.
LEMMA RateRunsTraceExists ==
  ASSUME NEW point, NEW tl, NEW horizon, Len(tl) \in Nat
  PROVE  \E g : RunsTrace(g, point, tl, horizon, Rate!DetectRuns(point, tl, horizon))
<1> DEFINE c == [run |-> Rate!NoRun, last |-> 0, found |-> {}]
           E(x, i) == Rate!StepRun(point, x, tl[i])
           Is(g, n) == g = [i \in 0..n |-> IF i = 0 THEN c ELSE E(g[i - 1], i)]
           T == {n \in Nat : \E g : Is(g, n)}
<1> HIDE DEF c, E
<1>1. 0 \in T
  <2>1. Is([i \in 0..0 |-> c], 0)
    OBVIOUS
  <2> QED
    BY <2>1
<1>2. ASSUME NEW n \in Nat, n \in T PROVE n + 1 \in T
  <2>1. PICK g : Is(g, n)
    BY <1>2
  <2> DEFINE h == [i \in 0..(n + 1) |-> IF i = n + 1 THEN E(g[n], n + 1) ELSE g[i]]
  <2>2. \A i \in 0..(n + 1) : h[i] = IF i = 0 THEN c ELSE E(h[i - 1], i)
    <3> TAKE i \in 0..(n + 1)
    <3>1. CASE i = n + 1
      BY <3>1
    <3>2. CASE i # n + 1
      BY <2>1, <3>2
    <3> QED
      BY <3>1, <3>2
  <2>3. Is(h, n + 1)
    <3>1. h = [i \in 0..(n + 1) |-> h[i]]
      OBVIOUS
    <3> HIDE DEF h
    <3> QED
      BY <2>2, <3>1
  <2> HIDE DEF Is
  <2> QED
    BY <2>3
<1> HIDE DEF T
<1>3. Nat \subseteq T
  BY <1>1, <1>2, SetInduction
<1>4. \E g : Is(g, Len(tl))
  BY <1>3 DEF T
<1> DEFINE a == CHOOSE g : Is(g, Len(tl))
<1>5. Is(a, Len(tl))
  BY <1>4
<1>6. tl # <<>> => Rate!DetectRuns(point, tl, horizon)
                     = a[Len(tl)].found \cup Rate!Left(point, a[Len(tl)], horizon)
  BY DEF Rate!DetectRuns, c, E
<1> HIDE DEF a
<1>7. a[0] = c /\ \A i \in 1..Len(tl) : a[i] = E(a[i - 1], i)
  BY <1>5
<1>8. RunsTrace(a, point, tl, horizon, Rate!DetectRuns(point, tl, horizon))
  BY <1>6, <1>7, SameRunDetector DEF RunsTrace, RunState, c, E
<1> QED
  BY <1>8


\* The detector of the other rule finds the same.
LEMMA RateDetectedIs ==
  ASSUME NEW point, point.mergeGap \in Nat, NEW tl, IsTimeline(tl), NEW until
  PROVE  Rate!DetectRuns(point, tl, until) = TimelineFound(point, tl, until)
<1>1. CASE tl = <<>>
  BY <1>1 DEF Rate!DetectRuns, TimelineFound
<1>2. CASE tl # <<>>
  <2>1. PICK g : RunsTrace(g, point, tl, until, Rate!DetectRuns(point, tl, until))
    BY RateRunsTraceExists DEF IsTimeline, IsSequence
  <2> QED
    BY <1>2, <2>1, FoundIs
<1> QED
  BY <1>1, <1>2

\* And level_rate_compliance charges the runs of its timeline.
LEMMA RateTimelineCharged ==
  ASSUME NEW point, point.mergeGap \in Nat, NEW tl, IsTimeline(tl), NEW until, NEW w
  PROVE  Rate!Charged(Rate!DetectRuns(point, tl, until), Start(w), End(w))
           = RunsCharged(point, tl, w, until)
BY RateDetectedIs, RunsChargedAre, SameRate

-----------------------------------------------------------------------------
\* Readings that the two rules can prepare.
IsReadings(samples) == Timed(samples) /\ \A i \in 1..Len(samples) : samples[i] \in Sample

\* What get_history reads of a record.
LEMMA ReadingsBetween ==
  ASSUME HistoryInv, NEW tag \in DOMAIN recorded, NEW from, NEW to
  PROVE  /\ IsReadings(Between(recorded[tag], from, to))
         /\ \A i \in 1..Len(Between(recorded[tag], from, to)) :
              Between(recorded[tag], from, to)[i].time < now
<1> DEFINE s == recorded[tag]
           q == Between(s, from, to)
<1>1. s \in Seq(Sample) /\ Timed(s) /\ \A i \in 1..Len(s) : s[i].time < now
  BY DEF HistoryInv
<1> HIDE DEF s
<1>2. \A i \in 1..Len(s) : s[i] \in Sample
  BY <1>1
<1>3. Timed(q) /\ \A i \in 1..Len(q) : \E j \in 1..Len(s) : q[i] = s[j]
  BY <1>1, BetweenPart
<1> HIDE DEF q
<1>4. IsReadings(q) /\ \A i \in 1..Len(q) : q[i].time < now
  BY <1>1, <1>2, <1>3 DEF IsReadings
<1> QED
  BY <1>4 DEF q, s

\* Each segment of them.
LEMMA SegmentReadings ==
  ASSUME NEW samples, IsReadings(samples), NEW maxGap
  PROVE  /\ IsSequence(PrepareNumericHistory(samples, maxGap).segments)
         /\ \A k \in 1..Len(PrepareNumericHistory(samples, maxGap).segments) :
              /\ IsReadings(PrepareNumericHistory(samples, maxGap).segments[k])
              /\ PartOf(PrepareNumericHistory(samples, maxGap).segments[k], samples)
<1> DEFINE segments == PrepareNumericHistory(samples, maxGap).segments
<1>1. Segmented(segments, samples)
  BY PreparedSegments DEF IsReadings
<1> HIDE DEF segments
<1>2. IsSequence(segments)
  BY <1>1 DEF Segmented
<1>3. ASSUME NEW k \in 1..Len(segments) PROVE IsReadings(segments[k]) /\ PartOf(segments[k], samples)
  <2>1. Timed(segments[k]) /\ PartOf(segments[k], samples)
    BY <1>1 DEF Segmented
  <2> QED
    BY <2>1 DEF PartOf, IsReadings
<1> QED
  BY <1>2, <1>3 DEF segments

HaveTimes(q) == IsSequence(q) /\ \A i \in 1..Len(q) : q[i].time \in Nat \ {0}

\* The rates of a segment.
LEMMA SegmentRatesAre ==
  ASSUME NEW point, NEW segment, IsReadings(segment), NEW number
  PROVE  HaveTimes(Rate!SegmentRates(point, segment, number))
<1> DEFINE levels == Smooth(segment, point.smoothing)
           target(i) == levels[i].time - point.rateWindow
           line == [i \in DOMAIN levels |-> i]
           P == {i \in DOMAIN levels : target(i) >= levels[1].time}
           rated == Subsequence(line, P)
           change(i) == levels[i].value - Rate!Interpolate(levels, target(i), i)
           q == Rate!SegmentRates(point, segment, number)
<1>1. q = [k \in DOMAIN rated |->
             [time |-> levels[rated[k]].time, segment |-> number,
              dir  |-> Rate!Direction(point, change(rated[k]))]]
  BY SameRate, ZenonT(40) DEF Rate!SegmentRates
<1>2. Timed(levels)
  BY SmoothTimes DEF IsReadings, TimesOf
<1> HIDE DEF levels, P, q, change
<1>3. Len(levels) \in Nat /\ DOMAIN levels = 1..Len(levels)
  BY <1>2, TimedShape
<1>4. Len(line) = Len(levels)
  BY <1>3
<1>5. \A i \in 1..Len(levels) : line[i] = i
  BY <1>3
<1> HIDE DEF line
<1>6. PICK pos : IsTaken(rated, line, Len(line), P, pos)
  BY <1>3, <1>4, SubsequenceIs
<1> HIDE DEF rated
<1>7. /\ Len(rated) \in Nat /\ DOMAIN rated = 1..Len(rated)
      /\ \A k \in 1..Len(rated) : rated[k] \in 1..Len(levels)
  BY <1>4, <1>5, <1>6 DEF IsTaken
<1>8. Len(q) = Len(rated) /\ DOMAIN q = 1..Len(q) /\ q = [k \in 1..Len(q) |-> q[k]]
  BY <1>1, <1>7
<1>9. \A k \in 1..Len(q) : q[k].time = levels[rated[k]].time
  BY <1>1, <1>7, <1>8
<1>10. \A k \in 1..Len(q) : q[k].time \in Nat \ {0}
  BY <1>2, <1>7, <1>8, <1>9 DEF Timed
<1>11. HaveTimes(q)
  BY <1>7, <1>8, <1>10 DEF HaveTimes, IsSequence
<1> QED
  BY <1>11, SMTT(30) DEF q

RatesTrace(g, point, segments) ==
  /\ g[0] = <<>>
  /\ \A k \in 1..Len(segments) : g[k] = g[k - 1] \o Rate!SegmentRates(point, segments[k], k)

\* calculate_rate_points, segment by segment.
LEMMA RatesTraceExists ==
  ASSUME NEW point, NEW samples,
         Len(PrepareNumericHistory(samples, point.maxGap).segments) \in Nat
  PROVE  \E g : /\ RatesTrace(g, point, PrepareNumericHistory(samples, point.maxGap).segments)
                /\ Rate!RatePoints(point, samples)
                     = g[Len(PrepareNumericHistory(samples, point.maxGap).segments)]
<1> DEFINE segments == PrepareNumericHistory(samples, point.maxGap).segments
           N == Len(segments)
           c == <<>>
           E(x, k) == x \o Rate!SegmentRates(point, segments[k], k)
           Is(g, n) == g = [k \in 0..n |-> IF k = 0 THEN c ELSE E(g[k - 1], k)]
           T == {n \in Nat : \E g : Is(g, n)}
<1>0. N \in Nat
  BY SMTT(30)
<1>6. Rate!RatePoints(point, samples) = (CHOOSE g : Is(g, N))[N]
  BY SameRate DEF Rate!RatePoints
<1> HIDE DEF c, E, segments, N
<1>1. 0 \in T
  <2>1. Is([k \in 0..0 |-> c], 0)
    OBVIOUS
  <2> QED
    BY <2>1
<1>2. ASSUME NEW n \in Nat, n \in T PROVE n + 1 \in T
  <2>1. PICK g : Is(g, n)
    BY <1>2
  <2> DEFINE h == [k \in 0..(n + 1) |-> IF k = n + 1 THEN E(g[n], n + 1) ELSE g[k]]
  <2>2. \A k \in 0..(n + 1) : h[k] = IF k = 0 THEN c ELSE E(h[k - 1], k)
    <3> TAKE k \in 0..(n + 1)
    <3>1. CASE k = n + 1
      BY <3>1
    <3>2. CASE k # n + 1
      BY <2>1, <3>2
    <3> QED
      BY <3>1, <3>2
  <2>3. Is(h, n + 1)
    <3>1. h = [k \in 0..(n + 1) |-> h[k]]
      OBVIOUS
    <3> HIDE DEF h
    <3> QED
      BY <2>2, <3>1
  <2> HIDE DEF Is
  <2> QED
    BY <2>3
<1> HIDE DEF T
<1>3. Nat \subseteq T
  BY <1>1, <1>2, SetInduction
<1>4. \E g : Is(g, N)
  BY <1>0, <1>3 DEF T
<1> DEFINE a == CHOOSE g : Is(g, N)
<1>5. Is(a, N)
  BY <1>4
<1> HIDE DEF a
<1>7. a[0] = c /\ \A i \in 1..N : a[i] = E(a[i - 1], i)
  BY <1>0, <1>5
<1>8. RatesTrace(a, point, segments)
  BY <1>7 DEF RatesTrace, c, E, N
<1>9. Rate!RatePoints(point, samples) = a[N]
  BY <1>6 DEF a
<1> QED
  BY <1>8, <1>9 DEF N, segments

\* Every rate has a time.
LEMMA RatePointsAre ==
  ASSUME NEW point, NEW samples, IsReadings(samples)
  PROVE  HaveTimes(Rate!RatePoints(point, samples))
<1> DEFINE segments == PrepareNumericHistory(samples, point.maxGap).segments
           N == Len(segments)
           q == Rate!RatePoints(point, samples)
           f == [k \in 1..N |-> Rate!SegmentRates(point, segments[k], k)]
<1>1. N \in Nat /\ \A k \in 1..N : IsReadings(segments[k])
  <2> DEFINE maxGap == point.maxGap
  <2>1. /\ IsSequence(PrepareNumericHistory(samples, maxGap).segments)
        /\ \A k \in 1..Len(PrepareNumericHistory(samples, maxGap).segments) :
             IsReadings(PrepareNumericHistory(samples, maxGap).segments[k])
    <3> HIDE DEF maxGap
    <3> QED
      BY SegmentReadings
  <2> QED
    BY <2>1 DEF IsSequence
<1>2. PICK g : RatesTrace(g, point, segments) /\ q = g[N]
  BY <1>1, RatesTraceExists
<1> HIDE DEF segments, N, q
<1>3. g[0] = <<>> /\ \A k \in 1..N : g[k] = g[k - 1] \o Rate!SegmentRates(point, segments[k], k)
  BY <1>2 DEF RatesTrace, N
<1>4. \A k \in 1..N : HaveTimes(f[k]) /\ IsSequence(f[k])
  BY <1>1, SegmentRatesAre DEF HaveTimes
<1>5. Joined(g, f, N)
  BY <1>3 DEF Joined
<1> HIDE DEF f
<1>6. JoinOf(g[N], f, N)
  BY <1>1, <1>4, <1>5, JoinedIs
<1>7. IsSequence(q) /\ \A i \in 1..Len(q) : \E k \in 1..N : \E m \in 1..Len(f[k]) : q[i] = f[k][m]
  BY <1>2, <1>6 DEF JoinOf
<1>8. HaveTimes(q)
  BY <1>4, <1>7 DEF HaveTimes
<1> QED
  BY <1>8 DEF q

\* The timeline of level_rate_compliance.
RatesLine(rates) ==
  [i \in DOMAIN rates |->
     [time |-> rates[i].time, dir |-> rates[i].dir, valid |-> TRUE,
      boundary |-> i > 1 /\ rates[i].segment # rates[i - 1].segment]]

\* Rates make a timeline, all of it valid.
LEMMA RatesLineIs ==
  ASSUME NEW rates, HaveTimes(rates)
  PROVE  IsTimeline(RatesLine(rates))
<1> DEFINE q == RatesLine(rates)
<1>1. /\ Len(rates) \in Nat /\ DOMAIN rates = 1..Len(rates)
      /\ \A i \in 1..Len(rates) : rates[i].time \in Nat \ {0}
  BY DEF HaveTimes, IsSequence
<1>2. /\ Len(q) = Len(rates) /\ DOMAIN q = 1..Len(q)
      /\ \A i \in 1..Len(q) : q[i].time = rates[i].time /\ q[i].valid = TRUE
      /\ q = [i \in 1..Len(q) |-> q[i]]
  BY <1>1 DEF RatesLine
<1> HIDE DEF q
<1>3. IsTimeline(q)
  BY <1>1, <1>2 DEF IsTimeline, IsSequence
<1> QED
  BY <1>3 DEF q

\* What level_rate_compliance charges for a window.
LEMMA RateRuns ==
  ASSUME HistoryInv, NEW w \in Window, rule = "rate", now = Rate!ObservationEnd(RatePoint, End(w))
  PROVE  Rate!PointEvents(RatePoint, recorded, Start(w), End(w))
           = RunsCharged(RatePoint, RateTimeline(Start(w) - Rate!LookbackOf(RatePoint), now), w, now)
<1> DEFINE from == Start(w) - Rate!LookbackOf(RatePoint)
           samples == Between(recorded[RatePoint.tag], from, now)
           rates == Rate!RatePoints(RatePoint, samples)
<1>1. RateTimeline(from, now) = RatesLine(rates)
  BY SameContext DEF RateTimeline, RatesLine
<1>2. Rate!PointEvents(RatePoint, recorded, Start(w), End(w))
        = Rate!Charged(Rate!DetectRuns(RatePoint, RatesLine(rates), now), Start(w), End(w))
  BY SameRate DEF Rate!PointEvents, Rate!DetectRateEvents, RatesLine
<1>3. RatePoint.tag \in DOMAIN recorded
  BY TagsAssumption DEF HistoryInv
<1>4. RatePoint.mergeGap \in Nat
  BY PointsAreValid DEF Rate!ValidRatePoint
<1> HIDE DEF from
<1>5. IsReadings(samples)
  BY <1>3, ReadingsBetween
<1> HIDE DEF samples
<1>6. HaveTimes(rates)
  BY <1>5, RatePointsAre
<1> HIDE DEF rates
<1>7. IsTimeline(RatesLine(rates))
  BY <1>6, RatesLineIs
<1> DEFINE tl == RatesLine(rates)
           point == RatePoint
<1>8. tl = RatesLine(rates) /\ point = RatePoint
  OBVIOUS
<1> HIDE DEF tl, point
<1>9. Rate!Charged(Rate!DetectRuns(point, tl, now), Start(w), End(w)) = RunsCharged(point, tl, w, now)
  BY <1>4, <1>7, <1>8, RateTimelineCharged
<1> QED
  BY <1>1, <1>2, <1>8, <1>9 DEF from

-----------------------------------------------------------------------------
TimesIn(samples) == {samples[i].time : i \in 1..Len(samples)}

\* A break is the time of a sample.
LEMMA BreakAdded ==
  ASSUME NEW p, NEW samples, NEW n \in Nat, Prepared(p, samples, n), NEW sample, NEW maxGap
  PROVE  AddSample(maxGap, p, sample).breaks \subseteq p.breaks \cup {sample.time}
<1> DEFINE late == /\ p.current # <<>> /\ maxGap # 0
                   /\ sample.time - Last(p.current).time > maxGap
           c == CloseSegment(p)
           closed == [c EXCEPT !.breaks = @ \cup {sample.time}]
           q == IF ~sample.good \/ late THEN closed ELSE p
           r == IF sample.good THEN [q EXCEPT !.current = Append(@, sample)] ELSE q
<1>1. AddSample(maxGap, p, sample) = r
  BY DEF AddSample
<1>2. c.breaks = p.breaks /\ c = [segments |-> c.segments, current |-> c.current, breaks |-> c.breaks]
  <2>1. Prepared(c, samples, n) /\ c.breaks = p.breaks
    BY CloseSegmentIs
  <2> HIDE DEF c
  <2> QED
    BY <2>1 DEF Prepared
<1>3. p = [segments |-> p.segments, current |-> p.current, breaks |-> p.breaks]
  BY DEF Prepared
<1> HIDE DEF c, late
<1>4. /\ closed.breaks = p.breaks \cup {sample.time}
      /\ closed = [segments |-> closed.segments, current |-> closed.current, breaks |-> closed.breaks]
  BY <1>2
<1> HIDE DEF closed
<1>5. /\ q.breaks \subseteq p.breaks \cup {sample.time}
      /\ q = [segments |-> q.segments, current |-> q.current, breaks |-> q.breaks]
  BY <1>3, <1>4
<1> HIDE DEF q
<1>6. r.breaks = q.breaks
  BY <1>5
<1> QED
  BY <1>1, <1>5, <1>6

\* All breaks are times of samples.
LEMMA BreaksAre ==
  ASSUME NEW samples, Timed(samples), NEW maxGap
  PROVE  PrepareNumericHistory(samples, maxGap).breaks \subseteq TimesIn(samples)
<1> DEFINE N == Len(samples)
<1>1. N \in Nat
  BY TimedShape
<1>2. PICK g : PreparedTrace(g, samples, maxGap)
  BY <1>1, PreparedTraceExists
<1>3. /\ g[0] = [segments |-> <<>>, current |-> <<>>, breaks |-> {}]
      /\ \A i \in 1..N : g[i] = AddSample(maxGap, g[i - 1], samples[i])
      /\ PrepareNumericHistory(samples, maxGap).breaks = CloseSegment(g[N]).breaks
  BY <1>2 DEF PreparedTrace
<1> DEFINE Known(n) == Prepared(g[n], samples, n) /\ g[n].breaks \subseteq TimesIn(samples)
           T == {n \in Nat : n <= N => Known(n)}
<1>4. 0 \in T
  <2> DEFINE c == [segments |-> <<>>, current |-> <<>>, breaks |-> {}]
  <2>1. c.segments = <<>> /\ c.current = <<>> /\ c.breaks = {}
    OBVIOUS
  <2>2. IsSequence(<<>>) /\ Len(<<>>) = 0
    BY DEF IsSequence
  <2>3. Prepared(c, samples, 0)
    BY <2>1, <2>2, EmptyTimed DEF Prepared
  <2> QED
    BY <1>3, <2>1, <2>3
<1>5. ASSUME NEW n \in Nat, n \in T PROVE n + 1 \in T
  <2> SUFFICES ASSUME n + 1 <= N PROVE Known(n + 1)
    OBVIOUS
  <2>1. n + 1 \in 1..N /\ (n + 1) - 1 = n /\ n \in 0..N /\ n < N
    BY <1>1
  <2>2. Known(n) /\ g[n + 1] = AddSample(maxGap, g[n], samples[n + 1])
    BY <1>3, <1>5, <2>1
  <2>3. Prepared(g[n + 1], samples, n + 1)
    BY <2>1, <2>2, AddSampleIs
  <2> DEFINE p == g[n]
             sample == samples[n + 1]
  <2>4. Prepared(p, samples, n)
    BY <2>2
  <2>5. sample.time \in TimesIn(samples)
    BY <2>1 DEF TimesIn
  <2> HIDE DEF p, sample
  <2>6. AddSample(maxGap, p, sample).breaks \subseteq p.breaks \cup {sample.time}
    BY <2>4, BreakAdded
  <2>7. p.breaks \subseteq TimesIn(samples)
    BY <2>2 DEF p
  <2>8. g[n + 1].breaks \subseteq TimesIn(samples)
    BY <2>2, <2>5, <2>6, <2>7 DEF p, sample
  <2> QED
    BY <2>3, <2>8
<1> HIDE DEF T
<1>6. Nat \subseteq T
  BY <1>4, <1>5, SetInduction
<1>7. Known(N)
  BY <1>1, <1>6 DEF T
<1>8. CloseSegment(g[N]).breaks = g[N].breaks
  BY <1>1, <1>7, CloseSegmentIs
<1> QED
  BY <1>3, <1>7, <1>8

-----------------------------------------------------------------------------
\* Flow has the helpers of the modules it extends.
LEMMA SameFlow ==
  /\ \A samples, maxGap :
       Flow!PrepareNumericHistory(samples, maxGap) = PrepareNumericHistory(samples, maxGap)
  /\ \A s, P : Flow!Subsequence(s, P) = Subsequence(s, P)
  /\ \A s, smoothing : Flow!Smooth(s, smoothing) = Smooth(s, smoothing)
  /\ \A s, from, to : Flow!GetHistory(s, from, to) = Between(s, from, to)
<1>1. \A samples, maxGap :
        Flow!PrepareNumericHistory(samples, maxGap) = PrepareNumericHistory(samples, maxGap)
  BY DEF PrepareNumericHistory, AddSample, CloseSegment, Last, Flow!PrepareNumericHistory,
         Flow!AddSample, Flow!CloseSegment, Flow!Last
<1>2. \A s, P : Flow!Subsequence(s, P) = Subsequence(s, P)
  BY DEF Subsequence, Flow!Subsequence
<1>3. \A s, smoothing : Flow!Smooth(s, smoothing) = Smooth(s, smoothing)
  BY Zenon DEF Smooth, TrailingMean, SumAt, Subsequence, Cardinality, Flow!Smooth,
               Flow!TrailingMean, Flow!SumAt, Flow!Subsequence, Flow!Cardinality
<1>4. \A s, from, to : Flow!GetHistory(s, from, to) = Between(s, from, to)
  BY DEF Between, Earlier, Cardinality, Flow!GetHistory, Flow!Between, Flow!Earlier,
         Flow!Cardinality
<1> QED
  BY <1>1, <1>2, <1>3, <1>4

\* The smoothed readings of a segment, with its number.
Numbered(segment, smoothing, k) ==
  [i \in DOMAIN Flow!Smooth(segment, smoothing) |->
     [sample |-> Flow!Smooth(segment, smoothing)[i], segment |-> k]]

NumberedIn(q, samples) ==
  IsSequence(q) /\ \A i \in 1..Len(q) : q[i].sample.time \in TimesIn(samples)

\* They have times of samples.
LEMMA NumberedAre ==
  ASSUME NEW samples, NEW segment, IsReadings(segment), PartOf(segment, samples),
         NEW smoothing, NEW k
  PROVE  NumberedIn(Numbered(segment, smoothing, k), samples)
<1> DEFINE line == Smooth(segment, smoothing)
           q == Numbered(segment, smoothing, k)
<1>1. Timed(line) /\ \A i \in 1..Len(line) : \E j \in 1..Len(segment) : line[i].time = segment[j].time
  BY SmoothTimes DEF IsReadings, TimesOf
<1>2. q = [i \in DOMAIN line |-> [sample |-> line[i], segment |-> k]]
  BY SameFlow DEF Numbered
<1> HIDE DEF line, q
<1>3. Len(line) \in Nat /\ DOMAIN line = 1..Len(line)
  BY <1>1, TimedShape
<1>4. /\ Len(q) = Len(line) /\ DOMAIN q = 1..Len(q) /\ q = [i \in 1..Len(q) |-> q[i]]
      /\ \A i \in 1..Len(q) : q[i].sample = line[i]
  BY <1>2, <1>3
<1>5. ASSUME NEW i \in 1..Len(q) PROVE q[i].sample.time \in TimesIn(samples)
  <2>1. PICK j \in 1..Len(segment) : line[i].time = segment[j].time
    BY <1>1, <1>4
  <2>2. PICK m \in 1..Len(samples) : segment[j] = samples[m]
    BY DEF PartOf
  <2> QED
    BY <1>4, <2>1, <2>2 DEF TimesIn
<1>6. NumberedIn(q, samples)
  BY <1>3, <1>4, <1>5 DEF NumberedIn, IsSequence
<1> QED
  BY <1>6 DEF q

TaggedTrace(g, smoothing, segments) ==
  /\ g[0] = <<>>
  /\ \A k \in 1..Len(segments) : g[k] = g[k - 1] \o Numbered(segments[k], smoothing, k)

\* The readings of a TAG, segment by segment.
LEMMA TaggedTraceExists ==
  ASSUME NEW point, NEW samples,
         Len(PrepareNumericHistory(samples, point.maxGap).segments) \in Nat
  PROVE  \E g : /\ TaggedTrace(g, point.smoothing,
                               PrepareNumericHistory(samples, point.maxGap).segments)
                /\ Flow!PreparedTag(point, samples).line
                     = g[Len(PrepareNumericHistory(samples, point.maxGap).segments)]
<1> DEFINE segments == Flow!PrepareNumericHistory(samples, point.maxGap).segments
           N == Len(segments)
           c == <<>>
           E(x, k) == x \o Numbered(segments[k], point.smoothing, k)
           Is(g, n) == g = [k \in 0..n |-> IF k = 0 THEN c ELSE E(g[k - 1], k)]
           T == {n \in Nat : \E g : Is(g, n)}
<1>0. segments = PrepareNumericHistory(samples, point.maxGap).segments /\ N \in Nat
  BY SameFlow
<1>6. Flow!PreparedTag(point, samples).line = (CHOOSE g : Is(g, N))[N]
  BY DEF Flow!PreparedTag, Numbered
<1> HIDE DEF c, E, segments, N
<1>1. 0 \in T
  <2>1. Is([k \in 0..0 |-> c], 0)
    OBVIOUS
  <2> QED
    BY <2>1
<1>2. ASSUME NEW n \in Nat, n \in T PROVE n + 1 \in T
  <2>1. PICK g : Is(g, n)
    BY <1>2
  <2> DEFINE h == [k \in 0..(n + 1) |-> IF k = n + 1 THEN E(g[n], n + 1) ELSE g[k]]
  <2>2. \A k \in 0..(n + 1) : h[k] = IF k = 0 THEN c ELSE E(h[k - 1], k)
    <3> TAKE k \in 0..(n + 1)
    <3>1. CASE k = n + 1
      BY <3>1
    <3>2. CASE k # n + 1
      BY <2>1, <3>2
    <3> QED
      BY <3>1, <3>2
  <2>3. Is(h, n + 1)
    <3>1. h = [k \in 0..(n + 1) |-> h[k]]
      OBVIOUS
    <3> HIDE DEF h
    <3> QED
      BY <2>2, <3>1
  <2> HIDE DEF Is
  <2> QED
    BY <2>3
<1> HIDE DEF T
<1>3. Nat \subseteq T
  BY <1>1, <1>2, SetInduction
<1>4. \E g : Is(g, N)
  BY <1>0, <1>3 DEF T
<1> DEFINE a == CHOOSE g : Is(g, N)
<1>5. Is(a, N)
  BY <1>4
<1> HIDE DEF a
<1>7. a[0] = c /\ \A i \in 1..N : a[i] = E(a[i - 1], i)
  BY <1>0, <1>5
<1>8. TaggedTrace(a, point.smoothing, segments)
  BY <1>7 DEF TaggedTrace, c, E, N
<1>9. Flow!PreparedTag(point, samples).line = a[N]
  BY <1>6 DEF a
<1> QED
  BY <1>0, <1>8, <1>9 DEF N

-----------------------------------------------------------------------------
\* The readings of a TAG, prepared: it is known at the times of samples only.
PreparedFrom(prepared, samples) ==
  /\ IsSequence(prepared.line)
  /\ \A i \in 1..Len(prepared.line) : prepared.line[i].sample.time \in TimesIn(samples)
  /\ prepared.breaks \subseteq TimesIn(samples)

\* What is prepared of a TAG is known at the times of its samples.
LEMMA PreparedTagIs ==
  ASSUME NEW point, NEW samples, IsReadings(samples)
  PROVE  PreparedFrom(Flow!PreparedTag(point, samples), samples)
<1> DEFINE maxGap == point.maxGap
           segments == PrepareNumericHistory(samples, maxGap).segments
           N == Len(segments)
           prepared == Flow!PreparedTag(point, samples)
           q == prepared.line
           f == [k \in 1..N |-> Numbered(segments[k], point.smoothing, k)]
<1>1. N \in Nat /\ \A k \in 1..N : IsReadings(segments[k]) /\ PartOf(segments[k], samples)
  <2>1. /\ IsSequence(PrepareNumericHistory(samples, maxGap).segments)
        /\ \A k \in 1..Len(PrepareNumericHistory(samples, maxGap).segments) :
             /\ IsReadings(PrepareNumericHistory(samples, maxGap).segments[k])
             /\ PartOf(PrepareNumericHistory(samples, maxGap).segments[k], samples)
    <3> HIDE DEF maxGap
    <3> QED
      BY SegmentReadings
  <2> QED
    BY <2>1 DEF IsSequence
<1>2. PICK g : TaggedTrace(g, point.smoothing, segments) /\ q = g[N]
  BY <1>1, TaggedTraceExists
<1>3. prepared.breaks \subseteq TimesIn(samples)
  <2>1. prepared.breaks = PrepareNumericHistory(samples, maxGap).breaks
    BY SameFlow DEF Flow!PreparedTag
  <2> HIDE DEF prepared, maxGap
  <2> QED
    BY <2>1, BreaksAre DEF IsReadings
<1> HIDE DEF segments, N, q
<1>4. g[0] = <<>> /\ \A k \in 1..N : g[k] = g[k - 1] \o Numbered(segments[k], point.smoothing, k)
  BY <1>2 DEF TaggedTrace, N
<1>5. \A k \in 1..N : NumberedIn(f[k], samples) /\ IsSequence(f[k])
  <2> TAKE k \in 1..N
  <2> DEFINE smoothing == point.smoothing
             s == segments[k]
  <2>1. IsReadings(s) /\ PartOf(s, samples)
    BY <1>1
  <2>2. f[k] = Numbered(s, smoothing, k)
    OBVIOUS
  <2> HIDE DEF s, smoothing, f
  <2>3. NumberedIn(f[k], samples)
    BY <2>1, <2>2, NumberedAre
  <2> QED
    BY <2>3 DEF NumberedIn
<1>6. Joined(g, f, N)
  BY <1>4 DEF Joined
<1> HIDE DEF f
<1>7. JoinOf(g[N], f, N)
  BY <1>1, <1>5, <1>6, JoinedIs
<1>8. IsSequence(q) /\ \A i \in 1..Len(q) : \E k \in 1..N : \E m \in 1..Len(f[k]) : q[i] = f[k][m]
  BY <1>2, <1>7 DEF JoinOf
<1>9. \A i \in 1..Len(q) : q[i].sample.time \in TimesIn(samples)
  BY <1>5, <1>8 DEF NumberedIn
<1> QED
  BY <1>3, <1>8, <1>9 DEF PreparedFrom, q

\* The last of bounded times is a time.
LEMMA FlowMaxIs ==
  ASSUME NEW b \in Nat, NEW T, T \subseteq 0..b
  PROVE  Flow!Max({0} \cup T) \in Nat
<1> DEFINE S == {0} \cup T
<1>1. S \subseteq 0..b /\ S # {}
  OBVIOUS
<1> HIDE DEF S
<1>2. \E x \in S : \A y \in S : y <= x
  BY <1>1, GreatestNumber
<1>3. S \subseteq Nat
  BY <1>1
<1>4. \E x \in S : \A y \in S : x >= y
  BY <1>2, <1>3
<1>5. Flow!Max(S) \in S
  BY <1>4 DEF Flow!Max
<1> QED
  BY <1>3, <1>5 DEF S

\* The times at which a TAG is known.
TimesKnown(prepared) ==
  UNION {prepared[tag].breaks \cup {item.sample.time : item \in Range(prepared[tag].line)} :
           tag \in DOMAIN prepared}

\* The times in order.
InOrder(T) == Subsequence([t \in 1..Flow!Max({0} \cup T) |-> t], T)

\* Bounded times can be put in order.
LEMMA InOrderIs ==
  ASSUME NEW b \in Nat, NEW T, T \subseteq 0..b
  PROVE  /\ Len(InOrder(T)) \in Nat /\ DOMAIN InOrder(T) = 1..Len(InOrder(T))
         /\ \A i \in 1..Len(InOrder(T)) : InOrder(T)[i] \in Nat \ {0}
         /\ \A i, j \in 1..Len(InOrder(T)) : i < j => InOrder(T)[i] < InOrder(T)[j]
<1> DEFINE M == Flow!Max({0} \cup T)
           line == [t \in 1..M |-> t]
           q == InOrder(T)
<1>1. M \in Nat
  BY FlowMaxIs
<1>2. q = Subsequence(line, T)
  BY DEF InOrder
<1> HIDE DEF M, q
<1>3. Len(line) = M /\ \A t \in 1..M : line[t] = t
  BY <1>1
<1> HIDE DEF line
<1>4. PICK pos : IsTaken(q, line, Len(line), T, pos)
  BY <1>1, <1>2, <1>3, SubsequenceIs
<1>5. /\ Len(q) \in Nat /\ DOMAIN q = 1..Len(q)
      /\ \A k \in 1..Len(q) : pos[k] \in 1..M /\ q[k] = line[pos[k]]
      /\ \A k, m \in 1..Len(q) : k < m => pos[k] < pos[m]
  BY <1>3, <1>4 DEF IsTaken
<1>6. \A k \in 1..Len(q) : q[k] = pos[k] /\ q[k] \in Nat \ {0}
  BY <1>1, <1>3, <1>5
<1> QED
  BY <1>5, <1>6 DEF q

\* The timeline of flow_balance_compliance.
LEMMA FlowTimelineIs ==
  ASSUME NEW point, NEW prepared, NEW b \in Nat, TimesKnown(prepared) \subseteq 0..b
  PROVE  IsTimeline(Flow!Timeline(point, prepared))
<1> DEFINE T == TimesKnown(prepared)
           order == InOrder(T)
           tl == Flow!Timeline(point, prepared)
<1>1. tl = [i \in DOMAIN order |-> Flow!ObservationAt(point, prepared, order[i])]
  BY SameFlow DEF Flow!Timeline, InOrder, TimesKnown, Flow!Range, Range
<1> HIDE DEF T
<1>2. T \subseteq 0..b
  BY DEF T
<1>3. /\ Len(order) \in Nat /\ DOMAIN order = 1..Len(order)
      /\ \A i \in 1..Len(order) : order[i] \in Nat \ {0}
      /\ \A i, j \in 1..Len(order) : i < j => order[i] < order[j]
  BY <1>2, InOrderIs
<1> HIDE DEF order, tl
<1>4. \A t : Flow!ObservationAt(point, prepared, t).time = t
  BY DEF Flow!ObservationAt
<1>5. /\ Len(tl) = Len(order) /\ DOMAIN tl = 1..Len(tl) /\ tl = [i \in 1..Len(tl) |-> tl[i]]
      /\ \A i \in 1..Len(tl) : tl[i] = Flow!ObservationAt(point, prepared, order[i])
  BY <1>1, <1>3
<1>6. \A i \in 1..Len(tl) : tl[i].time = order[i]
  BY <1>4, <1>5
<1>7. IsTimeline(tl)
  BY <1>3, <1>5, <1>6 DEF IsTimeline, IsSequence
<1> QED
  BY <1>7 DEF tl

\* What is prepared of the readings that flow_balance_compliance asks for.
FlowPrepared(from, to) ==
  [tag \in Flow!PointTags(FlowPoint) |->
     Flow!PreparedTag(FlowPoint, Between(recorded[tag], from, to))]

\* The readings of a range have one timeline.
LEMMA FlowTimelinesAre ==
  ASSUME NEW from, NEW to
  PROVE  Flow!Timelines(FlowPoint, recorded, from, to)
           = {Flow!Timeline(FlowPoint, FlowPrepared(from, to))}
<1> DEFINE tags == Flow!PointTags(FlowPoint)
           histories == Flow!GetHistories(recorded, tags, from, to)
           prepared == [tag \in tags |-> Flow!PreparedTag(FlowPoint, histories[tag])]
<1>1. Flow!Timelines(FlowPoint, recorded, from, to) = {Flow!Timeline(FlowPoint, p) : p \in {prepared}}
  BY DEF Flow!Timelines
<1>2. prepared = FlowPrepared(from, to)
  <2>1. \A tag \in tags : histories[tag] = Between(recorded[tag], from, to)
    BY SameFlow DEF Flow!GetHistories
  <2> HIDE DEF histories, tags
  <2> QED
    BY <2>1 DEF FlowPrepared, tags
<1> HIDE DEF prepared
<1> QED
  BY <1>1, <1>2

\* What flow_balance_compliance charges for a window.
LEMMA FlowRuns ==
  ASSUME HistoryInv, NEW w \in Window, rule = "flow", now = Flow!ObservationEnd(FlowPoint, End(w)),
         NEW timeline \in FlowTimelines(Start(w) - Flow!LookbackOf(FlowPoint), now)
  PROVE  Flow!PointEvents(FlowPoint, recorded, Start(w), End(w))
           = RunsCharged(FlowPoint, timeline, w, now)
<1> DEFINE from == Start(w) - Flow!LookbackOf(FlowPoint)
           prepared == FlowPrepared(from, now)
           tl == Flow!Timeline(FlowPoint, prepared)
           point == FlowPoint
           charged == Flow!Charged(Flow!DetectRuns(point, tl, now), Start(w), End(w))
<1>1. Flow!Timelines(FlowPoint, recorded, from, now) = {tl}
  <2> HIDE DEF from
  <2> QED
    BY FlowTimelinesAre
<1>2. timeline = tl
  BY <1>1 DEF FlowTimelines
<1>3. Flow!PointEvents(FlowPoint, recorded, Start(w), End(w)) = charged
  <2>1. Flow!PointEvents(FlowPoint, recorded, Start(w), End(w))
          = UNION {Flow!Charged(Flow!DetectRuns(FlowPoint, t, now), Start(w), End(w)) :
                     t \in Flow!Timelines(FlowPoint, recorded, from, now)}
    BY DEF Flow!PointEvents
  <2> HIDE DEF from, tl
  <2> QED
    BY <1>1, <2>1
<1>4. point.mergeGap \in Nat
  BY PointsAreValid DEF Flow!ValidFlowPoint
<1>5. TimesKnown(prepared) \subseteq 0..now
  <2>1. ASSUME NEW tag \in DOMAIN prepared
        PROVE  prepared[tag].breaks \cup {item.sample.time : item \in Range(prepared[tag].line)}
                 \subseteq 0..now
    <3> DEFINE samples == Between(recorded[tag], from, now)
               p == Flow!PreparedTag(FlowPoint, samples)
    <3>1. tag \in DOMAIN recorded /\ prepared[tag] = p
      BY TagsAssumption DEF HistoryInv, FlowPrepared
    <3> HIDE DEF from, prepared
    <3>2. IsReadings(samples) /\ \A i \in 1..Len(samples) : samples[i].time < now
      BY <3>1, ReadingsBetween
    <3> HIDE DEF samples
    <3>3. PreparedFrom(p, samples)
      BY <3>2, PreparedTagIs
    <3>4. TimesIn(samples) \subseteq 0..now
      BY <3>2 DEF TimesIn, IsReadings, Timed, HistoryInv
    <3> HIDE DEF p
    <3>5. {item.sample.time : item \in Range(p.line)} \subseteq TimesIn(samples)
      BY <3>3 DEF PreparedFrom, IsSequence, Range
    <3> QED
      BY <3>1, <3>3, <3>4, <3>5 DEF PreparedFrom
  <2> HIDE DEF prepared
  <2> QED
    BY <2>1 DEF TimesKnown
<1>6. now \in Nat
  BY DEF HistoryInv
<1> HIDE DEF prepared, point
<1>7. IsTimeline(tl)
  BY <1>5, <1>6, FlowTimelineIs
<1> HIDE DEF tl
<1>8. charged = RunsCharged(point, tl, w, now)
  BY <1>4, <1>7, TimelineCharged
<1> QED
  BY <1>2, <1>3, <1>8 DEF point

\* The rules flow_balance_compliance and level_rate_compliance charge, with their ends,
\* exactly the runs of their timelines that begin in the window and last long enough,
\* merged over short recoveries and cut where data is missing.
THEOREM RunsAreCharged == Spec => []RunsFound
<1>1. ASSUME HistoryInv PROVE RunsFound
  <2>1. FlowRunsFound
    <3> SUFFICES ASSUME NEW w \in Window, FlowAssessed(w),
                        now = Flow!ObservationEnd(FlowPoint, End(w)),
                        NEW timeline \in FlowTimelines(Start(w) - Flow!LookbackOf(FlowPoint), now)
                 PROVE  Flow!PointEvents(FlowPoint, recorded, Start(w), End(w))
                          = RunsCharged(FlowPoint, timeline, w, now)
      BY DEF FlowRunsFound
    <3>1. rule = "flow"
      BY DEF FlowAssessed
    <3> QED
      BY <1>1, <3>1, FlowRuns
  <2>2. RateRunsFound
    <3> SUFFICES ASSUME NEW w \in Window, RateAssessed(w),
                        now = Rate!ObservationEnd(RatePoint, End(w))
                 PROVE  Rate!PointEvents(RatePoint, recorded, Start(w), End(w))
                          = RunsCharged(RatePoint,
                              RateTimeline(Start(w) - Rate!LookbackOf(RatePoint), now), w, now)
      BY DEF RateRunsFound
    <3>1. rule = "rate"
      BY DEF RateAssessed
    <3> QED
      BY <1>1, <3>1, RateRuns
  <2> QED
    BY <2>1, <2>2 DEF RunsFound
<1> QED
  BY <1>1, HistoryOrdered, PTL
=============================================================================
