-------------------------- MODULE ReportMonthProofs --------------------------
(***************************************************************************)
(* The monthly report, for any configurations, occurrences, months and     *)
(* numbers of edits and commands: penalties stay in the row of their item, *)
(* the totals add up what was charged, a report that was synchronised can  *)
(* be filled, a package has for every point what its own window holds, the *)
(* mail and the workbook read it alike, and an assessment fails for        *)
(* nothing but its configuration.                                          *)
(*                                                                         *)
(* The invariant says of every workbook that each row has an item of its   *)
(* own, that each cell of a finished one holds exactly what was charged    *)
(* for the item of its row, that every item that was charged has a row,    *)
(* that the items follow the configuration of the last sync, and where     *)
(* each date comes from.  A sync then gives new rows only to items that    *)
(* were never charged, and after it the items that apply today are those   *)
(* of the configuration, which are the points that a package has.          *)
(*                                                                         *)
(* What the folds compute is not a matter of steps but of data: sequences  *)
(* that are flattened, sums over sets, tables filled entry by entry.  The  *)
(* first lemmas establish it from the least counterexample.                *)
(***************************************************************************)
EXTENDS ReportMonth, FiniteSetTheorems, WellFoundedInduction, TLAPS

Fields == {"key", "row", "audience", "effective", "inactive"}
AllKeys == {item.key : item \in AllItems}

IsEntry(e) ==
  /\ e = [f \in Fields |-> e[f]]
  /\ e.key \in AllKeys /\ e.effective \in Nat /\ e.inactive \in Nat

IsList(s, n) == s = [i \in 1..n |-> s[i]]

IsRecord(s) == s = [rows |-> s.rows, mapping |-> s.mapping, control |-> s.control,
                    field |-> s.field, cells |-> s.cells, done |-> s.done]

RowsOf(mapping, audiences) == {e.row : e \in {f \in Range(mapping) : f.audience \in audiences}}

\* A mapping sheet: an item in each row, no item twice.
IsMapping(mapping, rows) ==
  /\ IsList(mapping, rows)
  /\ \A i \in 1..rows : IsEntry(mapping[i]) /\ mapping[i].row = i
  /\ \A i, j \in 1..rows : mapping[i].key = mapping[j].key => i = j

\* A workbook: its items, a cell for each row and day, and the totals of the rows.
IsSheet(s) ==
  /\ IsRecord(s)
  /\ s.rows \in Nat
  /\ IsMapping(s.mapping, s.rows)
  /\ s.control = RowsOf(s.mapping, {"control", "shared"})
  /\ s.field = RowsOf(s.mapping, {"field", "shared"})
  /\ \E n \in DOMAIN Month : s.cells = [d \in Month[n] |-> s.cells[d]]
  /\ \A d \in DOMAIN s.cells : IsList(s.cells[d], s.rows)

\* What belongs in a cell.
Cell(charge, key) == IF key \in DOMAIN charge /\ charge[key] > 0 THEN -charge[key] ELSE Blank

Shows(s, d, charge) ==
  /\ \A key \in DOMAIN charge : \E i \in 1..s.rows : s.mapping[i].key = key
  /\ \A i \in 1..s.rows : s.cells[d][i] = Cell(charge, s.mapping[i].key)

\* Where the dates of an item come from: the calendar, by the month m, or the configuration.
EffectiveKnown(date, m) ==
  \/ date <= today
  \/ date <= Min(Month[m])
  \/ \E item \in AllItems : date = item.effective

InactiveKnown(date) == date <= today \/ \E item \in AllItems : date = item.inactive

Dated(mapping, rows, m) ==
  \A i \in 1..rows :
    EffectiveKnown(mapping[i].effective, m) /\ InactiveKnown(mapping[i].inactive)

\* A mapping that follows a list of items: it has them all, and the others are stopped.
Follows(mapping, rows, items) ==
  /\ \A item \in Range(items) : \E i \in 1..rows : mapping[i].key = item.key
  /\ \A i \in 1..rows :
       \/ \E item \in Range(items) :
            mapping[i].key = item.key /\ mapping[i].inactive = item.inactive
       \/ mapping[i].key \notin Keys(items) /\ mapping[i].inactive # Never

\* The file of a month has that month's days, or an earlier one's if new-month stopped.
MonthInv(m) ==
  /\ \A s, t \in book[m] : s = t
  /\ \A s \in book[m] :
       /\ IsSheet(s) /\ Dated(s.mapping, s.rows, m)
       /\ \E n \in DOMAIN Month : n <= m /\ DOMAIN s.cells = Month[n]
  /\ \A s \in Books(m) : \A d \in Month[m] : Shows(s, d, charged[d])
  /\ Books(m) = {} => \A d \in Month[m] : charged[d] = <<>>
  /\ \A d \in Month[m] : \A key \in DOMAIN charged[d] : charged[d][key] \in Nat
  /\ synced[m].config \in DOMAIN Configs
  /\ \A s \in Books(m) : Follows(s.mapping, s.rows, Items(Configs[synced[m].config]))

Inv ==
  /\ today \in Day
  /\ config \in DOMAIN Configs
  /\ package = [d \in Day |-> package[d]]
  /\ \A d \in Day : package[d] \subseteq DOMAIN Configs
  /\ book = [m \in DOMAIN Month |-> book[m]]
  /\ charged = [d \in Day |-> charged[d]]
  /\ synced = [m \in DOMAIN Month |-> synced[m]]
  /\ \A m \in DOMAIN Month : MonthInv(m)

\* Two lists, one after the other.
IsJoint(u, m, s, n, t) ==
  /\ IsList(u, m + n) /\ Len(u) = m + n
  /\ \A i \in 1..(m + n) : u[i] = IF i <= m THEN s[i] ELSE t[i - m]

\* Concatenation, element by element.
LEMMA Concatenation ==
  ASSUME NEW m \in Nat, NEW n \in Nat, NEW s, NEW t, IsList(s, m), IsList(t, n)
  PROVE  IsJoint(s \o t, m, s, n, t)
<1> DEFINE S == {s[i] : i \in 1..m} \cup {t[i] : i \in 1..n}
<1>1. s \in [1..m -> S]
  BY DEF IsList
<1>2. t \in [1..n -> S]
  BY DEF IsList
<1> HIDE DEF S
<1>3. s \in Seq(S) /\ Len(s) = m
  BY <1>1
<1>4. t \in Seq(S) /\ Len(t) = n
  BY <1>2
<1>5. s \o t \in Seq(S) /\ Len(s \o t) = m + n
  BY <1>3, <1>4
<1>6. \A i \in 1..(m + n) : (s \o t)[i] = IF i <= m THEN s[i] ELSE t[i - m]
  BY <1>3, <1>4
<1>7. \A u \in Seq(S) : u = [i \in 1..Len(u) |-> u[i]]
  OBVIOUS
<1>8. s \o t = [i \in 1..(m + n) |-> (s \o t)[i]]
  BY <1>5, <1>7
<1> QED
  BY <1>5, <1>6, <1>8 DEF IsList, IsJoint

\* What every sheet's rows name.
LEMMA RangeOfList ==
  ASSUME NEW n \in Nat, NEW s, IsList(s, n)
  PROVE  Range(s) = {s[i] : i \in 1..n} /\ DOMAIN s = 1..n
BY DEF IsList, Range

\* A set of natural numbers has a least element.
LEMMA LeastNumber ==
  ASSUME NEW T, T \subseteq Nat, T # {}
  PROVE  \E x \in T : \A y \in T : x <= y
<1> DEFINE R == OpToRel(<, Nat)
<1>1. IsWellFoundedOn(R, Nat)
  BY NatLessThanWellFounded
<1>2. \A a, b \in Nat : <<a, b>> \in R <=> a < b
  BY DEF OpToRel
<1> HIDE DEF R
<1>3. \E x \in T : \A y \in T : ~ (<<y, x>> \in R)
  BY <1>1, WFMin, Zenon
<1>4. PICK x \in T : \A y \in T : ~ (<<y, x>> \in R)
  BY <1>3
<1>5. ASSUME NEW y \in T PROVE x <= y
  <2>1. x \in Nat /\ y \in Nat
    OBVIOUS
  <2>2. ~ (<<y, x>> \in R)
    BY <1>4
  <2> QED
    BY <1>2, <2>1, <2>2
<1> QED
  BY <1>5

\* Induction over a set of numbers.
LEMMA SetInduction ==
  ASSUME NEW T, 0 \in T, \A n \in Nat : n \in T => n + 1 \in T
  PROVE  Nat \subseteq T
<1> SUFFICES ASSUME NEW m \in Nat, m \notin T PROVE FALSE
  OBVIOUS
<1>1. PICK x \in Nat \ T : \A y \in Nat \ T : x <= y
  BY LeastNumber
<1>2. x # 0 /\ x - 1 \in Nat /\ x - 1 \in T
  BY <1>1
<1> QED
  BY <1>1, <1>2

\* A definition by recursion over 0..N defines a function that satisfies it.
LEMMA Iteration ==
  ASSUME NEW S, NEW c \in S, NEW N \in Nat, NEW next \in [1..N -> [S -> S]]
  PROVE  \E g : /\ g \in [0..N -> S]
                /\ g[0] = c
                /\ \A i \in 1..N : g[i] = next[i][g[i - 1]]
<1> DEFINE Is(g, n) == g[0] = c /\ \A i \in 1..n : g[i] = next[i][g[i - 1]]
           T == {n \in Nat : n > N \/ \E g \in [0..n -> S] : Is(g, n)}
<1>1. 0 \in T
  <2>1. [i \in 0..0 |-> c] \in [0..0 -> S] /\ Is([i \in 0..0 |-> c], 0)
    OBVIOUS
  <2> QED
    BY <2>1
<1>2. ASSUME NEW n \in Nat, n \in T PROVE n + 1 \in T
  <2>1. CASE n + 1 > N
    BY <2>1
  <2>2. CASE n + 1 <= N
    <3>1. PICK g \in [0..n -> S] : Is(g, n)
      BY <1>2, <2>2
    <3> DEFINE h == [i \in 0..(n + 1) |-> IF i <= n THEN g[i] ELSE next[n + 1][g[n]]]
    <3>2. n + 1 \in 1..N /\ g[n] \in S /\ next[n + 1][g[n]] \in S
      BY <2>2
    <3>3. h \in [0..(n + 1) -> S]
      BY <3>2
    <3>4. /\ \A i \in 0..n : h[i] = g[i]
          /\ h[n + 1] = next[n + 1][g[n]]
      OBVIOUS
    <3> HIDE DEF h
    <3>5. Is(h, n + 1)
      <4>1. h[0] = c
        BY <3>1, <3>4
      <4>2. ASSUME NEW i \in 1..(n + 1) PROVE h[i] = next[i][h[i - 1]]
        <5>1. CASE i = n + 1
          BY <3>4, <5>1
        <5>2. CASE i \in 1..n
          BY <3>1, <3>4, <5>2
        <5> QED
          BY <5>1, <5>2
      <4> QED
        BY <4>1, <4>2
    <3> HIDE DEF Is
    <3> QED
      BY <3>3, <3>5
  <2> QED
    BY <2>1, <2>2
<1> HIDE DEF T
<1>3. Nat \subseteq T
  BY <1>1, <1>2, SetInduction
<1> QED
  BY <1>3 DEF T

\* What a concatenation contains.
LEMMA RangeOfJoint ==
  ASSUME NEW X, NEW s \in Seq(X), NEW t \in Seq(X), NEW x
  PROVE  x \in Range(s \o t) <=> x \in Range(s) \/ x \in Range(t)
<1>1. s \o t \in Seq(X) /\ Len(s \o t) = Len(s) + Len(t) /\ Len(s) \in Nat /\ Len(t) \in Nat
  OBVIOUS
<1>2. DOMAIN s = 1..Len(s) /\ DOMAIN t = 1..Len(t) /\ DOMAIN (s \o t) = 1..(Len(s) + Len(t))
  BY <1>1
<1>3. \A i \in 1..(Len(s) + Len(t)) : (s \o t)[i] = IF i <= Len(s) THEN s[i] ELSE t[i - Len(s)]
  OBVIOUS
<1> DEFINE u == s \o t
           m == Len(s)
           n == Len(t)
<1> HIDE DEF u, m, n
<1>4. /\ m \in Nat /\ n \in Nat /\ DOMAIN s = 1..m /\ DOMAIN t = 1..n /\ DOMAIN u = 1..(m + n)
      /\ \A i \in 1..(m + n) : u[i] = IF i <= m THEN s[i] ELSE t[i - m]
  BY <1>1, <1>2, <1>3 DEF u, m, n
<1>5. ASSUME x \in Range(u) PROVE x \in Range(s) \/ x \in Range(t)
  <2>1. PICK i \in 1..(m + n) : x = u[i]
    BY <1>4, <1>5 DEF Range
  <2>2. CASE i <= m
    BY <1>4, <2>1, <2>2 DEF Range
  <2>3. CASE ~(i <= m)
    <3>1. i - m \in 1..n /\ x = t[i - m]
      BY <1>4, <2>1, <2>3
    <3> QED
      BY <1>4, <3>1 DEF Range
  <2> QED
    BY <2>2, <2>3
<1>6. ASSUME x \in Range(s) PROVE x \in Range(u)
  <2>1. PICK i \in 1..m : x = s[i]
    BY <1>4, <1>6 DEF Range
  <2>2. i \in 1..(m + n) /\ u[i] = x
    BY <1>4, <2>1
  <2> QED
    BY <1>4, <2>2 DEF Range
<1>7. ASSUME x \in Range(t) PROVE x \in Range(u)
  <2>1. PICK i \in 1..n : x = t[i]
    BY <1>4, <1>7 DEF Range
  <2>2. i + m \in 1..(m + n) /\ u[i + m] = x
    BY <1>4, <2>1
  <2> QED
    BY <1>4, <2>2 DEF Range
<1> QED
  BY <1>5, <1>6, <1>7 DEF u

\* FlattenSeq is the sequence that a loop makes, appending list after list.
LEMMA Flattening ==
  ASSUME NEW n \in Nat, NEW seqs, IsList(seqs, n), NEW X, \A i \in 1..n : seqs[i] \in Seq(X)
  PROVE  \E g \in [0..n -> Seq(X)] :
           /\ g[0] = <<>> /\ \A i \in 1..n : g[i] = g[i - 1] \o seqs[i]
           /\ g[n] = FlattenSeq(seqs)
<1> DEFINE V == Seq(X)
           empty == <<>>
           next == [i \in 1..n |-> [s \in V |-> s \o seqs[i]]]
<1>1. next \in [1..n -> [V -> V]]
  OBVIOUS
<1>2. \A i \in 1..n : \A s \in V : next[i][s] = s \o seqs[i]
  OBVIOUS
<1>3. empty \in V
  OBVIOUS
<1> HIDE DEF next, V, empty
<1>5. PICK g : g \in [0..n -> V] /\ g[0] = empty /\ \A i \in 1..n : g[i] = next[i][g[i - 1]]
  BY <1>1, <1>3, Iteration
<1>10. \A i \in 1..n : i - 1 \in 0..n /\ g[i - 1] \in V /\ g[i] = g[i - 1] \o seqs[i]
  <2>1. ASSUME NEW i \in 1..n PROVE i - 1 \in 0..n /\ g[i - 1] \in V /\ g[i] = g[i - 1] \o seqs[i]
    <3>1. i - 1 \in 0..n
      OBVIOUS
    <3>2. g[i - 1] \in V
      BY <1>5, <3>1
    <3> QED
      BY <1>2, <1>5, <3>1, <3>2
  <2> QED
    BY <2>1
<1>11. g[0] = <<>> /\ g \in [0..n -> Seq(X)]
  BY <1>5 DEF V, empty
<1>12. ASSUME n # 0 PROVE g[1] = seqs[1]
  <2>1. 1 \in 1..n /\ 1 - 1 = 0
    BY <1>12
  <2>2. g[1] = <<>> \o seqs[1]
    BY <1>10, <1>11, <2>1
  <2>3. seqs[1] \in Seq(X)
    BY <2>1
  <2> QED
    BY <2>2, <2>3
<1>6. seqs \in [1..n -> Seq(X)]
  BY DEF IsList
<1>7. seqs \in Seq(Seq(X)) /\ Len(seqs) = n
  BY <1>6
<1> DEFINE Body(f) == [i \in 1..n |-> IF i = 1 THEN seqs[i] ELSE f[i - 1] \o seqs[i]]
<1>8. ASSUME n = 0 PROVE g[n] = FlattenSeq(seqs)
  <2>1. seqs = <<>>
    BY <1>7, <1>8
  <2> QED
    BY <1>7, <1>8, <1>11, <2>1 DEF FlattenSeq
<1>9. ASSUME n # 0 PROVE g[n] = FlattenSeq(seqs)
  <2> DEFINE flatten == CHOOSE f : f = Body(f)
  <2>1. FlattenSeq(seqs) = flatten[n]
    BY <1>7, <1>9 DEF FlattenSeq
  <2> DEFINE h == [i \in 1..n |-> g[i]]
  <2>2. h = Body(h)
    <3>1. ASSUME NEW i \in 1..n
          PROVE  g[i] = IF i = 1 THEN seqs[i] ELSE h[i - 1] \o seqs[i]
      <4>1. CASE i = 1
        BY <1>9, <1>12, <4>1
      <4>2. CASE i # 1
        <5>1. i - 1 \in 1..n
          BY <4>2
        <5> QED
          BY <1>10, <4>2, <5>1
      <4> QED
        BY <4>1, <4>2
    <3> QED
      BY <3>1
  <2>3. flatten = Body(flatten)
    <3> HIDE DEF h, Body
    <3> QED
      BY <2>2
  <2> HIDE DEF flatten
  <2> DEFINE T == {i \in Nat : i + 1 \in 1..n => flatten[i + 1] = g[i + 1]}
  <2>4. \A i \in 1..n : flatten[i] = IF i = 1 THEN seqs[i] ELSE flatten[i - 1] \o seqs[i]
    BY <2>3
  <2>5. 0 \in T
    BY <1>9, <1>12, <2>4
  <2>6. ASSUME NEW i \in Nat, i \in T PROVE i + 1 \in T
    <3> SUFFICES ASSUME i + 2 \in 1..n PROVE flatten[i + 2] = g[i + 2]
      OBVIOUS
    <3>1. i + 1 \in 1..n /\ (i + 2) - 1 = i + 1
      OBVIOUS
    <3>2. flatten[i + 1] = g[i + 1]
      BY <2>6, <3>1
    <3>3. flatten[i + 2] = flatten[i + 1] \o seqs[i + 2]
      <4>1. i + 2 # 1
        OBVIOUS
      <4> QED
        BY <2>4, <3>1, <4>1
    <3>4. g[i + 2] = g[i + 1] \o seqs[i + 2]
      BY <1>10, <3>1
    <3> QED
      BY <3>2, <3>3, <3>4
  <2> HIDE DEF T
  <2>7. n - 1 \in T
    <3>1. Nat \subseteq T
      BY <2>5, <2>6, SetInduction
    <3> QED
      BY <1>9, <3>1
  <2> QED
    <3>1. (n - 1) + 1 = n /\ n \in 1..n
      BY <1>9
    <3>2. flatten[n] = g[n]
      BY <2>7, <3>1 DEF T
    <3> HIDE DEF Body, h
    <3> QED
      BY <2>1, <3>2
<1>13. g[n] = FlattenSeq(seqs)
  BY <1>8, <1>9
<1> QED
  BY <1>10, <1>11, <1>13

\* What a list of lists has, and only that.
LEMMA Flattened ==
  ASSUME NEW n \in Nat, NEW seqs, IsList(seqs, n), NEW X, \A i \in 1..n : seqs[i] \in Seq(X)
  PROVE  /\ FlattenSeq(seqs) \in Seq(X)
         /\ \A x : x \in Range(FlattenSeq(seqs)) <=> \E i \in 1..n : x \in Range(seqs[i])
<1>1. PICK g \in [0..n -> Seq(X)] :
        /\ g[0] = <<>> /\ \A i \in 1..n : g[i] = g[i - 1] \o seqs[i]
        /\ g[n] = FlattenSeq(seqs)
  BY Flattening
<1> DEFINE T == {k \in Nat : k \in 0..n =>
                   \A x : x \in Range(g[k]) <=> \E i \in 1..k : x \in Range(seqs[i])}
<1>2. 0 \in T
  BY <1>1 DEF Range
<1>3. ASSUME NEW k \in Nat, k \in T PROVE k + 1 \in T
  <2> SUFFICES ASSUME k + 1 \in 0..n, NEW x
               PROVE  x \in Range(g[k + 1]) <=> \E i \in 1..(k + 1) : x \in Range(seqs[i])
    OBVIOUS
  <2>1. \A y : y \in Range(g[k]) <=> \E i \in 1..k : y \in Range(seqs[i])
    <3>1. k \in 0..n
      OBVIOUS
    <3> QED
      BY <1>3, <3>1
  <2>2. g[k] \in Seq(X) /\ seqs[k + 1] \in Seq(X) /\ g[k + 1] = g[k] \o seqs[k + 1]
    <3>1. k \in 0..n /\ k + 1 \in 1..n /\ (k + 1) - 1 = k
      OBVIOUS
    <3> QED
      BY <1>1, <3>1
  <2> HIDE DEF T
  <2>3. x \in Range(g[k + 1]) <=> x \in Range(g[k]) \/ x \in Range(seqs[k + 1])
    BY <2>2, RangeOfJoint
  <2>4. \A i \in 1..(k + 1) : i \in 1..k \/ i = k + 1
    OBVIOUS
  <2>5. k + 1 \in 1..(k + 1) /\ \A i \in 1..k : i \in 1..(k + 1)
    OBVIOUS
  <2> QED
    BY <2>1, <2>3, <2>4, <2>5
<1> HIDE DEF T
<1>4. Nat \subseteq T
  BY <1>2, <1>3, SetInduction
<1>5. n \in T /\ n \in 0..n
  BY <1>4
<1> QED
  BY <1>1, <1>5 DEF T

\* A list of lists that contain nothing twice, nor the same, contains nothing twice.
LEMMA FlattenedOnce ==
  ASSUME NEW n \in Nat, NEW seqs, IsList(seqs, n), NEW X, \A i \in 1..n : seqs[i] \in Seq(X),
         NEW f,
         \A i, j \in 1..n : \A a \in DOMAIN seqs[i], b \in DOMAIN seqs[j] :
           f[seqs[i][a]] = f[seqs[j][b]] => i = j /\ a = b
  PROVE  \A k, l \in DOMAIN FlattenSeq(seqs) :
           f[FlattenSeq(seqs)[k]] = f[FlattenSeq(seqs)[l]] => k = l
<1>1. PICK g \in [0..n -> Seq(X)] :
        /\ g[0] = <<>> /\ \A i \in 1..n : g[i] = g[i - 1] \o seqs[i]
        /\ g[n] = FlattenSeq(seqs)
  BY Flattening
<1> DEFINE From(k) == \A p \in DOMAIN g[k] : \E j \in 1..k : \E b \in DOMAIN seqs[j] :
                        g[k][p] = seqs[j][b]
           Once(k) == \A p, q \in DOMAIN g[k] : f[g[k][p]] = f[g[k][q]] => p = q
           T == {k \in Nat : k \in 0..n => From(k) /\ Once(k)}
<1>2. 0 \in T
  BY <1>1
<1>3. ASSUME NEW k \in Nat, k \in T PROVE k + 1 \in T
  <2> SUFFICES ASSUME k + 1 \in 0..n PROVE From(k + 1) /\ Once(k + 1)
    OBVIOUS
  <2>1. k \in 0..n /\ k + 1 \in 1..n /\ (k + 1) - 1 = k
    OBVIOUS
  <2>2. From(k) /\ Once(k)
    BY <1>3, <2>1
  <2> DEFINE s == g[k]
             t == seqs[k + 1]
             u == g[k + 1]
             m == Len(s)
             r == Len(t)
  <2>3. s \in Seq(X) /\ t \in Seq(X) /\ u = s \o t
    BY <1>1, <2>1
  <2> HIDE DEF T, s, t, u
  <2>4. /\ m \in Nat /\ r \in Nat /\ DOMAIN s = 1..m /\ DOMAIN t = 1..r
        /\ DOMAIN u = 1..(m + r)
        /\ \A p \in 1..m : u[p] = s[p]
        /\ \A p \in 1..(m + r) : p \notin 1..m => p - m \in 1..r /\ u[p] = t[p - m]
    BY <2>3
  <2> HIDE DEF m, r
  <2>5. \A p \in 1..m : \E j \in 1..k : \E b \in DOMAIN seqs[j] : s[p] = seqs[j][b]
    BY <2>2, <2>4 DEF s
  <2> HIDE DEF From
  <2>6. ASSUME NEW p \in DOMAIN u
        PROVE  \E j \in 1..(k + 1) : \E b \in DOMAIN seqs[j] : u[p] = seqs[j][b]
    <3>1. k + 1 \in 1..(k + 1) /\ \A j \in 1..k : j \in 1..(k + 1)
      OBVIOUS
    <3>2. CASE p \in 1..m
      <4>1. PICK j \in 1..k : \E b \in DOMAIN seqs[j] : s[p] = seqs[j][b]
        BY <2>5, <3>2
      <4> QED
        BY <2>4, <3>1, <3>2, <4>1
    <3>3. CASE p \notin 1..m
      <4>1. p - m \in DOMAIN seqs[k + 1] /\ u[p] = seqs[k + 1][p - m]
        BY <2>4, <3>3 DEF t
      <4> QED
        BY <3>1, <4>1
    <3> QED
      BY <3>2, <3>3
  <2>7. \A p, q \in 1..m : f[s[p]] = f[s[q]] => p = q
    BY <2>2, <2>4 DEF s
  <2>8. ASSUME NEW p \in 1..m, NEW b \in 1..r PROVE f[s[p]] # f[t[b]]
    <3>1. PICK j \in 1..k : \E a \in DOMAIN seqs[j] : s[p] = seqs[j][a]
      BY <2>5
    <3>2. PICK a \in DOMAIN seqs[j] : s[p] = seqs[j][a]
      BY <3>1
    <3>3. j \in 1..n /\ j # k + 1
      BY <2>1
    <3> QED
      BY <2>1, <2>4, <3>2, <3>3 DEF t
  <2>9. \A a, b \in 1..r : f[t[a]] = f[t[b]] => a = b
    BY <2>1, <2>4 DEF t
  <2>10. ASSUME NEW p \in DOMAIN u, NEW q \in DOMAIN u, f[u[p]] = f[u[q]]
         PROVE  p = q
    <3>1. CASE p \in 1..m /\ q \in 1..m
      BY <2>4, <2>7, <2>10, <3>1
    <3>2. CASE p \in 1..m /\ q \notin 1..m
      BY <2>4, <2>8, <2>10, <3>2
    <3>3. CASE p \notin 1..m /\ q \in 1..m
      <4>1. p - m \in 1..r /\ u[p] = t[p - m] /\ u[q] = s[q]
        BY <2>4, <3>3
      <4> QED
        BY <2>8, <2>10, <3>3, <4>1
    <3>4. CASE p \notin 1..m /\ q \notin 1..m
      <4>1. p - m \in 1..r /\ u[p] = t[p - m] /\ q - m \in 1..r /\ u[q] = t[q - m]
        BY <2>4, <3>4
      <4>2. p - m = q - m
        BY <2>9, <2>10, <4>1
      <4>3. p \in Int /\ q \in Int /\ m \in Int
        BY <2>4
      <4> QED
        BY <4>2, <4>3
    <3> QED
      BY <3>1, <3>2, <3>3, <3>4
  <2> QED
    BY <2>6, <2>10 DEF u, From
<1> HIDE DEF T
<1>4. Nat \subseteq T
  BY <1>2, <1>3, SetInduction
<1>5. n \in T /\ n \in 0..n
  BY <1>4
<1> HIDE DEF From, Once
<1>6. Once(n)
  BY <1>5 DEF T
<1> QED
  BY <1>1, <1>6 DEF Once

\* A sequence is the list of its elements.
LEMMA Listing ==
  ASSUME NEW X, NEW s \in Seq(X)
  PROVE  /\ s \in Seq(Range(s)) /\ Range(s) \subseteq X /\ s = [i \in 1..Len(s) |-> s[i]]
         /\ Len(s) \in Nat /\ DOMAIN s = 1..Len(s)
<1> DEFINE n == Len(s)
<1>1. n \in Nat /\ DOMAIN s = 1..n /\ s = [i \in 1..n |-> s[i]] /\ \A i \in 1..n : s[i] \in X
  OBVIOUS
<1> HIDE DEF n
<1> DEFINE R == Range(s)
<1>2. s \in [1..n -> R] /\ R \subseteq X
  BY <1>1 DEF Range
<1> HIDE DEF R
<1>3. s \in Seq(R)
  BY <1>1, <1>2
<1> QED
  BY <1>1, <1>2, <1>3 DEF n, R

-----------------------------------------------------------------------------
\* Among subsets of a finite set there is a least one: what holds of a set if it holds of
\* all smaller ones holds of all.
LEMMA LeastSubset ==
  ASSUME NEW S, IsFiniteSet(S), NEW T, T \subseteq SUBSET S, T # {}
  PROVE  \E R \in T : \A Q \in T : Q \subseteq R => Q = R
<1> DEFINE less == StrictSubsetOrdering(S)
           all == FiniteSubsetsOf(S)
<1>1. IsWellFoundedOn(less, all)
  BY FS_StrictSubsetOrderingWellFounded
<1>2. all = SUBSET S
  BY FS_FiniteSubsetsOfFinite
<1>3. \A Q, R \in SUBSET S : Q \subseteq R /\ Q # R => <<Q, R>> \in less
  BY DEF StrictSubsetOrdering
<1> HIDE DEF less, all
<1>4. T \subseteq all /\ T # {}
  BY <1>2
<1>5. PICK R \in T : \A Q \in T : ~ (<<Q, R>> \in less)
  BY <1>1, <1>4, WFMin, Zenon
<1> QED
  BY <1>3, <1>5

\* The element that a fold over a set takes next.
Pick(s) == CHOOSE x \in s : TRUE

\* The sums of v over the subsets of S, as the folds compute them.
Sums(g, v, S) ==
  g = [s \in SUBSET S |-> IF s = {} THEN 0 ELSE v[Pick(s)] + g[s \ {Pick(s)}]]

SumOf(v, S) == (CHOOSE g : Sums(g, v, S))[S]

\* Taking an element away leaves a smaller set.
LEMMA Picked ==
  ASSUME NEW S, NEW s \in SUBSET S, s # {}
  PROVE  Pick(s) \in s /\ Pick(s) \in S /\ s \ {Pick(s)} \in SUBSET S /\ s \ {Pick(s)} # s
BY DEF Pick

\* The sums are determined: two functions that are sums agree wherever both are.
LEMMA SumsAgree ==
  ASSUME NEW S, IsFiniteSet(S), NEW R \in SUBSET S, NEW v, NEW g, NEW h,
         Sums(g, v, S), Sums(h, v, R)
  PROVE  \A s \in SUBSET R : g[s] = h[s]
<1> DEFINE T == {s \in SUBSET R : g[s] # h[s]}
<1> SUFFICES ASSUME T # {} PROVE FALSE
  OBVIOUS
<1>1. IsFiniteSet(R)
  BY FS_Subset
<1>2. PICK s \in T : \A q \in T : q \subseteq s => q = s
  <2>1. T \subseteq SUBSET R /\ T # {}
    OBVIOUS
  <2> HIDE DEF T
  <2> QED
    BY <1>1, <2>1, LeastSubset
<1>3. s \in SUBSET R /\ s \in SUBSET S /\ g[s] # h[s]
  OBVIOUS
<1>4. CASE s = {}
  BY <1>3, <1>4 DEF Sums
<1>5. CASE s # {}
  <2> DEFINE q == s \ {Pick(s)}
  <2>1. q \in SUBSET R /\ q \in SUBSET S /\ q \subseteq s /\ q # s
    BY <1>3, <1>5, Picked
  <2>2. g[q] = h[q]
    BY <1>2, <2>1
  <2>3. g[s] = v[Pick(s)] + g[q]
    BY <1>3, <1>5 DEF Sums
  <2>4. h[s] = v[Pick(s)] + h[q]
    BY <1>3, <1>5 DEF Sums
  <2> QED
    BY <1>3, <2>2, <2>3, <2>4
<1> QED
  BY <1>4, <1>5

\* There are such sums, and they are numbers.
LEMMA SumsExist ==
  ASSUME NEW S, IsFiniteSet(S), NEW v, \A x \in S : v[x] \in Int
  PROVE  \A R \in SUBSET S : \E g : Sums(g, v, R) /\ g[R] \in Int
<1> DEFINE Good(R) == \E g : Sums(g, v, R) /\ g[R] \in Int
           T == {R \in SUBSET S : ~Good(R)}
<1> SUFFICES ASSUME T # {} PROVE FALSE
  OBVIOUS
<1>1. PICK R \in T : \A Q \in T : Q \subseteq R => Q = R
  <2>1. T \subseteq SUBSET S /\ T # {}
    OBVIOUS
  <2> HIDE DEF T
  <2> QED
    BY <2>1, LeastSubset
<1>2. R \in SUBSET S /\ IsFiniteSet(R)
  BY FS_Subset
<1> DEFINE sum(s) == SumOf(v, s)
           G == [s \in SUBSET R |-> IF s = {} THEN 0 ELSE v[Pick(s)] + sum(s \ {Pick(s)})]
<1>3. \A Q \in SUBSET R : Q # R => Good(Q)
  BY <1>1, <1>2
<1> DEFINE some(s) == CHOOSE g : Sums(g, v, s)
<1>4. ASSUME NEW Q \in SUBSET R, Q # R
      PROVE  Sums(some(Q), v, Q) /\ sum(Q) = some(Q)[Q] /\ sum(Q) \in Int
  <2>1. PICK g : Sums(g, v, Q) /\ g[Q] \in Int
    BY <1>3, <1>4
  <2>2. Sums(some(Q), v, Q)
    <3> HIDE DEF Sums
    <3> QED
      BY <2>1
  <2>3. sum(Q) = some(Q)[Q]
    BY DEF SumOf
  <2> HIDE DEF some, sum
  <2>4. IsFiniteSet(Q) /\ Q \in SUBSET Q
    BY <1>2, FS_Subset
  <2>5. some(Q)[Q] = g[Q]
    BY <2>1, <2>2, <2>4, SumsAgree
  <2> QED
    BY <2>1, <2>2, <2>3, <2>5
<1>5. ASSUME NEW s \in SUBSET R, s # R
      PROVE  G[s] = sum(s)
  <2>1. Sums(some(s), v, s) /\ sum(s) = some(s)[s] /\ s \in SUBSET s
    BY <1>4, <1>5
  <2>2. CASE s = {}
    <3>1. some(s)[s] = 0
      <4> HIDE DEF some
      <4> QED
        BY <2>1, <2>2 DEF Sums
    <3> HIDE DEF some, sum
    <3> QED
      BY <2>1, <2>2, <3>1
  <2>3. CASE s # {}
    <3> DEFINE q == s \ {Pick(s)}
    <3>1. q \in SUBSET s /\ q # s /\ q \in SUBSET R /\ q # R /\ q \in SUBSET q
      BY <2>3, Picked
    <3>2. Sums(some(q), v, q) /\ sum(q) = some(q)[q]
      BY <1>4, <3>1
    <3>3. IsFiniteSet(s)
      BY <1>2, FS_Subset
    <3> HIDE DEF some, sum, q
    <3>4. some(s)[q] = some(q)[q]
      BY <2>1, <3>1, <3>2, <3>3, SumsAgree
    <3>5. some(s)[s] = v[Pick(s)] + some(s)[q]
      BY <2>1, <2>3 DEF Sums, q
    <3>6. G[s] = v[Pick(s)] + sum(q)
      BY <2>3 DEF q
    <3> QED
      BY <2>1, <3>2, <3>4, <3>5, <3>6
  <2> QED
    BY <2>2, <2>3
<1>6. Sums(G, v, R)
  <2>1. ASSUME NEW s \in SUBSET R, s # {}
        PROVE  G[s \ {Pick(s)}] = sum(s \ {Pick(s)})
    <3>1. s \ {Pick(s)} \in SUBSET R /\ s \ {Pick(s)} # R
      BY <2>1, Picked
    <3> QED
      BY <1>5, <3>1
  <2> HIDE DEF sum
  <2> QED
    BY <2>1 DEF Sums
<1>7. G[R] \in Int
  <2>1. CASE R = {}
    BY <2>1
  <2>2. CASE R # {}
    <3>1. R \ {Pick(R)} \in SUBSET R /\ R \ {Pick(R)} # R /\ Pick(R) \in S
      BY <1>2, <2>2, Picked
    <3>2. sum(R \ {Pick(R)}) \in Int /\ v[Pick(R)] \in Int
      BY <1>4, <3>1
    <3> HIDE DEF sum
    <3> QED
      BY <2>2, <3>2
  <2> QED
    BY <2>1, <2>2
<1> HIDE DEF G
<1> QED
  BY <1>1, <1>6, <1>7

\* Whatever a fold over the set computes in this way is its sum.
LEMMA SumIs ==
  ASSUME NEW S, IsFiniteSet(S), NEW v, NEW g, Sums(g, v, S)
  PROVE  g[S] = SumOf(v, S)
<1> DEFINE h == CHOOSE f : Sums(f, v, S)
<1>1. Sums(h, v, S)
  <2> HIDE DEF Sums
  <2> QED
    OBVIOUS
<1> HIDE DEF h
<1>2. g[S] = h[S]
  BY <1>1, SumsAgree
<1> QED
  BY <1>2 DEF SumOf, h

\* The sum of a set, by the element that the fold takes next.
LEMMA SumStep ==
  ASSUME NEW S, IsFiniteSet(S), NEW v, \A x \in S : v[x] \in Int
  PROVE  /\ SumOf(v, S) \in Int
         /\ S = {} => SumOf(v, S) = 0
         /\ S # {} => SumOf(v, S) = v[Pick(S)] + SumOf(v, S \ {Pick(S)})
<1>1. PICK g : Sums(g, v, S) /\ g[S] \in Int
  BY SumsExist
<1>2. g[S] = SumOf(v, S)
  BY <1>1, SumIs
<1>3. CASE S = {}
  BY <1>1, <1>2, <1>3 DEF Sums
<1>4. CASE S # {}
  <2> DEFINE R == S \ {Pick(S)}
  <2>1. R \in SUBSET S /\ R \in SUBSET R /\ IsFiniteSet(R)
    BY FS_Subset
  <2>2. PICK h : Sums(h, v, R)
    BY <2>1, SumsExist
  <2> HIDE DEF R
  <2>3. h[R] = SumOf(v, R)
    BY <2>1, <2>2, SumIs
  <2>4. g[R] = h[R]
    BY <1>1, <2>1, <2>2, SumsAgree
  <2>5. g[S] = v[Pick(S)] + g[R]
    BY <1>1, <1>4 DEF Sums, R
  <2> QED
    BY <1>1, <1>2, <1>4, <2>3, <2>4, <2>5 DEF R
<1> QED
  BY <1>3, <1>4

\* A sum does not depend on which element is taken first.
LEMMA SumWithout ==
  ASSUME NEW S, IsFiniteSet(S), NEW v, \A x \in S : v[x] \in Int
  PROVE  \A R \in SUBSET S : \A x \in R : SumOf(v, R) = v[x] + SumOf(v, R \ {x})
<1> DEFINE Fine(R) == \A x \in R : SumOf(v, R) = v[x] + SumOf(v, R \ {x})
           T == {R \in SUBSET S : ~Fine(R)}
<1> SUFFICES ASSUME T # {} PROVE FALSE
  OBVIOUS
<1>1. PICK R \in T : \A Q \in T : Q \subseteq R => Q = R
  <2>1. T \subseteq SUBSET S /\ T # {}
    OBVIOUS
  <2> HIDE DEF T
  <2> QED
    BY <2>1, LeastSubset
<1>2. PICK x \in R : SumOf(v, R) # v[x] + SumOf(v, R \ {x})
  OBVIOUS
<1>3. \A Q \in SUBSET S : Q \subseteq R /\ Q # R => Fine(Q)
  BY <1>1
<1> DEFINE c == Pick(R)
<1>4. R \in SUBSET S /\ x \in S /\ c \in R /\ c \in S
  BY <1>2 DEF Pick
<1>5. \A Q \in SUBSET S : /\ SumOf(v, Q) \in Int
                          /\ Q # {} => SumOf(v, Q) = v[Pick(Q)] + SumOf(v, Q \ {Pick(Q)})
  <2>1. ASSUME NEW Q \in SUBSET S
        PROVE  /\ SumOf(v, Q) \in Int
               /\ Q # {} => SumOf(v, Q) = v[Pick(Q)] + SumOf(v, Q \ {Pick(Q)})
    <3>1. IsFiniteSet(Q) /\ \A y \in Q : v[y] \in Int
      BY FS_Subset
    <3> QED
      BY <3>1, SumStep
  <2> QED
    BY <2>1
<1>6. SumOf(v, R) = v[c] + SumOf(v, R \ {c})
  BY <1>2, <1>4, <1>5
<1> HIDE DEF c, T
<1>7. x # c
  BY <1>2, <1>6
<1>8. SumOf(v, R \ {c}) = v[x] + SumOf(v, (R \ {c}) \ {x})
  BY <1>3, <1>4, <1>7, R \ {c} \in SUBSET S, R \ {c} # R, x \in R \ {c}
<1>9. SumOf(v, R \ {x}) = v[c] + SumOf(v, (R \ {x}) \ {c})
  BY <1>3, <1>4, <1>7, R \ {x} \in SUBSET S, R \ {x} # R, c \in R \ {x}
<1>10. (R \ {c}) \ {x} = (R \ {x}) \ {c}
  OBVIOUS
<1>11. v[x] \in Int /\ v[c] \in Int /\ SumOf(v, (R \ {x}) \ {c}) \in Int
  BY <1>4, <1>5
<1> DEFINE rest == SumOf(v, (R \ {x}) \ {c})
<1>12. SumOf(v, R) = v[c] + (v[x] + rest)
  BY <1>6, <1>8, <1>10
<1>13. SumOf(v, R \ {x}) = v[c] + rest
  BY <1>9
<1> HIDE DEF rest
<1>14. v[c] + (v[x] + rest) = v[x] + (v[c] + rest)
  BY <1>11 DEF rest
<1> QED
  BY <1>2, <1>12, <1>13, <1>14

\* A sum over rows is the sum over what stands in them, if no two rows have the same and
\* the rows with nothing to add count for nothing.
LEMMA SumsCorrespond ==
  ASSUME NEW I, IsFiniteSet(I), NEW v, \A i \in I : v[i] \in Int,
         NEW K, IsFiniteSet(K), NEW w, \A k \in K : w[k] \in Int,
         NEW f, \A i, j \in I : f[i] = f[j] => i = j,
         \A i \in I : v[i] = IF f[i] \in K THEN w[f[i]] ELSE 0,
         \A k \in K : \E i \in I : f[i] = k
  PROVE  SumOf(v, I) = SumOf(w, K)
<1> DEFINE Of(R) == {k \in K : \E i \in R : f[i] = k}
           T == {R \in SUBSET I : SumOf(v, R) # SumOf(w, Of(R))}
<1>1. T = {}
  <2> SUFFICES ASSUME T # {} PROVE FALSE
    OBVIOUS
  <2>1. PICK R \in T : \A Q \in T : Q \subseteq R => Q = R
    <3>1. T \subseteq SUBSET I /\ T # {}
      OBVIOUS
    <3> HIDE DEF T
    <3> QED
      BY <3>1, LeastSubset
  <2>2. R \in SUBSET I /\ SumOf(v, R) # SumOf(w, Of(R))
    OBVIOUS
  <2>3. IsFiniteSet(R) /\ IsFiniteSet(Of(R))
    BY <2>2, FS_Subset
  <2>4. \A i \in R : v[i] \in Int
    OBVIOUS
  <2>5. \A k \in Of(R) : w[k] \in Int
    OBVIOUS
  <2>6. CASE R = {}
    <3>1. Of(R) = {}
      BY <2>6
    <3> HIDE DEF Of
    <3> QED
      BY <2>2, <2>3, <2>6, <3>1, SumStep
  <2>7. CASE R # {}
    <3>1. PICK i : i \in R
      BY <2>7
    <3> DEFINE Q == R \ {i}
    <3>2. SumOf(v, Q) = SumOf(w, Of(Q))
      <4>1. Q \in SUBSET I /\ Q \subseteq R /\ Q # R
        BY <3>1
      <4> HIDE DEF Of
      <4> QED
        BY <2>1, <4>1
    <3>3. SumOf(v, R) = v[i] + SumOf(v, Q)
      BY <2>3, <2>4, <3>1, SumWithout
    <3>4. CASE f[i] \in K
      <4>1. Of(Q) = Of(R) \ {f[i]} /\ f[i] \in Of(R)
        BY <2>2, <3>1, <3>4
      <4>2. v[i] = w[f[i]]
        BY <3>1, <3>4
      <4> HIDE DEF Of
      <4>3. SumOf(w, Of(R)) = w[f[i]] + SumOf(w, Of(R) \ {f[i]})
        <5>1. Of(R) \in SUBSET Of(R)
          OBVIOUS
        <5> QED
          BY <2>3, <2>5, <4>1, <5>1, SumWithout
      <4> QED
        BY <2>2, <3>2, <3>3, <4>1, <4>2, <4>3
    <3>5. CASE f[i] \notin K
      <4>1. Of(Q) = Of(R)
        BY <3>1, <3>5
      <4>2. v[i] = 0
        BY <3>1, <3>5
      <4> HIDE DEF Of
      <4>3. SumOf(w, Of(R)) \in Int
        BY <2>3, <2>5, SumStep
      <4> QED
        BY <2>2, <3>2, <3>3, <4>1, <4>2, <4>3
    <3> QED
      BY <3>4, <3>5
  <2> QED
    BY <2>6, <2>7
<1>2. Of(I) = K
  OBVIOUS
<1> HIDE DEF Of
<1> QED
  BY <1>1, <1>2

\* A sum without one of its terms.
LEMMA SumMinus ==
  ASSUME NEW S, IsFiniteSet(S), NEW v, \A y \in S : v[y] \in Int, NEW x \in S
  PROVE  /\ SumOf(v, S) = v[x] + SumOf(v, S \ {x})
         /\ SumOf(v, S \ {x}) \in Int /\ IsFiniteSet(S \ {x})
<1>1. SumOf(v, S) = v[x] + SumOf(v, S \ {x})
  BY SumWithout, S \in SUBSET S
<1>2. IsFiniteSet(S \ {x})
  BY FS_RemoveElement
<1>3. \A y \in S \ {x} : v[y] \in Int
  OBVIOUS
<1>4. SumOf(v, S \ {x}) \in Int
  BY <1>2, <1>3, SumStep
<1> QED
  BY <1>1, <1>2, <1>4

\* It is as long as they are together.
LEMMA FlattenedLength ==
  ASSUME NEW n \in Nat, NEW seqs, IsList(seqs, n), NEW X, \A i \in 1..n : seqs[i] \in Seq(X)
  PROVE  Len(FlattenSeq(seqs)) = SumOf([i \in 1..n |-> Len(seqs[i])], 1..n)
<1> DEFINE v == [i \in 1..n |-> Len(seqs[i])]
<1>1. PICK g \in [0..n -> Seq(X)] :
        /\ g[0] = <<>> /\ \A i \in 1..n : g[i] = g[i - 1] \o seqs[i]
        /\ g[n] = FlattenSeq(seqs)
  BY Flattening
<1>2. \A i \in 1..n : v[i] = Len(seqs[i]) /\ v[i] \in Int
  OBVIOUS
<1> HIDE DEF v
<1> DEFINE T == {k \in Nat : k \in 0..n => Len(g[k]) = SumOf(v, 1..k)}
<1>3. 0 \in T
  <2>1. IsFiniteSet({}) /\ 1..0 = {}
    BY FS_EmptySet
  <2>2. SumOf(v, {}) = 0
    BY <2>1, SumStep
  <2>3. Len(g[0]) = 0
    BY <1>1
  <2> QED
    BY <2>1, <2>2, <2>3
<1>4. ASSUME NEW k \in Nat, k \in T PROVE k + 1 \in T
  <2> SUFFICES ASSUME k + 1 \in 0..n PROVE Len(g[k + 1]) = SumOf(v, 1..(k + 1))
    OBVIOUS
  <2>1. k \in 0..n /\ k + 1 \in 1..n /\ (k + 1) - 1 = k
    OBVIOUS
  <2>2. Len(g[k]) = SumOf(v, 1..k)
    BY <1>4, <2>1
  <2>3. g[k] \in Seq(X) /\ seqs[k + 1] \in Seq(X) /\ g[k + 1] = g[k] \o seqs[k + 1]
    BY <1>1, <2>1
  <2>4. Len(g[k + 1]) = Len(g[k]) + Len(seqs[k + 1])
    BY <2>3
  <2> DEFINE S == 1..(k + 1)
  <2>5. IsFiniteSet(S) /\ k + 1 \in S /\ \A x \in S : v[x] \in Int
    <3>1. \A x \in S : x \in 1..n
      OBVIOUS
    <3>2. k + 1 \in S
      OBVIOUS
    <3>3. IsFiniteSet(S)
      <4>1. k + 1 \in Int /\ 1 \in Int
        OBVIOUS
      <4> QED
        BY <4>1, FS_Interval
    <3> HIDE DEF S
    <3> QED
      BY <1>2, <3>1, <3>2, <3>3
  <2>8. S \ {k + 1} = 1..k
    OBVIOUS
  <2> HIDE DEF S, T
  <2>6. SumOf(v, S) = v[k + 1] + SumOf(v, S \ {k + 1})
    BY <2>5, SumMinus
  <2>7. Len(g[k]) \in Int /\ Len(seqs[k + 1]) \in Int
    BY <2>3
  <2> QED
    <3>1. v[k + 1] = Len(seqs[k + 1])
      BY <1>2, <2>1
    <3>2. SumOf(v, S) = Len(seqs[k + 1]) + Len(g[k])
      BY <2>2, <2>6, <2>8, <3>1
    <3>3. Len(seqs[k + 1]) + Len(g[k]) = Len(g[k]) + Len(seqs[k + 1])
      <4> DEFINE a == Len(g[k])
                 b == Len(seqs[k + 1])
      <4>1. a \in Int /\ b \in Int
        BY <2>7
      <4> HIDE DEF a, b
      <4>2. b + a = a + b
        BY <4>1
      <4> QED
        BY <4>2 DEF a, b
    <3>4. Len(g[k + 1]) = SumOf(v, S)
      BY <2>4, <3>2, <3>3, Zenon
    <3> QED
      BY <3>4 DEF S
<1> HIDE DEF T
<1>5. Nat \subseteq T
  BY <1>3, <1>4, SetInduction
<1>6. n \in T /\ n \in 0..n
  BY <1>5
<1> QED
  BY <1>1, <1>6 DEF T, v

\* A sum depends on the values over the set.
LEMMA SumsAlike ==
  ASSUME NEW S, IsFiniteSet(S), NEW v, NEW w, \A x \in S : v[x] \in Int /\ w[x] = v[x]
  PROVE  SumOf(v, S) = SumOf(w, S)
<1> DEFINE f == [x \in S |-> x]
<1>1. \A x, y \in S : f[x] = f[y] => x = y
  OBVIOUS
<1>2. \A x \in S : v[x] = IF f[x] \in S THEN w[f[x]] ELSE 0
  OBVIOUS
<1>3. \A y \in S : \E x \in S : f[x] = y
  OBVIOUS
<1>4. \A x \in S : v[x] \in Int /\ w[x] \in Int
  OBVIOUS
<1> HIDE DEF f
<1> QED
  BY <1>1, <1>2, <1>3, <1>4, SumsCorrespond

\* Nothing adds up to nothing.
LEMMA SumOfZeros ==
  ASSUME NEW S, IsFiniteSet(S), NEW v, \A x \in S : v[x] = 0
  PROVE  SumOf(v, S) = 0
<1> DEFINE T == {R \in SUBSET S : SumOf(v, R) # 0}
<1> SUFFICES ASSUME T # {} PROVE FALSE
  OBVIOUS
<1>1. PICK R \in T : \A Q \in T : Q \subseteq R => Q = R
  <2>1. T \subseteq SUBSET S /\ T # {}
    OBVIOUS
  <2> HIDE DEF T
  <2> QED
    BY <2>1, LeastSubset
<1>2. IsFiniteSet(R) /\ \A x \in R : v[x] \in Int
  BY FS_Subset
<1>3. R # {}
  BY <1>2, SumStep
<1>4. PICK x : x \in R
  BY <1>3
<1>5. SumOf(v, R) = v[x] + SumOf(v, R \ {x})
  BY <1>2, <1>4, SumMinus
<1>6. SumOf(v, R \ {x}) = 0
  BY <1>1, <1>4, R \ {x} \in SUBSET S, R \ {x} # R
<1>7. v[x] = 0
  BY <1>4
<1> QED
  BY <1>1, <1>5, <1>6, <1>7

\* What is not negative adds up to what is not negative.
LEMMA SumNotNegative ==
  ASSUME NEW S, IsFiniteSet(S), NEW v, \A x \in S : v[x] \in Nat
  PROVE  SumOf(v, S) \in Nat
<1> DEFINE T == {R \in SUBSET S : SumOf(v, R) \notin Nat}
<1> SUFFICES ASSUME T # {} PROVE FALSE
  OBVIOUS
<1>1. PICK R \in T : \A Q \in T : Q \subseteq R => Q = R
  <2>1. T \subseteq SUBSET S /\ T # {}
    OBVIOUS
  <2> HIDE DEF T
  <2> QED
    BY <2>1, LeastSubset
<1>2. IsFiniteSet(R) /\ \A x \in R : v[x] \in Int
  BY FS_Subset
<1>3. R # {}
  <2>1. R = {} => SumOf(v, R) = 0
    BY <1>2, SumStep
  <2>2. SumOf(v, R) \notin Nat
    OBVIOUS
  <2> QED
    BY <2>1, <2>2
<1>4. PICK x : x \in R
  BY <1>3
<1>5. SumOf(v, R) = v[x] + SumOf(v, R \ {x})
  BY <1>2, <1>4, SumMinus
<1>6. SumOf(v, R \ {x}) \in Nat
  BY <1>1, <1>4, R \ {x} \in SUBSET S, R \ {x} # R
<1>7. v[x] \in Nat
  BY <1>4
<1> QED
  BY <1>1, <1>5, <1>6, <1>7

\* To count is to add up ones.
LEMMA CountIsSum ==
  ASSUME NEW S, IsFiniteSet(S), NEW v, \A x \in S : v[x] = 1
  PROVE  Cardinality(S) = SumOf(v, S)
<1> DEFINE T == {R \in SUBSET S : Cardinality(R) # SumOf(v, R)}
<1> SUFFICES ASSUME T # {} PROVE FALSE
  OBVIOUS
<1>1. PICK R \in T : \A Q \in T : Q \subseteq R => Q = R
  <2>1. T \subseteq SUBSET S /\ T # {}
    OBVIOUS
  <2> HIDE DEF T
  <2> QED
    BY <2>1, LeastSubset
<1>2. IsFiniteSet(R) /\ \A x \in R : v[x] \in Int
  BY FS_Subset
<1>3. R # {}
  <2>1. Cardinality({}) = 0 /\ IsFiniteSet({})
    BY FS_EmptySet
  <2> QED
    BY <1>2, <2>1, SumStep
<1>4. PICK x : x \in R
  BY <1>3
<1>5. SumOf(v, R) = v[x] + SumOf(v, R \ {x})
  BY <1>2, <1>4, SumMinus
<1>6. SumOf(v, R \ {x}) = Cardinality(R \ {x})
  BY <1>1, <1>4, R \ {x} \in SUBSET S, R \ {x} # R
<1>7. v[x] = 1
  BY <1>4
<1>8. Cardinality(R \ {x}) = Cardinality(R) - 1 /\ Cardinality(R) \in Nat
  BY <1>2, <1>4, FS_RemoveElement, FS_CardinalityType
<1> QED
  BY <1>1, <1>5, <1>6, <1>7, <1>8

\* The sum over a set is the sum of the sums over its parts.
LEMMA SumOfParts ==
  ASSUME NEW S, IsFiniteSet(S), NEW v, \A x \in S : v[x] \in Int,
         NEW J, IsFiniteSet(J), NEW p, \A x \in S : p[x] \in J
  PROVE  SumOf(v, S) = SumOf([j \in J |-> SumOf(v, {x \in S : p[x] = j})], J)
<1> DEFINE Part(R, j) == {x \in R : p[x] = j}
           w(R) == [j \in J |-> SumOf(v, Part(R, j))]
           T == {R \in SUBSET S : SumOf(v, R) # SumOf(w(R), J)}
<1> SUFFICES ASSUME T # {} PROVE FALSE
  <2>1. S \in SUBSET S
    OBVIOUS
  <2> QED
    BY <2>1
<1>1. PICK R \in T : \A Q \in T : Q \subseteq R => Q = R
  <2>1. T \subseteq SUBSET S /\ T # {}
    OBVIOUS
  <2> HIDE DEF T
  <2> QED
    BY <2>1, LeastSubset
<1>2. R \in SUBSET S /\ SumOf(v, R) # SumOf(w(R), J)
  OBVIOUS
<1>3. \A Q \in SUBSET S : Q \subseteq R /\ Q # R => SumOf(v, Q) = SumOf(w(Q), J)
  BY <1>1
<1> HIDE DEF T
<1>4. IsFiniteSet(R) /\ \A x \in R : v[x] \in Int
  BY <1>2, FS_Subset
<1>5. ASSUME NEW Q \in SUBSET R, NEW j \in J
      PROVE  /\ IsFiniteSet(Part(Q, j)) /\ \A x \in Part(Q, j) : v[x] \in Int
             /\ SumOf(v, Part(Q, j)) \in Int
             /\ w(Q)[j] = SumOf(v, Part(Q, j)) /\ w(Q)[j] \in Int
  <2>1. IsFiniteSet(Part(Q, j)) /\ \A x \in Part(Q, j) : v[x] \in Int
    BY <1>4, FS_Subset
  <2> HIDE DEF Part
  <2> QED
    BY <2>1, SumStep
<1>6. R # {}
  <2> SUFFICES ASSUME R = {} PROVE FALSE
    OBVIOUS
  <2>1. SumOf(v, R) = 0
    BY <1>4, SumStep
  <2>2. ASSUME NEW j \in J PROVE w(R)[j] = 0
    <3>1. Part(R, j) = {}
      OBVIOUS
    <3> HIDE DEF Part
    <3> QED
      BY <1>5, <3>1, SumStep
  <2> HIDE DEF w
  <2>3. SumOf(w(R), J) = 0
    BY <2>2, SumOfZeros
  <2> QED
    BY <1>2, <2>1, <2>3
<1>7. PICK x : x \in R
  BY <1>6
<1> DEFINE Q == R \ {x}
           k == p[x]
<1>8. k \in J /\ v[x] \in Int /\ Q \in SUBSET R /\ Q \in SUBSET S /\ Q # R /\ R \in SUBSET R
  BY <1>2, <1>4, <1>7
<1>9. SumOf(v, Q) = SumOf(w(Q), J)
  <2> HIDE DEF Q, w
  <2> QED
    BY <1>3, <1>8
<1>10. SumOf(v, R) = v[x] + SumOf(v, Q)
  BY <1>4, <1>7, SumMinus
<1>11. ASSUME NEW j \in J, j # k PROVE w(R)[j] = w(Q)[j]
  <2>1. Part(R, j) = Part(Q, j)
    BY <1>11
  <2> QED
    BY <2>1
<1>12. w(R)[k] = v[x] + w(Q)[k]
  <2>1. x \in Part(R, k) /\ Part(Q, k) = Part(R, k) \ {x}
    BY <1>7
  <2>2. IsFiniteSet(Part(R, k)) /\ \A y \in Part(R, k) : v[y] \in Int
    BY <1>5, <1>8
  <2>3. w(R)[k] = SumOf(v, Part(R, k)) /\ w(Q)[k] = SumOf(v, Part(Q, k))
    BY <1>8
  <2> HIDE DEF Part, w, Q, k
  <2>4. SumOf(v, Part(R, k)) = v[x] + SumOf(v, Part(R, k) \ {x})
    BY <2>1, <2>2, SumMinus
  <2> QED
    BY <2>1, <2>3, <2>4
<1>13. \A j \in J : w(R)[j] \in Int /\ w(Q)[j] \in Int
  BY <1>5, <1>8
<1> DEFINE a == w(R)
           b == w(Q)
<1> HIDE DEF Part, w, Q, k
<1> DEFINE rest == SumOf(b, J \ {k})
<1>14. /\ SumOf(a, J) = a[k] + SumOf(a, J \ {k})
       /\ SumOf(b, J) = b[k] + rest
       /\ rest \in Int /\ IsFiniteSet(J \ {k})
  <2> HIDE DEF a, b
  <2> QED
    BY <1>8, <1>13, SumMinus DEF a, b
<1>15. SumOf(a, J \ {k}) = rest
  <2>1. \A j \in J \ {k} : a[j] \in Int /\ b[j] = a[j]
    BY <1>11, <1>13
  <2> HIDE DEF a, b
  <2> QED
    BY <1>14, <2>1, SumsAlike
<1>16. b[k] \in Int /\ a[k] = v[x] + b[k]
  BY <1>8, <1>12, <1>13
<1>17. SumOf(v, R) = v[x] + (b[k] + rest) /\ SumOf(a, J) = (v[x] + b[k]) + rest
  BY <1>9, <1>10, <1>14, <1>15, <1>16
<1> HIDE DEF a, b, rest
<1>18. v[x] + (b[k] + rest) = (v[x] + b[k]) + rest
  BY <1>8, <1>14, <1>16
<1> QED
  BY <1>2, <1>17, <1>18 DEF a

\* The sums of numbers are there, and are what SumOf is.
LEMMA SumsFound ==
  ASSUME NEW S, IsFiniteSet(S), NEW v, \A x \in S : v[x] \in Int
  PROVE  (\E h : Sums(h, v, S)) /\ \A h : Sums(h, v, S) => h[S] = SumOf(v, S)
<1>1. \E h : Sums(h, v, S)
  BY SumsExist, S \in SUBSET S
<1>2. \A h : Sums(h, v, S) => h[S] = SumOf(v, S)
  BY SumIs
<1> QED
  BY <1>1, <1>2

-----------------------------------------------------------------------------
\* A table that a fold fills, entry by entry.
Tables(g, v, S) ==
  g = [s \in SUBSET S |-> IF s = {} THEN [x \in S |-> {}]
                          ELSE [g[s \ {Pick(s)}] EXCEPT ![Pick(s)] = v[Pick(s)]]]

\* Filling the entries of a table one by one gives every entry its value.
LEMMA Tabulated ==
  ASSUME NEW S, IsFiniteSet(S), NEW v, NEW g, Tables(g, v, S)
  PROVE  g[S] = [x \in S |-> v[x]]
<1> DEFINE table(s) == [x \in S |-> IF x \in s THEN v[x] ELSE {}]
           T == {s \in SUBSET S : g[s] # table(s)}
<1>1. T = {}
  <2> SUFFICES ASSUME T # {} PROVE FALSE
    OBVIOUS
  <2>1. PICK s \in T : \A q \in T : q \subseteq s => q = s
    <3>1. T \subseteq SUBSET S /\ T # {}
      OBVIOUS
    <3> HIDE DEF T
    <3> QED
      BY <3>1, LeastSubset
  <2>2. s \in SUBSET S /\ g[s] # table(s)
    OBVIOUS
  <2>3. CASE s = {}
    BY <2>2, <2>3 DEF Tables
  <2>4. CASE s # {}
    <3> DEFINE p == Pick(s)
               q == s \ {p}
    <3>1. q \in SUBSET S /\ q \subseteq s /\ q # s /\ p \in s
      BY <2>2, <2>4, Picked
    <3>2. g[q] = table(q)
      BY <2>1, <3>1
    <3>3. g[s] = [g[q] EXCEPT ![p] = v[p]]
      BY <2>2, <2>4 DEF Tables
    <3> HIDE DEF p, T
    <3>4. [table(q) EXCEPT ![p] = v[p]] = table(s)
      BY <3>1
    <3> QED
      BY <2>2, <3>2, <3>3, <3>4
  <2> QED
    BY <2>3, <2>4
<1>2. g[S] = table(S)
  BY <1>1
<1> QED
  BY <1>2

\* There is such a filling.
LEMMA TableExists ==
  ASSUME NEW S, NEW v
  PROVE  \E g : Tables(g, v, S)
<1> DEFINE table(s) == [x \in S |-> IF x \in s THEN v[x] ELSE {}]
           g == [s \in SUBSET S |-> table(s)]
<1>1. ASSUME NEW s \in SUBSET S, s # {}
      PROVE  g[s] = [g[s \ {Pick(s)}] EXCEPT ![Pick(s)] = v[Pick(s)]]
  <2> DEFINE p == Pick(s)
             q == s \ {p}
  <2>1. q \in SUBSET S /\ p \in s
    BY <1>1, Picked
  <2> HIDE DEF p
  <2>2. g[q] = table(q) /\ g[s] = table(s)
    BY <2>1
  <2>3. [table(q) EXCEPT ![p] = v[p]] = table(s)
    BY <2>1
  <2> QED
    BY <2>2, <2>3 DEF p
<1>2. g[{}] = [x \in S |-> {}]
  OBVIOUS
<1>3. Tables(g, v, S)
  BY <1>1, <1>2 DEF Tables
<1> HIDE DEF g
<1> QED
  BY <1>3

\* There are finitely many runs.
LEMMA CasesFinite == IsFiniteSet(Cases)
<1>1. IsFiniteSet(DOMAIN Configs)
  BY ConfigsAssumption
<1>2. IsFiniteSet(Day)
  <2> DEFINE months == {Month[m] : m \in DOMAIN Month}
             f == [m \in DOMAIN Month |-> Month[m]]
  <2>1. PICK n \in Nat : DOMAIN Month = 1..n
    BY MonthAssumption
  <2>2. IsFiniteSet(DOMAIN Month)
    BY <2>1, FS_Interval
  <2>3. f \in Surjection(DOMAIN Month, months)
    BY DEF Surjection
  <2> HIDE DEF f
  <2>4. IsFiniteSet(months)
    BY <2>2, <2>3, FS_Surjection
  <2>5. \A D \in months : IsFiniteSet(D)
    BY MonthAssumption
  <2> HIDE DEF months
  <2>6. IsFiniteSet(UNION months)
    BY <2>4, <2>5, FS_UNION
  <2> QED
    BY <2>6 DEF Day, months
<1> QED
  BY <1>1, <1>2, FS_Product DEF Cases

\* What an assessment makes.
LEMMA AssessmentOf ==
  ASSUME NEW run \in Cases
  PROVE  Assessments[run] = Deliver(Configs[run[1]], Occurrences, Shift(run[2]))
<1> DEFINE v == [x \in Cases |-> Deliver(Configs[x[1]], Occurrences, Shift(x[2]))]
           Folds(g) == g = [s \in SUBSET Cases |-> IF s = {} THEN [x \in Cases |-> {}]
                              ELSE [g[s \ {Pick(s)}] EXCEPT ![Pick(s)] =
                                      Deliver(Configs[Pick(s)[1]], Occurrences,
                                              Shift(Pick(s)[2]))]]
           g == CHOOSE h : Folds(h)
<1>1. Assessments = g[Cases]
  BY DEF Assessments, FoldSet, MapThenFoldSet, Pick
<1>2. \A s \in SUBSET Cases : s # {} =>
        v[Pick(s)] = Deliver(Configs[Pick(s)[1]], Occurrences, Shift(Pick(s)[2]))
  BY Picked
<1>3. \A h : Folds(h) <=> Tables(h, v, Cases)
  <2> HIDE DEF v
  <2> QED
    BY <1>2 DEF Tables
<1>4. Tables(g, v, Cases)
  <2>1. \E h : Tables(h, v, Cases)
    <3> HIDE DEF v
    <3> QED
      BY TableExists
  <2> HIDE DEF Folds
  <2> QED
    BY <1>3, <2>1
<1>5. g[Cases] = [x \in Cases |-> v[x]]
  <2> HIDE DEF v, g
  <2> QED
    BY <1>4, CasesFinite, Tabulated
<1> HIDE DEF g
<1> QED
  BY <1>1, <1>5

\* What is read in it.
LEMMA ReadingOf ==
  ASSUME NEW run \in Cases
  PROVE  Readings[run] = Reading(Assessments[run])
<1> DEFINE v == [x \in Cases |-> Reading(Assessments[x])]
           Folds(g) == g = [s \in SUBSET Cases |-> IF s = {} THEN [x \in Cases |-> {}]
                              ELSE [g[s \ {Pick(s)}] EXCEPT ![Pick(s)] =
                                      Reading(Assessments[Pick(s)])]]
           g == CHOOSE h : Folds(h)
<1>1. Readings = g[Cases]
  BY DEF Readings, FoldSet, MapThenFoldSet, Pick
<1>2. \A s \in SUBSET Cases : s # {} => v[Pick(s)] = Reading(Assessments[Pick(s)])
  BY Picked
<1>3. \A h : Folds(h) <=> Tables(h, v, Cases)
  <2> HIDE DEF v
  <2> QED
    BY <1>2 DEF Tables
<1>4. Tables(g, v, Cases)
  <2>1. \E h : Tables(h, v, Cases)
    <3> HIDE DEF v
    <3> QED
      BY TableExists
  <2> HIDE DEF Folds
  <2> QED
    BY <1>3, <2>1
<1>5. g[Cases] = [x \in Cases |-> v[x]]
  <2> HIDE DEF v, g
  <2> QED
    BY <1>4, CasesFinite, Tabulated
<1> HIDE DEF g
<1> QED
  BY <1>1, <1>5

-----------------------------------------------------------------------------
\* The enabled members of a list.
LEMMA EnabledOf ==
  ASSUME NEW X, NEW list \in Seq(X)
  PROVE  /\ Enabled(list) \in Seq(X)
         /\ \A x : x \in Range(Enabled(list)) <=> x \in Range(list) /\ x.enabled
<1> DEFINE n == Len(list)
           seqs == [i \in DOMAIN list |-> IF list[i].enabled THEN <<list[i]>> ELSE <<>>]
<1>1. /\ n \in Nat /\ DOMAIN list = 1..n
      /\ \A i \in 1..n : list[i] \in X
  BY Listing
<1>2. IsList(seqs, n)
  <2> HIDE DEF n
  <2> QED
    BY <1>1 DEF IsList
<1>3. \A i \in 1..n : seqs[i] = IF list[i].enabled THEN <<list[i]>> ELSE <<>>
  BY <1>1
<1>4. Enabled(list) = FlattenSeq(seqs)
  BY DEF Enabled
<1> HIDE DEF seqs, n
<1>5. \A i \in 1..n : seqs[i] \in Seq(X)
  <2>1. ASSUME NEW i \in 1..n PROVE seqs[i] \in Seq(X)
    <3>1. list[i] \in X
      BY <1>1
    <3>2. <<>> \in Seq(X) /\ <<list[i]>> \in Seq(X)
      BY <3>1
    <3> QED
      BY <1>3, <3>2
  <2> QED
    BY <2>1
<1>6. /\ FlattenSeq(seqs) \in Seq(X)
      /\ \A x : x \in Range(FlattenSeq(seqs)) <=> \E i \in 1..n : x \in Range(seqs[i])
  BY <1>1, <1>2, <1>5, Flattened
<1>7. \A x : \A i \in 1..n : x \in Range(seqs[i]) <=> x = list[i] /\ list[i].enabled
  <2>1. ASSUME NEW x, NEW i \in 1..n
        PROVE  x \in Range(seqs[i]) <=> x = list[i] /\ list[i].enabled
    <3>1. Range(<<>>) = {} /\ Range(<<list[i]>>) = {list[i]}
      BY DEF Range
    <3>2. CASE list[i].enabled
      BY <1>3, <3>1, <3>2
    <3>3. CASE ~list[i].enabled
      BY <1>3, <3>1, <3>3
    <3> QED
      BY <3>2, <3>3
  <2> QED
    BY <2>1
<1>8. \A x : x \in Range(list) <=> \E i \in 1..n : x = list[i]
  BY <1>1 DEF Range
<1>9. ASSUME NEW x
      PROVE  x \in Range(Enabled(list)) <=> x \in Range(list) /\ x.enabled
  <2>1. ASSUME x \in Range(Enabled(list)) PROVE x \in Range(list) /\ x.enabled
    <3>1. PICK i \in 1..n : x = list[i] /\ list[i].enabled
      BY <1>4, <1>6, <1>7, <2>1
    <3> QED
      BY <1>8, <3>1
  <2>2. ASSUME x \in Range(list), x.enabled PROVE x \in Range(Enabled(list))
    <3>1. PICK i \in 1..n : x = list[i]
      BY <1>8, <2>2
    <3>2. list[i].enabled
      BY <2>2, <3>1
    <3> QED
      BY <1>4, <1>6, <1>7, <3>1, <3>2
  <2> QED
    BY <2>1, <2>2
<1> QED
  BY <1>6, <1>4, <1>9

\* The rules that are assessed, and the points of each.
RulesOf(c) == LoadEnabled(Configs[c])

\* LoadEnabled: the rules of a configuration are a list of its members.
LEMMA RulesAreListed ==
  ASSUME NEW c \in DOMAIN Configs
  PROVE  /\ Len(RulesOf(c)) \in Nat /\ DOMAIN RulesOf(c) = 1..Len(RulesOf(c))
         /\ RulesOf(c) = [i \in 1..Len(RulesOf(c)) |-> RulesOf(c)[i]]
         /\ \A i \in 1..Len(RulesOf(c)) :
              RulesOf(c)[i] \in Range(RulesOf(c)) /\ RulesOf(c)[i] \in Range(Configs[c])
         /\ \A rule \in Range(RulesOf(c)) : \E i \in 1..Len(RulesOf(c)) : rule = RulesOf(c)[i]
<1>1. Configs[c] \in Seq(Range(Configs[c]))
  BY ConfigsAssumption
<1>2. RulesOf(c) \in Seq(Range(Configs[c]))
  BY <1>1, EnabledOf DEF RulesOf, LoadEnabled
<1>3. /\ Len(RulesOf(c)) \in Nat /\ DOMAIN RulesOf(c) = 1..Len(RulesOf(c))
      /\ RulesOf(c) = [i \in 1..Len(RulesOf(c)) |-> RulesOf(c)[i]]
      /\ Range(RulesOf(c)) \subseteq Range(Configs[c])
  BY <1>2, Listing
<1> QED
  BY <1>3 DEF Range

\* Enabled points: a list of the points of the rule.
LEMMA PointsAreListed ==
  ASSUME NEW c \in DOMAIN Configs, NEW rule \in Range(Configs[c])
  PROVE  /\ Len(Points(rule)) \in Nat /\ DOMAIN Points(rule) = 1..Len(Points(rule))
         /\ Points(rule) = [j \in 1..Len(Points(rule)) |-> Points(rule)[j]]
         /\ \A j \in 1..Len(Points(rule)) :
              Points(rule)[j] \in Range(Points(rule)) /\ Points(rule)[j] \in Range(rule.points)
         /\ \A p \in Range(Points(rule)) :
              p \in Range(rule.points) /\ \E j \in 1..Len(Points(rule)) : p = Points(rule)[j]
<1>1. rule.points \in Seq(Range(rule.points))
  BY ConfigsAssumption
<1>2. Points(rule) \in Seq(Range(rule.points))
  BY <1>1, EnabledOf DEF Points
<1>3. /\ Len(Points(rule)) \in Nat /\ DOMAIN Points(rule) = 1..Len(Points(rule))
      /\ Points(rule) = [j \in 1..Len(Points(rule)) |-> Points(rule)[j]]
      /\ Range(Points(rule)) \subseteq Range(rule.points)
  BY <1>2, Listing
<1> QED
  BY <1>3 DEF Range

\* A list of lists that are made of each other's members.
LEMMA FlattenedLists ==
  ASSUME NEW n \in Nat, NEW seqs, IsList(seqs, n), NEW length,
         \A i \in 1..n : length[i] \in Nat /\ IsList(seqs[i], length[i])
  PROVE  /\ FlattenSeq(seqs) \in Seq(Range(FlattenSeq(seqs)))
         /\ Range(FlattenSeq(seqs))
              = UNION {{seqs[i][j] : j \in 1..length[i]} : i \in 1..n}
<1> DEFINE X == UNION {{seqs[i][j] : j \in 1..length[i]} : i \in 1..n}
<1>1. ASSUME NEW i \in 1..n
      PROVE  seqs[i] \in Seq(X) /\ Range(seqs[i]) = {seqs[i][j] : j \in 1..length[i]}
  <2> DEFINE s == seqs[i]
             k == length[i]
  <2>1. k \in Nat /\ s = [j \in 1..k |-> s[j]]
    BY DEF IsList
  <2>2. \A j \in 1..k : s[j] \in X
    OBVIOUS
  <2> HIDE DEF s, k, X
  <2>3. s \in [1..k -> X]
    BY <2>1, <2>2
  <2>4. s \in Seq(X) /\ DOMAIN s = 1..k
    BY <2>1, <2>3
  <2>5. Range(s) = {s[j] : j \in 1..k}
    BY <2>4 DEF Range
  <2> QED
    BY <2>4, <2>5 DEF s, k
<1>2. ASSUME NEW x
      PROVE  x \in X <=> \E i \in 1..n : x \in Range(seqs[i])
  <2>1. x \in X <=> \E i \in 1..n : x \in {seqs[i][j] : j \in 1..length[i]}
    OBVIOUS
  <2> QED
    BY <1>1, <2>1
<1> HIDE DEF X
<1>3. /\ FlattenSeq(seqs) \in Seq(X)
      /\ \A x : x \in Range(FlattenSeq(seqs)) <=> \E i \in 1..n : x \in Range(seqs[i])
  BY <1>1, Flattened
<1>4. Range(FlattenSeq(seqs)) = X
  BY <1>2, <1>3
<1> QED
  BY <1>3, <1>4 DEF X

\* The item of a point.
ItemOf(rule, p) ==
  [key |-> <<rule.id, p.id>>, audience |-> p.audience,
   effective |-> p.effective, inactive |-> p.inactive]

\* The items of a configuration are those of the points that it has assessed.
LEMMA ItemsOfPoints ==
  ASSUME NEW c \in DOMAIN Configs
  PROVE  LET items == Items(Configs[c])
             rules == RulesOf(c)
         IN  /\ items \in Seq(Range(items))
             /\ \A x : x \in Range(items) <=>
                  \E i \in DOMAIN rules : \E j \in DOMAIN Points(rules[i]) :
                    x = ItemOf(rules[i], Points(rules[i])[j])
<1> DEFINE rules == RulesOf(c)
           n == Len(rules)
           points(i) == Points(rules[i])
           seqs == [i \in DOMAIN rules |->
                      [j \in DOMAIN points(i) |-> ItemOf(rules[i], points(i)[j])]]
           length == [i \in 1..n |-> Len(points(i))]
           items == Items(Configs[c])
<1>1. n \in Nat /\ DOMAIN rules = 1..n
      /\ \A i \in 1..n : rules[i] \in Range(Configs[c])
  BY RulesAreListed
<1>2. \A i \in 1..n : /\ length[i] \in Nat /\ DOMAIN points(i) = 1..length[i]
                       /\ length[i] = Len(points(i))
  BY <1>1, PointsAreListed
<1>3. items = FlattenSeq(seqs)
  BY DEF Items, ItemOf, RulesOf
<1>4. \A i \in 1..n : /\ IsList(seqs[i], length[i])
                       /\ \A j \in 1..length[i] : seqs[i][j] = ItemOf(rules[i], points(i)[j])
  <2>1. ASSUME NEW i \in 1..n
        PROVE  /\ IsList(seqs[i], length[i])
               /\ \A j \in 1..length[i] : seqs[i][j] = ItemOf(rules[i], points(i)[j])
    <3>1. seqs[i] = [j \in 1..length[i] |-> ItemOf(rules[i], points(i)[j])]
      BY <1>1, <1>2
    <3> HIDE DEF seqs, length, n, points, rules
    <3> QED
      BY <3>1 DEF IsList
  <2> QED
    BY <2>1
<1>5. IsList(seqs, n)
  <2> HIDE DEF n, rules
  <2> QED
    BY <1>1 DEF IsList
<1> HIDE DEF seqs, n, length, rules, points, items
<1>6. /\ items \in Seq(Range(items))
      /\ Range(items) = UNION {{seqs[i][j] : j \in 1..length[i]} : i \in 1..n}
  <2>1. n \in Nat /\ \A i \in 1..n : length[i] \in Nat /\ IsList(seqs[i], length[i])
    BY <1>1, <1>2, <1>4
  <2> DEFINE all == FlattenSeq(seqs)
             parts == UNION {{seqs[i][j] : j \in 1..length[i]} : i \in 1..n}
  <2>2. all \in Seq(Range(all)) /\ Range(all) = parts
    BY <1>5, <2>1, FlattenedLists
  <2>3. items = all
    BY <1>3
  <2> HIDE DEF all, parts
  <2>4. items \in Seq(Range(items)) /\ Range(items) = parts
    BY <2>2, <2>3
  <2> QED
    BY <2>4 DEF parts
<1>7. ASSUME NEW x
      PROVE  x \in Range(items) <=>
               \E i \in DOMAIN rules : \E j \in DOMAIN points(i) : x = ItemOf(rules[i], points(i)[j])
  <2>1. x \in Range(items) <=> \E i \in 1..n : x \in {seqs[i][j] : j \in 1..length[i]}
    BY <1>6
  <2>2. \A i \in 1..n : x \in {seqs[i][j] : j \in 1..length[i]}
                          <=> \E j \in DOMAIN points(i) : x = ItemOf(rules[i], points(i)[j])
    BY <1>2, <1>4
  <2> QED
    BY <1>1, <2>1, <2>2
<1> QED
  BY <1>6, <1>7 DEF items, rules, points

\* The items of a configuration are a list, with keys and dates.
LEMMA ItemsAreListed ==
  ASSUME NEW c \in DOMAIN Configs
  PROVE  LET items == Items(Configs[c])
         IN  /\ Len(items) \in Nat /\ DOMAIN items = 1..Len(items)
             /\ items \in Seq(Range(items))
             /\ \A item \in Range(items) :
                  /\ item \in AllItems /\ item.key \in AllKeys
                  /\ item.effective \in Nat /\ item.inactive \in Nat
                  /\ \E i \in 1..Len(items) : item = items[i]
             /\ \A i \in 1..Len(items) : items[i] \in Range(items)
<1> DEFINE items == Items(Configs[c])
           rules == RulesOf(c)
<1>1. /\ items \in Seq(Range(items))
      /\ \A x : x \in Range(items) <=>
           \E i \in DOMAIN rules : \E j \in DOMAIN Points(rules[i]) :
             x = ItemOf(rules[i], Points(rules[i])[j])
  BY ItemsOfPoints
<1>2. ASSUME NEW item \in Range(items)
      PROVE  item.effective \in Nat /\ item.inactive \in Nat
  <2> HIDE DEF items, rules
  <2>1. PICK i \in DOMAIN rules : \E j \in DOMAIN Points(rules[i]) :
          item = ItemOf(rules[i], Points(rules[i])[j])
    BY <1>1
  <2>2. PICK j \in DOMAIN Points(rules[i]) : item = ItemOf(rules[i], Points(rules[i])[j])
    BY <2>1
  <2>3. rules[i] \in Range(Configs[c])
    BY RulesAreListed DEF rules
  <2>4. Points(rules[i])[j] \in Range(rules[i].points)
    BY <2>3, PointsAreListed
  <2> QED
    BY <2>2, <2>3, <2>4, ConfigsAssumption DEF ItemOf
<1>3. Range(items) \subseteq AllItems
  BY DEF AllItems
<1> HIDE DEF items, rules
<1>4. /\ Len(items) \in Nat /\ DOMAIN items = 1..Len(items)
      /\ Range(items) = {items[i] : i \in 1..Len(items)}
  <2>1. Len(items) \in Nat /\ DOMAIN items = 1..Len(items)
    BY <1>1
  <2> QED
    BY <2>1 DEF Range
<1> QED
  BY <1>1, <1>2, <1>3, <1>4 DEF AllKeys, items

\* A list that is as long as its keys are many has each once.
LEMMA ListedOnce ==
  ASSUME NEW c \in DOMAIN Configs, Listed(Configs[c])
  PROVE  LET items == Items(Configs[c])
         IN  \A i, j \in DOMAIN items : items[i].key = items[j].key => i = j
<1> DEFINE items == Items(Configs[c])
           n == Len(items)
           f == [i \in 1..n |-> items[i].key]
<1>1. /\ n \in Nat /\ DOMAIN items = 1..n
      /\ Range(items) = {items[i] : i \in 1..n}
  BY ItemsAreListed
<1>2. Cardinality(Keys(items)) = n
  BY DEF Listed
<1> HIDE DEF items, n
<1>3. Keys(items) = {items[i].key : i \in 1..n}
  BY <1>1 DEF Keys
<1>4. f \in Surjection(1..n, Keys(items))
  BY <1>3 DEF Surjection
<1>5. IsFiniteSet(1..n) /\ Cardinality(1..n) = n
  BY <1>1, FS_Interval
<1>6. f \in Injection(1..n, Keys(items))
  BY <1>2, <1>4, <1>5, FS_Surjection
<1>7. \A i, j \in 1..n : items[i].key = items[j].key => i = j
  BY <1>6 DEF Injection, IsInjective
<1> QED
  BY <1>1, <1>7 DEF items

\* The items that are new to a workbook.
LEMMA FreshListed ==
  ASSUME NEW c \in DOMAIN Configs, Listed(Configs[c]), NEW keys
  PROVE  LET items == Items(Configs[c])
             fresh == Fresh(items, keys)
         IN  /\ Len(fresh) \in Nat /\ DOMAIN fresh = 1..Len(fresh)
             /\ \A i \in 1..Len(fresh) : fresh[i] \in Range(items) /\ fresh[i].key \notin keys
             /\ \A i, j \in 1..Len(fresh) : fresh[i].key = fresh[j].key => i = j
             /\ \A item \in Range(items) :
                  item.key \notin keys => \E i \in 1..Len(fresh) : fresh[i] = item
<1> DEFINE items == Items(Configs[c])
           fresh == Fresh(items, keys)
           n == Len(items)
           X == Range(items)
           seqs == [i \in DOMAIN items |->
                      IF items[i].key \notin keys THEN <<items[i]>> ELSE <<>>]
<1>1. /\ n \in Nat /\ DOMAIN items = 1..n /\ items \in Seq(X)
      /\ \A i \in 1..n : items[i] \in X
      /\ \A x \in X : \E i \in 1..n : x = items[i]
  BY ItemsAreListed
<1>2. \A i, j \in 1..n : items[i].key = items[j].key => i = j
  BY <1>1, ListedOnce
<1>3. fresh = FlattenSeq(seqs)
  BY DEF Fresh
<1> HIDE DEF fresh, items, X
<1>4. IsList(seqs, n)
  <2> HIDE DEF n
  <2> QED
    BY <1>1 DEF IsList
<1>5. \A i \in 1..n : seqs[i] = IF items[i].key \notin keys THEN <<items[i]>> ELSE <<>>
  BY <1>1
<1> HIDE DEF seqs
<1> HIDE DEF n
<1>6. ASSUME NEW i \in 1..n
      PROVE  /\ seqs[i] \in Seq(X)
             /\ \A x : x \in Range(seqs[i]) <=> x = items[i] /\ items[i].key \notin keys
  <2>1. items[i] \in X
    BY <1>1
  <2>2. /\ <<>> \in Seq(X) /\ <<items[i]>> \in Seq(X)
        /\ Range(<<>>) = {} /\ Range(<<items[i]>>) = {items[i]}
    BY <2>1 DEF Range
  <2> QED
    BY <1>5, <2>2
<1>7. /\ FlattenSeq(seqs) \in Seq(X)
      /\ \A x : x \in Range(FlattenSeq(seqs)) <=> \E i \in 1..n : x \in Range(seqs[i])
  BY <1>1, <1>4, <1>6, Flattened
<1>8. \A i, j \in DOMAIN FlattenSeq(seqs) :
        FlattenSeq(seqs)[i].key = FlattenSeq(seqs)[j].key => i = j
  <2> DEFINE f == [x \in X |-> x.key]
  <2>1. \A i \in 1..n : \A a \in DOMAIN seqs[i] :
          a = 1 /\ seqs[i][a] = items[i] /\ f[items[i]] = items[i].key
    <3>1. ASSUME NEW i \in 1..n, NEW a \in DOMAIN seqs[i]
          PROVE  a = 1 /\ seqs[i][a] = items[i] /\ f[items[i]] = items[i].key
      <4>1. items[i] \in X /\ (seqs[i] = <<>> \/ seqs[i] = <<items[i]>>)
        BY <1>1, <1>5
      <4>2. DOMAIN seqs[i] = {} \/ (DOMAIN seqs[i] = {1} /\ seqs[i][1] = items[i])
        BY <4>1
      <4> QED
        BY <4>1, <4>2
    <3> QED
      BY <3>1
  <2>2. \A k \in DOMAIN FlattenSeq(seqs) : f[FlattenSeq(seqs)[k]] = FlattenSeq(seqs)[k].key
    <3> DEFINE all == FlattenSeq(seqs)
    <3>1. all \in Seq(X)
      BY <1>7
    <3> HIDE DEF all
    <3>2. \A k \in DOMAIN all : all[k] \in X
      BY <3>1
    <3>3. \A k \in DOMAIN all : f[all[k]] = all[k].key
      BY <3>2
    <3> QED
      BY <3>3 DEF all
  <2> HIDE DEF f
  <2>3. \A i, j \in 1..n : \A a \in DOMAIN seqs[i], b \in DOMAIN seqs[j] :
          f[seqs[i][a]] = f[seqs[j][b]] => i = j /\ a = b
    BY <1>2, <2>1
  <2>4. \A k, l \in DOMAIN FlattenSeq(seqs) :
          f[FlattenSeq(seqs)[k]] = f[FlattenSeq(seqs)[l]] => k = l
    BY <1>1, <1>4, <1>6, <2>3, FlattenedOnce
  <2> QED
    BY <2>2, <2>4
<1>9. ASSUME NEW x
      PROVE  x \in Range(fresh) <=> x \in X /\ x.key \notin keys
  <2>1. ASSUME x \in Range(fresh) PROVE x \in X /\ x.key \notin keys
    <3>1. PICK i \in 1..n : x \in Range(seqs[i])
      BY <1>3, <1>7, <2>1
    <3>2. x = items[i] /\ items[i].key \notin keys
      BY <1>6, <3>1
    <3> QED
      BY <1>1, <3>2
  <2>2. ASSUME x \in X, x.key \notin keys PROVE x \in Range(fresh)
    <3>1. PICK i \in 1..n : x = items[i]
      BY <1>1, <2>2
    <3>2. x \in Range(seqs[i])
      BY <1>6, <2>2, <3>1
    <3> QED
      BY <1>3, <1>7, <3>2
  <2> QED
    BY <2>1, <2>2
<1>10. Len(fresh) \in Nat /\ DOMAIN fresh = 1..Len(fresh)
       /\ Range(fresh) = {fresh[i] : i \in 1..Len(fresh)}
  <2>1. Len(fresh) \in Nat /\ DOMAIN fresh = 1..Len(fresh)
    BY <1>3, <1>7
  <2> QED
    BY <2>1 DEF Range
<1> QED
  BY <1>3, <1>8, <1>9, <1>10 DEF fresh, items, X

-----------------------------------------------------------------------------
\* A list after the empty one.
LEMMA AfterNothing ==
  ASSUME NEW n \in Nat, NEW s, IsList(s, n)
  PROVE  <<>> \o s = s
<1>1. IsList(<<>>, 0)
  BY DEF IsList
<1>2. IsJoint(<<>> \o s, 0, <<>>, n, s)
  BY <1>1, Concatenation
<1> DEFINE u == <<>> \o s
<1>3. u = [i \in 1..n |-> u[i]] /\ \A i \in 1..n : u[i] = s[i]
  <2> HIDE DEF u
  <2>1. /\ IsList(u, 0 + n)
        /\ \A i \in 1..(0 + n) : u[i] = IF i <= 0 THEN <<>>[i] ELSE s[i - 0]
    BY <1>2 DEF IsJoint, u
  <2>2. 0 + n = n /\ \A i \in 1..n : ~(i <= 0) /\ i - 0 = i
    OBVIOUS
  <2> QED
    BY <2>1, <2>2 DEF IsList
<1> HIDE DEF u
<1>4. s = [i \in 1..n |-> s[i]]
  BY DEF IsList
<1> QED
  BY <1>3, <1>4 DEF u

\* What a document says of its rules and points.
LEMMA DocumentOf ==
  ASSUME NEW c \in DOMAIN Configs, NEW d,
         NEW doc \in Deliver(Configs[c], Occurrences, Shift(d))
  PROVE  LET rules == RulesOf(c)
         IN  /\ Loads(Configs[c])
             /\ \A i \in DOMAIN rules : ~RuleFails(Shift(d), rules[i], Occurrences)
             /\ doc.rules = [i \in DOMAIN rules |->
                               RuleResult(Shift(d), rules[i], Occurrences, Images(rules))]
<1> DEFINE rules == RulesOf(c)
           plain == [i \in DOMAIN rules |->
                       RuleResult(Shift(d), rules[i], Occurrences, Images(rules))]
<1>1. /\ Loads(Configs[c])
      /\ \A i \in DOMAIN rules : ~RuleFails(Shift(d), rules[i], Occurrences)
      /\ doc.rules = <<>> \o plain
  <2> DEFINE results == <<>> \o plain
             fails == \/ ~Loads(Configs[c])
                      \/ \E i \in DOMAIN rules : RuleFails(Shift(d), rules[i], Occurrences)
             content == [rules |-> results, ruleCount |-> Len(results), charts |-> Drawn(rules),
                         pointCount |-> MapThenSumSet(LAMBDA i : Len(results[i].points),
                                                      DOMAIN results),
                         eventCount |-> MapThenSumSet(LAMBDA i : results[i].count, DOMAIN results),
                         total |-> MapThenSumSet(LAMBDA i : results[i].score, DOMAIN results)]
  <2>1. Deliver(Configs[c], Occurrences, Shift(d)) = IF fails THEN {} ELSE {content}
    BY DEF Deliver, RulesOf, Each
  <2>2. content.rules = results
    OBVIOUS
  <2> HIDE DEF content, results, fails
  <2>3. ~fails /\ doc = content
    BY <2>1
  <2> QED
    BY <2>2, <2>3 DEF results, fails
<1>3. IsList(plain, Len(rules)) /\ Len(rules) \in Nat
  <2>1. Len(rules) \in Nat /\ DOMAIN rules = 1..Len(rules)
    BY RulesAreListed
  <2> HIDE DEF rules
  <2> QED
    BY <2>1 DEF IsList
<1> HIDE DEF plain
<1>4. <<>> \o plain = plain
  BY <1>3, AfterNothing
<1> QED
  BY <1>1, <1>4 DEF plain

\* The line of a point.
PointLine(d, rules, i, j) ==
  PointResult(Shift(d), rules[i], Points(rules[i])[j],
              RunExecution(Shift(d), rules[i], Occurrences),
              Images(rules)[<<rules[i].id, Points(rules[i])[j].id>>])

\* The line of a rule.
LEMMA RuleLine ==
  ASSUME NEW c \in DOMAIN Configs, NEW d, NEW i \in DOMAIN RulesOf(c)
  PROVE  LET rules == RulesOf(c)
             line == RuleResult(Shift(d), rules[i], Occurrences, Images(rules))
         IN  /\ line.rule = rules[i].id
             /\ line.points = [j \in 1..Len(Points(rules[i])) |-> PointLine(d, rules, i, j)]
<1> DEFINE rules == RulesOf(c)
           n == Len(Points(rules[i]))
           plain == [j \in DOMAIN Points(rules[i]) |-> PointLine(d, rules, i, j)]
           line == RuleResult(Shift(d), rules[i], Occurrences, Images(rules))
<1>1. rules[i] \in Range(Configs[c])
  BY RulesAreListed
<1>2. n \in Nat /\ DOMAIN Points(rules[i]) = 1..n
  BY <1>1, PointsAreListed
<1>3. line.rule = rules[i].id /\ line.points = <<>> \o plain
  BY DEF RuleResult, Each, PointLine
<1> HIDE DEF n, rules, line
<1>4. plain = [j \in 1..n |-> PointLine(d, rules, i, j)]
  BY <1>2
<1>5. IsList(plain, n)
  BY <1>4 DEF IsList
<1> HIDE DEF plain
<1>6. <<>> \o plain = plain
  BY <1>2, <1>5, AfterNothing
<1> QED
  BY <1>3, <1>4, <1>6 DEF n, rules, line

\* The points a reader finds in a document are the enabled points of the enabled rules.
LEMMA PointsOfDocument ==
  ASSUME NEW c \in DOMAIN Configs, NEW d,
         NEW doc \in Deliver(Configs[c], Occurrences, Shift(d))
  PROVE  LET rules == RulesOf(c)
         IN  \A x : x \in Range(PointsOf(doc)) <=>
               \E i \in DOMAIN rules : \E j \in DOMAIN Points(rules[i]) :
                 x = <<rules[i].id, PointLine(d, rules, i, j)>>
<1> DEFINE rules == RulesOf(c)
           n == Len(rules)
           size(i) == Len(Points(rules[i]))
           length == [i \in 1..n |-> size(i)]
           seqs == [i \in DOMAIN doc.rules |->
                      [j \in DOMAIN doc.rules[i].points |->
                         <<doc.rules[i].rule, doc.rules[i].points[j]>>]]
           lines(i) == [j \in 1..size(i) |-> <<rules[i].id, PointLine(d, rules, i, j)>>]
<1>1. /\ n \in Nat /\ DOMAIN rules = 1..n
      /\ \A i \in 1..n : size(i) \in Nat /\ DOMAIN Points(rules[i]) = 1..size(i)
  BY RulesAreListed, PointsAreListed
<1>0. doc.rules = [i \in DOMAIN rules |->
                     RuleResult(Shift(d), rules[i], Occurrences, Images(rules))]
  BY DocumentOf
<1>2. DOMAIN doc.rules = 1..n
  BY <1>0, <1>1
<1>3. ASSUME NEW i \in 1..n
      PROVE  /\ doc.rules[i].rule = rules[i].id
             /\ doc.rules[i].points = [j \in 1..size(i) |-> PointLine(d, rules, i, j)]
  <2>1. doc.rules[i] = RuleResult(Shift(d), rules[i], Occurrences, Images(rules))
    BY <1>0, <1>1
  <2> QED
    BY <1>1, <2>1, RuleLine
<1>4. PointsOf(doc) = FlattenSeq(seqs)
  BY DEF PointsOf
<1>5. \A i \in 1..n : seqs[i] = lines(i)
  <2>1. ASSUME NEW i \in 1..n PROVE seqs[i] = lines(i)
    <3> HIDE DEF rules, n, size
    <3> QED
      BY <1>2, <1>3
  <2> QED
    BY <2>1
<1>6. seqs = [i \in 1..n |-> lines(i)]
  <2> HIDE DEF rules, n, size, lines
  <2> QED
    BY <1>2, <1>5
<1> DEFINE all == PointsOf(doc)
<1> HIDE DEF rules, n, seqs, all
<1>7. n \in Nat /\ IsList(seqs, n)
  <2> HIDE DEF lines
  <2> QED
    BY <1>1, <1>6 DEF IsList
<1>8. \A i \in 1..n : length[i] \in Nat /\ IsList(seqs[i], length[i])
  <2>1. ASSUME NEW i \in 1..n PROVE length[i] \in Nat /\ IsList(seqs[i], length[i])
    <3>1. length[i] = size(i) /\ size(i) \in Nat
      BY <1>1
    <3> HIDE DEF size, length
    <3> QED
      BY <1>5, <3>1 DEF IsList
  <2> QED
    BY <2>1
<1>9. Range(all) = UNION {{seqs[i][j] : j \in 1..length[i]} : i \in 1..n}
  <2> HIDE DEF length, lines, size
  <2> DEFINE whole == FlattenSeq(seqs)
             parts == UNION {{seqs[i][j] : j \in 1..length[i]} : i \in 1..n}
  <2>1. whole \in Seq(Range(whole)) /\ Range(whole) = parts
    BY <1>7, <1>8, FlattenedLists
  <2> QED
    BY <1>4, <2>1 DEF all
<1>10. ASSUME NEW x
       PROVE  x \in Range(all) <=> \E i \in DOMAIN rules : \E j \in DOMAIN Points(rules[i]) :
                                     x = <<rules[i].id, PointLine(d, rules, i, j)>>
  <2>1. x \in Range(all) <=> \E i \in 1..n : x \in {seqs[i][j] : j \in 1..length[i]}
    <3> HIDE DEF length
    <3> QED
      BY <1>9
  <2>2. ASSUME NEW i \in 1..n
        PROVE  x \in {seqs[i][j] : j \in 1..length[i]} <=>
                 \E j \in DOMAIN Points(rules[i]) : x = <<rules[i].id, PointLine(d, rules, i, j)>>
    <3>1. length[i] = size(i) /\ DOMAIN Points(rules[i]) = 1..size(i)
      BY <1>1
    <3>2. \A j \in 1..size(i) : seqs[i][j] = <<rules[i].id, PointLine(d, rules, i, j)>>
      BY <1>5
    <3> HIDE DEF length, size
    <3> QED
      BY <3>1, <3>2
  <2> QED
    BY <1>1, <2>1, <2>2
<1> QED
  BY <1>10 DEF all, rules

-----------------------------------------------------------------------------
\* A sum of scores.
LEMMA SumOfScores ==
  ASSUME NEW S, IsFiniteSet(S), NEW scoring, \A e \in S : Score(scoring, e) \in Int
  PROVE  LET v == [e \in S |-> Score(scoring, e)]
         IN  /\ MapThenSumSet(LAMBDA e : Score(scoring, e), S) = SumOf(v, S)
             /\ SumOf(v, S) \in Int
<1> DEFINE v == [e \in S |-> Score(scoring, e)]
           Folds(g) == g = [s \in SUBSET S |-> IF s = {} THEN 0
                              ELSE Score(scoring, Pick(s)) + g[s \ {Pick(s)}]]
           g == CHOOSE h : Folds(h)
<1>1. MapThenSumSet(LAMBDA e : Score(scoring, e), S) = g[S]
  BY DEF MapThenSumSet, MapThenFoldSet, Pick
<1>2. \A s \in SUBSET S : s # {} => v[Pick(s)] = Score(scoring, Pick(s))
  BY Picked
<1>3. \A h : Folds(h) <=> Sums(h, v, S)
  <2> HIDE DEF v
  <2> QED
    BY <1>2 DEF Sums
<1>4. \A x \in S : v[x] \in Int
  OBVIOUS
<1>5. Sums(g, v, S)
  <2>1. \E h : Sums(h, v, S)
    <3> HIDE DEF v
    <3> QED
      BY <1>4, SumsExist, S \in SUBSET S
  <2> HIDE DEF Folds, v
  <2> QED
    BY <1>3, <2>1
<1>6. g[S] = SumOf(v, S) /\ SumOf(v, S) \in Int
  <2> HIDE DEF v, g
  <2> QED
    BY <1>4, <1>5, SumIs, SumStep
<1> HIDE DEF g
<1> QED
  BY <1>1, <1>6

\* What a unit costs is a number.
LEMMA UnitScoreIs ==
  ASSUME NEW c \in DOMAIN Configs, NEW rule \in Range(Configs[c]), NEW e,
         UnitScore(rule.scoring, e) # {}
  PROVE  Max(UnitScore(rule.scoring, e)) \in Int
<1> DEFINE s == rule.scoring
           pair == <<e.point, e.type>>
           mark == <<e.point, e.key>>
<1>1. /\ s.byPointType \in [DOMAIN s.byPointType -> Int]
      /\ s.byType \in [DOMAIN s.byType -> Int]
      /\ s.byPoint \in [DOMAIN s.byPoint -> Int]
      /\ s.default \in Seq(Int) /\ Len(s.default) <= 1
  BY ScoringAssumption
<1>2. \A x \in Int : Max({x}) \in Int
  BY DEF Max
<1> SUFFICES \E x \in Int : UnitScore(s, e) = {x}
  BY <1>2
<1> HIDE DEF s
<1>3. CASE pair \in DOMAIN s.byPointType
  <2>1. UnitScore(s, e) = {s.byPointType[pair]}
    BY <1>3 DEF UnitScore
  <2> QED
    BY <1>1, <1>3, <2>1
<1>4. CASE pair \notin DOMAIN s.byPointType /\ e.type \in DOMAIN s.byType
  <2>1. UnitScore(s, e) = {s.byType[e.type]}
    BY <1>4 DEF UnitScore
  <2> QED
    BY <1>1, <1>4, <2>1
<1>5. CASE /\ pair \notin DOMAIN s.byPointType /\ e.type \notin DOMAIN s.byType
           /\ mark \in DOMAIN s.byPoint
  <2>1. UnitScore(s, e) = {s.byPoint[mark]}
    BY <1>5 DEF UnitScore
  <2> QED
    BY <1>1, <1>5, <2>1
<1>6. CASE /\ pair \notin DOMAIN s.byPointType /\ e.type \notin DOMAIN s.byType
           /\ mark \notin DOMAIN s.byPoint
  <2>1. UnitScore(s, e) = Range(s.default)
    BY <1>6 DEF UnitScore
  <2>2. Range(s.default) # {}
    BY <2>1 DEF s
  <2>3. Len(s.default) = 1
    <3>1. Len(s.default) \in Nat /\ DOMAIN s.default = 1..Len(s.default)
      BY <1>1
    <3>2. Len(s.default) # 0
      BY <2>2, <3>1 DEF Range
    <3> DEFINE n == Len(s.default)
    <3>3. n \in Nat /\ n # 0 /\ n <= 1
      BY <1>1, <3>1, <3>2
    <3> HIDE DEF n
    <3>4. n = 1
      BY <3>3
    <3> QED
      BY <3>4 DEF n
  <2>4. DOMAIN s.default = {1} /\ s.default[1] \in Int
    BY <1>1, <2>3
  <2>5. Range(s.default) = {s.default[1]}
    BY <2>4 DEF Range
  <2> QED
    BY <2>1, <2>4, <2>5
<1> QED
  BY <1>3, <1>4, <1>5, <1>6

\* What an execution finds: in the window of a group, of the points of the group.
LEMMA FoundIs ==
  ASSUME NEW shift, NEW rule, NEW f \in RunExecution(shift, rule, Occurrences)
  PROVE  \E g \in Groups(shift, rule) :
           /\ f = [event |-> f.event, window |-> g.window] /\ f.window = g.window
           /\ f.event.point \in g.ids
           /\ f.event \in Evaluate(rule, Occurrences, g.window, g.ids)
<1>1. PICK g \in Groups(shift, rule) :
        f \in {[event |-> e, window |-> g.window] :
                 e \in {x \in Evaluate(rule, Occurrences, g.window, g.ids) : Keeps(g, x)}}
  BY DEF RunExecution
<1>2. PICK e \in Evaluate(rule, Occurrences, g.window, g.ids) :
        Keeps(g, e) /\ f = [event |-> e, window |-> g.window]
  BY <1>1
<1> QED
  BY <1>2 DEF Keeps

\* The events of a point, and what they cost.
EventsFound(shift, rule, point) ==
  {f.event : f \in {g \in RunExecution(shift, rule, Occurrences) : g.event.point = point.id}}

\* Every event a package charges is an occurrence with a score.
LEMMA EventsCost ==
  ASSUME NEW c \in DOMAIN Configs, NEW rule \in Range(Configs[c]), NEW shift,
         ~RuleFails(shift, rule, Occurrences), NEW point
  PROVE  LET events == EventsFound(shift, rule, point)
         IN  /\ IsFiniteSet(events) /\ events \subseteq Occurrences
             /\ \A e \in events : Score(rule.scoring, e) \in Int
<1> DEFINE events == EventsFound(shift, rule, point)
<1>1. ASSUME NEW e \in events
      PROVE  e \in Occurrences /\ Score(rule.scoring, e) \in Int
  <2>1. PICK f \in RunExecution(shift, rule, Occurrences) : e = f.event
    BY DEF EventsFound
  <2>2. e \in Occurrences
    BY <2>1, FoundIs DEF Evaluate
  <2>3. UnitScore(rule.scoring, e) # {}
    BY <2>1 DEF RuleFails
  <2>4. Max(UnitScore(rule.scoring, e)) \in Int
    BY <2>3, UnitScoreIs
  <2>5. e.units \in Nat
    BY <2>2, ScoringAssumption
  <2> HIDE DEF events
  <2> QED
    BY <2>2, <2>4, <2>5 DEF Score
<1> HIDE DEF events
<1>2. events \subseteq Occurrences
  BY <1>1
<1>3. IsFiniteSet(Occurrences)
  BY ScoringAssumption
<1>4. IsFiniteSet(events)
  BY <1>2, <1>3, FS_Subset
<1> QED
  BY <1>1, <1>2, <1>4 DEF events

\* A point's line has its events and the sum of their scores.
LEMMA PointLineIs ==
  ASSUME NEW c \in DOMAIN Configs, NEW d, NEW i \in DOMAIN RulesOf(c),
         ~RuleFails(Shift(d), RulesOf(c)[i], Occurrences),
         NEW j \in DOMAIN Points(RulesOf(c)[i])
  PROVE  LET rule == RulesOf(c)[i]
             line == PointLine(d, RulesOf(c), i, j)
             events == EventsFound(Shift(d), rule, Points(rule)[j])
         IN  /\ line.point = Points(rule)[j].id
             /\ line.events = events
             /\ line.score = SumOf([e \in events |-> Score(rule.scoring, e)], events)
             /\ line.score \in Int
<1> DEFINE rule == RulesOf(c)[i]
           point == Points(rule)[j]
           line == PointLine(d, RulesOf(c), i, j)
           events == EventsFound(Shift(d), rule, point)
<1>1. rule \in Range(Configs[c])
  BY RulesAreListed
<1>2. IsFiniteSet(events) /\ \A e \in events : Score(rule.scoring, e) \in Int
  BY <1>1, EventsCost
<1>3. /\ line.point = point.id
      /\ line.events = events
      /\ line.score = MapThenSumSet(LAMBDA e : Score(rule.scoring, e), events)
  BY DEF PointLine, PointResult, EventsFound
<1>4. /\ MapThenSumSet(LAMBDA e : Score(rule.scoring, e), events)
           = SumOf([e \in events |-> Score(rule.scoring, e)], events)
      /\ SumOf([e \in events |-> Score(rule.scoring, e)], events) \in Int
  <2> DEFINE scoring == rule.scoring
  <2> HIDE DEF events
  <2> QED
    BY <1>2, SumOfScores
<1> QED
  BY <1>3, <1>4

-----------------------------------------------------------------------------
\* fill_report.py reads a score for every item of the configuration, none below zero.
LEMMA ScoresRead ==
  ASSUME NEW c \in DOMAIN Configs, NEW d \in Day, NEW scores \in Readings[<<c, d>>]
  PROVE  /\ DOMAIN scores = Keys(Items(Configs[c]))
         /\ \A key \in DOMAIN scores : scores[key] \in Nat
<1> DEFINE rules == RulesOf(c)
           run == <<c, d>>
<1>1. run \in Cases /\ run[1] = c /\ run[2] = d
  BY DEF Cases
<1>2. PICK doc \in Deliver(Configs[c], Occurrences, Shift(d)) :
        Validates(doc) /\ scores = PointScores(doc)
  <2>1. Readings[run] = Reading(Assessments[run])
    BY <1>1, ReadingOf
  <2>2. Assessments[run] = Deliver(Configs[c], Occurrences, Shift(d))
    BY <1>1, AssessmentOf
  <2> QED
    BY <2>1, <2>2 DEF Reading
<1> DEFINE entries == Range(PointsOf(doc))
<1>3. /\ DOMAIN scores = {Key(e) : e \in entries}
      /\ \A key \in DOMAIN scores : \E e \in entries : scores[key] = e[2].score
  <2>1. scores = [key \in {Key(e) : e \in entries} |->
                    (CHOOSE e \in entries : Key(e) = key)[2].score]
    BY <1>2 DEF PointScores
  <2> HIDE DEF entries
  <2> QED
    BY <2>1
<1>4. ASSUME NEW e \in entries
      PROVE  e[2].score \in Nat /\ Key(e) \in Keys(Items(Configs[c]))
  <2>1. PICK i \in DOMAIN rules : \E j \in DOMAIN Points(rules[i]) :
          e = <<rules[i].id, PointLine(d, rules, i, j)>>
    BY PointsOfDocument
  <2>2. PICK j \in DOMAIN Points(rules[i]) : e = <<rules[i].id, PointLine(d, rules, i, j)>>
    BY <2>1
  <2> DEFINE line == PointLine(d, rules, i, j)
  <2>3. ~RuleFails(Shift(d), rules[i], Occurrences)
    BY DocumentOf
  <2>4. line.score \in Int /\ line.point = Points(rules[i])[j].id
    BY <2>3, PointLineIs
  <2>5. e[2].score >= 0
    BY <1>2 DEF Validates
  <2>6. ItemOf(rules[i], Points(rules[i])[j]) \in Range(Items(Configs[c]))
    BY ItemsOfPoints
  <2> HIDE DEF line, rules
  <2>7. Key(e) = ItemOf(rules[i], Points(rules[i])[j]).key
    BY <2>2, <2>4 DEF Key, ItemOf, line
  <2> QED
    BY <2>2, <2>4, <2>5, <2>6, <2>7 DEF Keys, line
<1>5. ASSUME NEW key \in Keys(Items(Configs[c]))
      PROVE  \E e \in entries : Key(e) = key
  <2>1. PICK x \in Range(Items(Configs[c])) : key = x.key
    BY DEF Keys
  <2>2. PICK i \in DOMAIN rules : \E j \in DOMAIN Points(rules[i]) :
          x = ItemOf(rules[i], Points(rules[i])[j])
    BY ItemsOfPoints
  <2>3. PICK j \in DOMAIN Points(rules[i]) : x = ItemOf(rules[i], Points(rules[i])[j])
    BY <2>2
  <2> DEFINE line == PointLine(d, rules, i, j)
             e == <<rules[i].id, line>>
  <2>4. ~RuleFails(Shift(d), rules[i], Occurrences)
    BY DocumentOf
  <2>5. line.point = Points(rules[i])[j].id
    BY <2>4, PointLineIs
  <2>6. e \in entries
    BY PointsOfDocument
  <2> HIDE DEF line, rules
  <2>7. Key(e) = key
    BY <2>1, <2>3, <2>5 DEF Key, ItemOf
  <2> QED
    BY <2>6, <2>7
<1> HIDE DEF entries
<1> QED
  BY <1>3, <1>4, <1>5

-----------------------------------------------------------------------------
\* Min is the least number of a set.
LEMMA LeastIs ==
  ASSUME NEW T, T \subseteq Int, NEW x \in T, \A y \in T : x <= y
  PROVE  Min(T) = x
<1>1. Min(T) \in T /\ \A y \in T : Min(T) <= y
  BY DEF Min
<1> DEFINE m == Min(T)
<1>2. m \in Int /\ x \in Int /\ m <= x /\ x <= m
  BY <1>1
<1> HIDE DEF m
<1> QED
  BY <1>2 DEF m

\* The scorer finds the most specific score.
LEMMA MostSpecific ==
  ASSUME NEW s, NEW e
  PROVE  ScoreOf(s, e) = UnitScore(s, e)
<1> DEFINE pair == <<e.point, e.type>>
           mark == <<e.point, e.key>>
           A == {s.byPointType[k] : k \in {pair} \cap DOMAIN s.byPointType}
           B == {s.byType[k] : k \in {e.type} \cap DOMAIN s.byType}
           C == {s.byPoint[k] : k \in {mark} \cap DOMAIN s.byPoint}
           D == Range(s.default)
           given == <<A, B, C, D>>
           scales == {i \in 1..4 : given[i] # {}}
<1>1. ScoreOf(s, e) = IF scales = {} THEN {} ELSE given[Min(scales)]
  BY DEF ScoreOf
<1>2. /\ pair \in DOMAIN s.byPointType => A = {s.byPointType[pair]}
      /\ pair \notin DOMAIN s.byPointType => A = {}
      /\ e.type \in DOMAIN s.byType => B = {s.byType[e.type]}
      /\ e.type \notin DOMAIN s.byType => B = {}
      /\ mark \in DOMAIN s.byPoint => C = {s.byPoint[mark]}
      /\ mark \notin DOMAIN s.byPoint => C = {}
  OBVIOUS
<1>3. UnitScore(s, e) = CASE pair \in DOMAIN s.byPointType -> {s.byPointType[pair]}
                          [] pair \notin DOMAIN s.byPointType /\ e.type \in DOMAIN s.byType ->
                               {s.byType[e.type]}
                          [] /\ pair \notin DOMAIN s.byPointType /\ e.type \notin DOMAIN s.byType
                             /\ mark \in DOMAIN s.byPoint -> {s.byPoint[mark]}
                          [] OTHER -> D
  BY DEF UnitScore
<1> HIDE DEF A, B, C, D, pair, mark
<1>4. UnitScore(s, e) = IF A # {} THEN A ELSE IF B # {} THEN B ELSE IF C # {} THEN C ELSE D
  BY <1>2, <1>3
<1>5. /\ 1 \in scales <=> A # {}
      /\ 2 \in scales <=> B # {}
      /\ 3 \in scales <=> C # {}
      /\ 4 \in scales <=> D # {}
      /\ given[1] = A /\ given[2] = B /\ given[3] = C /\ given[4] = D
      /\ scales \subseteq 1..4
  OBVIOUS
<1> HIDE DEF scales, given
<1>6. \A i \in scales : i \in Int /\ (i = 1 \/ i = 2 \/ i = 3 \/ i = 4)
  BY <1>5
<1>7. CASE A # {}
  <2>1. 1 \in scales /\ \A j \in scales : 1 <= j
    BY <1>5, <1>6, <1>7
  <2>2. Min(scales) = 1
    BY <1>6, <2>1, LeastIs
  <2> QED
    BY <1>1, <1>4, <1>5, <1>7, <2>1, <2>2
<1>8. CASE A = {} /\ B # {}
  <2>1. 2 \in scales /\ \A j \in scales : 2 <= j
    BY <1>5, <1>6, <1>8
  <2>2. Min(scales) = 2
    BY <1>6, <2>1, LeastIs
  <2> QED
    BY <1>1, <1>4, <1>5, <1>8, <2>1, <2>2
<1>9. CASE A = {} /\ B = {} /\ C # {}
  <2>1. 3 \in scales /\ \A j \in scales : 3 <= j
    BY <1>5, <1>6, <1>9
  <2>2. Min(scales) = 3
    BY <1>6, <2>1, LeastIs
  <2> QED
    BY <1>1, <1>4, <1>5, <1>9, <2>1, <2>2
<1>10. CASE A = {} /\ B = {} /\ C = {} /\ D # {}
  <2>1. 4 \in scales /\ \A j \in scales : 4 <= j
    BY <1>5, <1>6, <1>10
  <2>2. Min(scales) = 4
    BY <1>6, <2>1, LeastIs
  <2> QED
    BY <1>1, <1>4, <1>5, <1>10, <2>1, <2>2
<1>11. CASE A = {} /\ B = {} /\ C = {} /\ D = {}
  <2>1. scales = {}
    BY <1>5, <1>6, <1>11
  <2> QED
    BY <1>1, <1>4, <1>11, <2>1
<1> QED
  BY <1>7, <1>8, <1>9, <1>10, <1>11

\* A window has no time only if its offsets take the whole shift.
LEMMA WithoutTime ==
  ASSUME NEW d \in Day, NEW o \in [{"start", "end"} -> Int], Empty(Window(Shift(d), o))
  PROVE  ShiftLength <= o["start"] + o["end"]
<1> DEFINE begin == d * ShiftLength
<1>1. d \in Nat /\ ShiftLength \in Nat
  BY MonthAssumption, OffsetsAssumption DEF Day
<1>2. begin \in Int /\ (d + 1) * ShiftLength = begin + ShiftLength
  BY <1>1
<1>3. o["start"] \in Int /\ o["end"] \in Int
  OBVIOUS
<1>4. (d + 1) * ShiftLength - o["end"] <= begin + o["start"]
  BY DEF Empty, Window, Shift
<1> HIDE DEF begin
<1> QED
  BY <1>1, <1>2, <1>3, <1>4

\* Two enabled points of a rule do not share an ID.
LEMMA OnePoint ==
  ASSUME NEW c \in DOMAIN Configs, NEW rule \in Range(Configs[c]), Distinct(rule),
         NEW p \in Range(Points(rule)), NEW q \in Range(Points(rule)), p.id = q.id
  PROVE  p = q
<1>1. p \in Range(rule.points) /\ q \in Range(rule.points)
  BY PointsAreListed
<1>2. PICK i \in DOMAIN rule.points : p = rule.points[i]
  BY <1>1 DEF Range
<1>3. PICK j \in DOMAIN rule.points : q = rule.points[j]
  BY <1>1 DEF Range
<1> QED
  BY <1>2, <1>3 DEF Distinct

\* What is found of a point is found in the window of that point.
LEMMA FoundInOwnWindow ==
  ASSUME NEW c \in DOMAIN Configs, NEW rule \in Range(Configs[c]), Distinct(rule), NEW shift,
         NEW f \in RunExecution(shift, rule, Occurrences)
  PROVE  InOwnWindow(shift, rule, f)
<1>1. PICK g \in Groups(shift, rule) : f.window = g.window /\ f.event.point \in g.ids
  BY FoundIs
<1>2. PICK w : g = [window |-> w, ids |-> {p.id : p \in {q \in Range(Points(rule)) :
                                                        PointWindow(shift, rule, q) = w}}]
  BY DEF Groups
<1>3. PICK q \in Range(Points(rule)) : f.event.point = q.id /\ PointWindow(shift, rule, q) = f.window
  BY <1>1, <1>2
<1> QED
  BY <1>3, OnePoint DEF InOwnWindow

\* The events a point is charged with are those in its own window.
LEMMA EventsAreOwn ==
  ASSUME NEW c \in DOMAIN Configs, NEW rule \in Range(Configs[c]), Distinct(rule),
         NEW d, NEW point \in Range(Points(rule))
  PROVE  EventsFound(Shift(d), rule, point) = EventsOf(rule, point, d)
<1> DEFINE shift == Shift(d)
           w == PointWindow(shift, rule, point)
           offset(side) == IF side \in DOMAIN point.offsets THEN point.offsets[side]
                           ELSE rule.offsets[side]
<1>1. EventsOf(rule, point, d) = {e \in Occurrences : e.rule = rule.id /\ e.point = point.id
                                                        /\ w.start <= e.at /\ e.at < w.end}
  <2>1. w.start = shift.start + offset("start") /\ w.end = shift.end - offset("end")
    BY DEF PointWindow, Window, OffsetsOf
  <2> HIDE DEF w
  <2> QED
    BY <2>1 DEF EventsOf
<1> HIDE DEF shift, w
<1>2. ASSUME NEW e \in EventsFound(shift, rule, point)
      PROVE  e \in Occurrences /\ e.rule = rule.id /\ e.point = point.id
             /\ w.start <= e.at /\ e.at < w.end
  <2>1. PICK f \in RunExecution(shift, rule, Occurrences) : e = f.event /\ e.point = point.id
    BY DEF EventsFound
  <2>2. PICK g \in Groups(shift, rule) :
          f.window = g.window /\ e \in Evaluate(rule, Occurrences, g.window, g.ids)
    BY <2>1, FoundIs
  <2>3. f.window = w
    <3>1. InOwnWindow(shift, rule, f)
      BY FoundInOwnWindow
    <3> QED
      BY <2>1, <3>1 DEF InOwnWindow, w
  <2> QED
    BY <2>1, <2>2, <2>3 DEF Evaluate
<1>3. ASSUME NEW e \in Occurrences, e.rule = rule.id, e.point = point.id,
             w.start <= e.at, e.at < w.end
      PROVE  e \in EventsFound(shift, rule, point)
  <2> DEFINE ids == {p.id : p \in {q \in Range(Points(rule)) : PointWindow(shift, rule, q) = w}}
             g == [window |-> w, ids |-> ids]
             f == [event |-> e, window |-> w]
  <2>1. g \in Groups(shift, rule)
    BY DEF Groups, w
  <2>2. point.id \in ids /\ point.id \in Ids(Points(rule))
    BY DEF w, Ids
  <2> HIDE DEF ids
  <2>3. g.window = w /\ g.ids = ids
    OBVIOUS
  <2> HIDE DEF g
  <2>4. e \in Evaluate(rule, Occurrences, g.window, g.ids) /\ Keeps(g, e)
    BY <1>3, <2>2, <2>3 DEF Evaluate, Keeps
  <2>5. f \in RunExecution(shift, rule, Occurrences)
    <3>1. f \in {[event |-> x, window |-> g.window] :
                   x \in {y \in Evaluate(rule, Occurrences, g.window, g.ids) : Keeps(g, y)}}
      BY <2>3, <2>4
    <3> HIDE DEF f
    <3> QED
      BY <2>1, <3>1 DEF RunExecution
  <2>6. f.event = e
    OBVIOUS
  <2> HIDE DEF f
  <2> QED
    BY <1>3, <2>5, <2>6 DEF EventsFound
<1>4. EventsFound(shift, rule, point) = EventsOf(rule, point, d)
  BY <1>1, <1>2, <1>3
<1> QED
  BY <1>4 DEF shift

\* What a list of events costs by the most specific scores.
LEMMA SumOfMostSpecific ==
  ASSUME NEW S, IsFiniteSet(S), NEW scoring, \A e \in S : Score(scoring, e) \in Int
  PROVE  MapThenSumSet(LAMBDA e : e.units * Max(ScoreOf(scoring, e)), S)
           = SumOf([e \in S |-> Score(scoring, e)], S)
<1> DEFINE v == [e \in S |-> Score(scoring, e)]
           Folds(g) == g = [s \in SUBSET S |-> IF s = {} THEN 0
                              ELSE Pick(s).units * Max(ScoreOf(scoring, Pick(s)))
                                   + g[s \ {Pick(s)}]]
           g == CHOOSE h : Folds(h)
<1>1. MapThenSumSet(LAMBDA e : e.units * Max(ScoreOf(scoring, e)), S) = g[S]
  BY DEF MapThenSumSet, MapThenFoldSet, Pick
<1>2. \A s \in SUBSET S : s # {} =>
        v[Pick(s)] = Pick(s).units * Max(ScoreOf(scoring, Pick(s)))
  <2>1. ASSUME NEW s \in SUBSET S, s # {}
        PROVE  v[Pick(s)] = Pick(s).units * Max(ScoreOf(scoring, Pick(s)))
    <3>1. Pick(s) \in S
      BY <2>1, Picked
    <3>2. ScoreOf(scoring, Pick(s)) = UnitScore(scoring, Pick(s))
      BY MostSpecific
    <3> QED
      BY <3>1, <3>2 DEF Score
  <2> QED
    BY <2>1
<1>3. \A h : Folds(h) <=> Sums(h, v, S)
  <2> HIDE DEF v
  <2> QED
    BY <1>2 DEF Sums
<1>4. \A x \in S : v[x] \in Int
  OBVIOUS
<1>5. Sums(g, v, S)
  <2>1. \E h : Sums(h, v, S)
    <3> HIDE DEF v
    <3> QED
      BY <1>4, SumsExist, S \in SUBSET S
  <2> HIDE DEF Folds, v
  <2> QED
    BY <1>3, <2>1
<1>6. g[S] = SumOf(v, S)
  <2> HIDE DEF v, g
  <2> QED
    BY <1>4, <1>5, SumIs
<1> HIDE DEF g
<1> QED
  BY <1>1, <1>6

\* What an assessment of a day makes, or why it makes nothing.
LEMMA AssessedAlone ==
  config \in DOMAIN Configs /\ today \in Day => PointsAssessedAlone
<1> SUFFICES ASSUME config \in DOMAIN Configs, today \in Day PROVE PointsAssessedAlone
  OBVIOUS
<1> DEFINE rules == RulesOf(config)
<1>1. Current = Deliver(Configs[config], Occurrences, Shift(today))
  <2> DEFINE run == <<config, today>>
  <2>1. run \in Cases /\ run[1] = config /\ run[2] = today
    BY DEF Cases
  <2>2. Assessments[run] = Deliver(Configs[run[1]], Occurrences, Shift(run[2]))
    BY <2>1, AssessmentOf
  <2> QED
    BY <2>1, <2>2 DEF Current
<1> SUFFICES ASSUME NEW doc \in Current, NEW i \in DOMAIN rules,
                    NEW j \in DOMAIN Points(rules[i])
             PROVE  LET result == doc.rules[i].points[j]
                        point == Points(rules[i])[j]
                        events == EventsOf(rules[i], point, today)
                    IN  /\ result.events = events
                        /\ result.score =
                             MapThenSumSet(LAMBDA e : e.units * Max(ScoreOf(rules[i].scoring, e)),
                                           events)
  BY DEF PointsAssessedAlone, RulesOf
<1> DEFINE rule == rules[i]
           point == Points(rule)[j]
           found == EventsFound(Shift(today), rule, point)
           line == PointLine(today, rules, i, j)
<1>2. /\ ~RuleFails(Shift(today), rule, Occurrences)
      /\ doc.rules[i] = RuleResult(Shift(today), rule, Occurrences, Images(rules))
  <2>1. doc \in Deliver(Configs[config], Occurrences, Shift(today))
    BY <1>1
  <2>2. /\ \A k \in DOMAIN rules : ~RuleFails(Shift(today), rules[k], Occurrences)
        /\ doc.rules = [k \in DOMAIN rules |->
                          RuleResult(Shift(today), rules[k], Occurrences, Images(rules))]
    BY <2>1, DocumentOf
  <2> HIDE DEF rules
  <2> QED
    BY <2>2
<1>3. rule \in Range(Configs[config])
  BY RulesAreListed
<1>4. point \in Range(Points(rule)) /\ j \in 1..Len(Points(rule))
  BY <1>3, PointsAreListed
<1>5. doc.rules[i].points[j] = line
  <2>1. RuleResult(Shift(today), rule, Occurrences, Images(rules)).points
          = [k \in 1..Len(Points(rule)) |-> PointLine(today, rules, i, k)]
    BY RuleLine
  <2> HIDE DEF rules
  <2> QED
    BY <1>2, <1>4, <2>1
<1>6. /\ line.events = found
      /\ line.score = SumOf([e \in found |-> Score(rule.scoring, e)], found)
  BY <1>2, PointLineIs
<1>7. IsFiniteSet(found) /\ \A e \in found : Score(rule.scoring, e) \in Int
  BY <1>2, <1>3, EventsCost
<1>8. found = EventsOf(rule, point, today)
  BY <1>2, <1>3, <1>4, EventsAreOwn DEF RuleFails
<1>9. MapThenSumSet(LAMBDA e : e.units * Max(ScoreOf(rule.scoring, e)), found)
        = SumOf([e \in found |-> Score(rule.scoring, e)], found)
  <2> HIDE DEF found, rule
  <2> QED
    BY <1>7, SumOfMostSpecific
<1> HIDE DEF found, line
<1> QED
  BY <1>5, <1>6, <1>8, <1>9

\* FailsOnlyForConfig holds in every state that has a configuration and a day.
LEMMA FailsForConfig ==
  config \in DOMAIN Configs /\ today \in Day => FailsOnlyForConfig
<1> SUFFICES ASSUME config \in DOMAIN Configs, today \in Day, Current = {}, Loads(Configs[config])
    PROVE  \E rule \in Range(RulesOf(config)) :
             \/ ShiftLength <= rule.offsets.start + rule.offsets.end
             \/ ~Distinct(rule)
             \/ \E p \in Range(Points(rule)) :
                  LET offset(side) == IF side \in DOMAIN p.offsets THEN p.offsets[side]
                                      ELSE rule.offsets[side]
                  IN  ShiftLength <= offset("start") + offset("end")
             \/ \E e \in Occurrences : e.rule = rule.id /\ ScoreOf(rule.scoring, e) = {}
  BY DEF FailsOnlyForConfig, RulesOf
<1> DEFINE rules == RulesOf(config)
           shift == Shift(today)
<1>1. Deliver(Configs[config], Occurrences, shift) = {}
  <2> DEFINE run == <<config, today>>
  <2>1. run \in Cases /\ run[1] = config /\ run[2] = today
    BY DEF Cases
  <2>2. Assessments[run] = Deliver(Configs[run[1]], Occurrences, Shift(run[2]))
    BY <2>1, AssessmentOf
  <2> QED
    BY <2>1, <2>2 DEF Current
<1>2. PICK i \in DOMAIN rules : RuleFails(shift, rules[i], Occurrences)
  BY <1>1 DEF Deliver, RulesOf
<1> DEFINE rule == rules[i]
<1>3. rule \in Range(rules) /\ rule \in Range(Configs[config])
  BY RulesAreListed
<1> HIDE DEF rules
<1>4. CASE Empty(Window(shift, rule.offsets))
  <2>1. rule.offsets \in [{"start", "end"} -> Int]
    BY <1>3, OffsetsAssumption
  <2> QED
    BY <1>3, <1>4, <2>1, WithoutTime DEF rules
<1>5. ASSUME NEW p \in Range(Points(rule)), Empty(PointWindow(shift, rule, p))
      PROVE  LET offset(side) == IF side \in DOMAIN p.offsets THEN p.offsets[side]
                                 ELSE rule.offsets[side]
             IN  ShiftLength <= offset("start") + offset("end")
  <2> DEFINE o == OffsetsOf(rule, p)
  <2>1. p \in Range(rule.points)
    BY <1>3, PointsAreListed
  <2>2. /\ rule.offsets \in [{"start", "end"} -> Int]
        /\ p.offsets \in [DOMAIN p.offsets -> Int]
    BY <1>3, <2>1, OffsetsAssumption
  <2>3. o \in [{"start", "end"} -> Int]
    BY <2>2 DEF OffsetsOf
  <2>4. Empty(Window(shift, o))
    BY <1>5 DEF PointWindow
  <2>5. ShiftLength <= o["start"] + o["end"]
    <3> HIDE DEF o
    <3> QED
      BY <2>3, <2>4, WithoutTime
  <2> QED
    BY <2>5 DEF OffsetsOf
<1>6. ASSUME Distinct(rule), NEW f \in RunExecution(shift, rule, Occurrences)
      PROVE  InOwnWindow(shift, rule, f)
  BY <1>3, <1>6, FoundInOwnWindow
<1>7. ASSUME NEW f \in RunExecution(shift, rule, Occurrences), UnitScore(rule.scoring, f.event) = {}
      PROVE  \E e \in Occurrences : e.rule = rule.id /\ ScoreOf(rule.scoring, e) = {}
  <2>1. f.event \in Occurrences /\ f.event.rule = rule.id
    BY FoundIs DEF Evaluate
  <2> QED
    BY <1>7, <2>1, MostSpecific
<1> QED
  BY <1>2, <1>3, <1>4, <1>5, <1>6, <1>7 DEF RuleFails, rules

-----------------------------------------------------------------------------
\* The same of lists whose lengths are known.
LEMMA FlattenedListsOnce ==
  ASSUME NEW n \in Nat, NEW seqs, IsList(seqs, n), NEW length,
         \A i \in 1..n : length[i] \in Nat /\ IsList(seqs[i], length[i]),
         NEW f,
         \A i, j \in 1..n : \A a \in 1..length[i], b \in 1..length[j] :
           f[seqs[i][a]] = f[seqs[j][b]] => i = j /\ a = b
  PROVE  \A k, l \in DOMAIN FlattenSeq(seqs) :
           f[FlattenSeq(seqs)[k]] = f[FlattenSeq(seqs)[l]] => k = l
<1> DEFINE X == UNION {{seqs[i][j] : j \in 1..length[i]} : i \in 1..n}
<1>1. ASSUME NEW i \in 1..n
      PROVE  seqs[i] \in Seq(X) /\ DOMAIN seqs[i] = 1..length[i]
  <2> DEFINE s == seqs[i]
             k == length[i]
  <2>1. k \in Nat /\ s = [j \in 1..k |-> s[j]]
    BY DEF IsList
  <2>2. \A j \in 1..k : s[j] \in X
    OBVIOUS
  <2> HIDE DEF s, k, X
  <2>3. s \in [1..k -> X]
    BY <2>1, <2>2
  <2>4. s \in Seq(X) /\ DOMAIN s = 1..k
    BY <2>1, <2>3
  <2> QED
    BY <2>4 DEF s, k
<1> HIDE DEF X
<1>2. \A i, j \in 1..n : \A a \in DOMAIN seqs[i], b \in DOMAIN seqs[j] :
        f[seqs[i][a]] = f[seqs[j][b]] => i = j /\ a = b
  <2>1. ASSUME NEW i \in 1..n, NEW j \in 1..n, NEW a \in DOMAIN seqs[i], NEW b \in DOMAIN seqs[j],
               f[seqs[i][a]] = f[seqs[j][b]]
        PROVE  i = j /\ a = b
    <3>1. a \in 1..length[i] /\ b \in 1..length[j]
      BY <1>1
    <3> QED
      BY <2>1, <3>1
  <2> QED
    BY <2>1
<1> QED
  BY <1>1, <1>2, FlattenedOnce

\* As many as the lists are long.
LEMMA FlattenedListsLength ==
  ASSUME NEW n \in Nat, NEW seqs, IsList(seqs, n), NEW length,
         \A i \in 1..n : length[i] \in Nat /\ IsList(seqs[i], length[i])
  PROVE  Len(FlattenSeq(seqs)) = SumOf(length, 1..n)
<1> DEFINE X == UNION {{seqs[i][j] : j \in 1..length[i]} : i \in 1..n}
           v == [i \in 1..n |-> Len(seqs[i])]
<1>1. ASSUME NEW i \in 1..n
      PROVE  seqs[i] \in Seq(X) /\ Len(seqs[i]) = length[i]
  <2> DEFINE s == seqs[i]
             k == length[i]
  <2>1. k \in Nat /\ s = [j \in 1..k |-> s[j]]
    BY DEF IsList
  <2>2. \A j \in 1..k : s[j] \in X
    OBVIOUS
  <2> HIDE DEF s, k, X
  <2>3. s \in [1..k -> X]
    BY <2>1, <2>2
  <2>4. s \in Seq(X) /\ Len(s) = k
    BY <2>1, <2>3
  <2> QED
    BY <2>4 DEF s, k
<1> HIDE DEF X
<1>2. Len(FlattenSeq(seqs)) = SumOf(v, 1..n)
  BY <1>1, FlattenedLength
<1>3. \A i \in 1..n : v[i] \in Int /\ length[i] = v[i]
  BY <1>1
<1>4. IsFiniteSet(1..n)
  BY FS_Interval
<1> HIDE DEF v
<1> QED
  BY <1>2, <1>3, <1>4, SumsAlike

\* What is enabled of a list is in it once if the list has it once.
LEMMA EnabledOnce ==
  ASSUME NEW X, NEW list \in Seq(X), NEW f,
         \A i, j \in DOMAIN list : f[list[i]] = f[list[j]] => i = j
  PROVE  \A i, j \in DOMAIN Enabled(list) : f[Enabled(list)[i]] = f[Enabled(list)[j]] => i = j
<1> DEFINE n == Len(list)
           seqs == [i \in DOMAIN list |-> IF list[i].enabled THEN <<list[i]>> ELSE <<>>]
<1>1. /\ n \in Nat /\ DOMAIN list = 1..n
      /\ \A i \in 1..n : list[i] \in X
  BY Listing
<1>2. IsList(seqs, n)
  <2> HIDE DEF n
  <2> QED
    BY <1>1 DEF IsList
<1>3. \A i \in 1..n : seqs[i] = IF list[i].enabled THEN <<list[i]>> ELSE <<>>
  BY <1>1
<1>4. Enabled(list) = FlattenSeq(seqs)
  BY DEF Enabled
<1> HIDE DEF seqs, n
<1>5. ASSUME NEW i \in 1..n
      PROVE  /\ seqs[i] \in Seq(X)
             /\ \A a \in DOMAIN seqs[i] : a = 1 /\ seqs[i][a] = list[i]
  <2>1. list[i] \in X
    BY <1>1
  <2>2. <<>> \in Seq(X) /\ <<list[i]>> \in Seq(X)
    BY <2>1
  <2>3. DOMAIN <<list[i]>> = {1} /\ <<list[i]>>[1] = list[i] /\ DOMAIN <<>> = {}
    OBVIOUS
  <2> QED
    BY <1>3, <2>2, <2>3
<1>6. \A i, j \in 1..n : \A a \in DOMAIN seqs[i], b \in DOMAIN seqs[j] :
        f[seqs[i][a]] = f[seqs[j][b]] => i = j /\ a = b
  <2>1. ASSUME NEW i \in 1..n, NEW j \in 1..n, NEW a \in DOMAIN seqs[i], NEW b \in DOMAIN seqs[j],
               f[seqs[i][a]] = f[seqs[j][b]]
        PROVE  i = j /\ a = b
    <3>1. a = 1 /\ b = 1 /\ seqs[i][a] = list[i] /\ seqs[j][b] = list[j]
      BY <1>5
    <3>2. f[list[i]] = f[list[j]]
      BY <2>1, <3>1
    <3> QED
      BY <1>1, <3>1, <3>2
  <2> QED
    BY <2>1
<1> QED
  BY <1>1, <1>2, <1>4, <1>5, <1>6, FlattenedOnce

\* The rules that are assessed have different IDs.
LEMMA RuleIdsDiffer ==
  ASSUME NEW c \in DOMAIN Configs
  PROVE  \A i, j \in DOMAIN RulesOf(c) : RulesOf(c)[i].id = RulesOf(c)[j].id => i = j
<1> DEFINE X == Range(Configs[c])
           f == [rule \in X |-> rule.id]
<1>1. Configs[c] \in Seq(X) /\ \A i \in DOMAIN Configs[c] : Configs[c][i] \in X
  BY ConfigsAssumption DEF Range
<1>2. \A i, j \in DOMAIN Configs[c] : f[Configs[c][i]] = f[Configs[c][j]] => i = j
  BY <1>1, IdsAssumption
<1>3. \A i \in DOMAIN RulesOf(c) : RulesOf(c)[i] \in X
  BY RulesAreListed
<1>4. RulesOf(c) = Enabled(Configs[c])
  BY DEF RulesOf, LoadEnabled
<1>5. \A x \in X : f[x] = x.id
  OBVIOUS
<1> HIDE DEF X, f
<1>6. \A i, j \in DOMAIN RulesOf(c) : f[RulesOf(c)[i]] = f[RulesOf(c)[j]] => i = j
  BY <1>1, <1>2, <1>4, EnabledOnce
<1> QED
  BY <1>3, <1>5, <1>6

\* So have the points of each that are assessed.
LEMMA PointIdsDiffer ==
  ASSUME NEW c \in DOMAIN Configs, NEW rule \in Range(Configs[c]), Distinct(rule)
  PROVE  \A i, j \in DOMAIN Points(rule) : Points(rule)[i].id = Points(rule)[j].id => i = j
<1> DEFINE X == Range(rule.points)
           f == [p \in X |-> p.id]
<1>1. rule.points \in Seq(X) /\ \A i \in DOMAIN rule.points : rule.points[i] \in X
  BY ConfigsAssumption DEF Range
<1>2. \A i, j \in DOMAIN rule.points : f[rule.points[i]] = f[rule.points[j]] => i = j
  BY <1>1 DEF Distinct
<1>3. \A i \in DOMAIN Points(rule) : Points(rule)[i] \in X
  BY PointsAreListed
<1>4. Points(rule) = Enabled(rule.points)
  BY DEF Points
<1>5. \A x \in X : f[x] = x.id
  OBVIOUS
<1> HIDE DEF X, f
<1>6. \A i, j \in DOMAIN Points(rule) : f[Points(rule)[i]] = f[Points(rule)[j]] => i = j
  BY <1>1, <1>2, <1>4, EnabledOnce
<1> QED
  BY <1>3, <1>5, <1>6

\* The points that are drawn, in order: each enabled point of each enabled rule, once.
LEMMA IdentitiesAre ==
  ASSUME NEW c \in DOMAIN Configs
  PROVE  LET ids == Identities(RulesOf(c))
             rules == RulesOf(c)
         IN  /\ Len(ids) \in Nat /\ DOMAIN ids = 1..Len(ids) /\ ids = [i \in 1..Len(ids) |-> ids[i]]
             /\ \A x : x \in Range(ids) <=>
                  \E i \in DOMAIN rules : \E j \in DOMAIN Points(rules[i]) :
                    x = <<rules[i].id, Points(rules[i])[j].id>>
             /\ Range(ids) \subseteq AllKeys
             /\ (\A i \in DOMAIN rules : Distinct(rules[i])) =>
                  \A k, l \in 1..Len(ids) : ids[k] = ids[l] => k = l
<1> DEFINE rules == RulesOf(c)
           n == Len(rules)
           points(i) == Points(rules[i])
           id(i, j) == <<rules[i].id, points(i)[j].id>>
           seqs == [i \in DOMAIN rules |-> [j \in DOMAIN points(i) |-> id(i, j)]]
           length == [i \in 1..n |-> Len(points(i))]
           ids == Identities(rules)
<1>1. n \in Nat /\ DOMAIN rules = 1..n
      /\ \A i \in 1..n : rules[i] \in Range(Configs[c])
  BY RulesAreListed
<1>2. \A i \in 1..n : /\ length[i] \in Nat /\ DOMAIN points(i) = 1..length[i]
                       /\ length[i] = Len(points(i))
  BY <1>1, PointsAreListed
<1>3. ids = FlattenSeq(seqs)
  BY DEF Identities
<1>4. \A i \in 1..n : /\ IsList(seqs[i], length[i])
                       /\ \A j \in 1..length[i] : seqs[i][j] = id(i, j)
  <2>1. ASSUME NEW i \in 1..n
        PROVE  /\ IsList(seqs[i], length[i])
               /\ \A j \in 1..length[i] : seqs[i][j] = id(i, j)
    <3>1. seqs[i] = [j \in 1..length[i] |-> id(i, j)]
      BY <1>1, <1>2
    <3> HIDE DEF seqs, length, n, points, rules, id
    <3> QED
      BY <3>1 DEF IsList
  <2> QED
    BY <2>1
<1>5. IsList(seqs, n)
  <2> HIDE DEF n, rules
  <2> QED
    BY <1>1 DEF IsList
<1>6. \A x : (\E i \in DOMAIN rules : \E j \in DOMAIN points(i) : x = id(i, j))
             <=> \E i \in DOMAIN rules : \E j \in DOMAIN Points(rules[i]) :
                   x = <<rules[i].id, Points(rules[i])[j].id>>
  OBVIOUS
<1>7. ASSUME \A i \in DOMAIN rules : Distinct(rules[i]),
             NEW i \in 1..n, NEW j \in 1..n, NEW a \in 1..length[i], NEW b \in 1..length[j],
             id(i, a) = id(j, b)
      PROVE  i = j /\ a = b
  <2>1. rules[i].id = rules[j].id /\ points(i)[a].id = points(j)[b].id
    BY <1>7
  <2>2. i = j
    BY <1>1, <2>1, RuleIdsDiffer
  <2>3. rules[i] \in Range(Configs[c]) /\ Distinct(rules[i])
    BY <1>1, <1>7
  <2>4. a \in DOMAIN points(i) /\ b \in DOMAIN points(i)
    BY <1>2, <2>2
  <2>5. a = b
    <3> DEFINE rule == rules[i]
    <3>1. rule \in Range(Configs[c]) /\ Distinct(rule)
      BY <2>3
    <3>2. a \in DOMAIN Points(rule) /\ b \in DOMAIN Points(rule)
          /\ Points(rule)[a].id = Points(rule)[b].id
      BY <2>1, <2>2, <2>4
    <3> HIDE DEF rule
    <3> QED
      BY <3>1, <3>2, PointIdsDiffer
  <2> QED
    BY <2>2, <2>5
<1>8. ASSUME NEW i \in 1..n, NEW j \in DOMAIN points(i) PROVE id(i, j) \in AllKeys
  <2>1. ItemOf(rules[i], points(i)[j]) \in Range(Items(Configs[c]))
    BY <1>1, ItemsOfPoints
  <2>2. ItemOf(rules[i], points(i)[j]).key = id(i, j)
    BY DEF ItemOf
  <2> HIDE DEF id, points, rules
  <2> QED
    BY <2>1, <2>2, ItemsAreListed
<1> HIDE DEF seqs, n, length, rules, points, ids, id
<1>9. n \in Nat /\ \A i \in 1..n : length[i] \in Nat /\ IsList(seqs[i], length[i])
  BY <1>1, <1>2, <1>4
<1>10. /\ ids \in Seq(Range(ids))
       /\ Range(ids) = UNION {{seqs[i][j] : j \in 1..length[i]} : i \in 1..n}
  <2> DEFINE all == FlattenSeq(seqs)
             parts == UNION {{seqs[i][j] : j \in 1..length[i]} : i \in 1..n}
  <2>1. all \in Seq(Range(all)) /\ Range(all) = parts
    BY <1>5, <1>9, FlattenedLists
  <2>2. ids = all
    BY <1>3
  <2> HIDE DEF all, parts
  <2>3. ids \in Seq(Range(ids)) /\ Range(ids) = parts
    BY <2>1, <2>2
  <2> QED
    BY <2>3 DEF parts
<1>11. ASSUME NEW x
       PROVE  x \in Range(ids) <=> \E i \in DOMAIN rules : \E j \in DOMAIN points(i) : x = id(i, j)
  <2>1. x \in Range(ids) <=> \E i \in 1..n : x \in {seqs[i][j] : j \in 1..length[i]}
    BY <1>10
  <2>2. \A i \in 1..n : x \in {seqs[i][j] : j \in 1..length[i]}
                          <=> \E j \in DOMAIN points(i) : x = id(i, j)
    BY <1>2, <1>4
  <2> QED
    BY <1>1, <2>1, <2>2
<1>12. Range(ids) \subseteq AllKeys
  <2>1. ASSUME NEW x \in Range(ids) PROVE x \in AllKeys
    <3>1. PICK i \in 1..n : \E j \in DOMAIN points(i) : x = id(i, j)
      BY <1>1, <1>11
    <3> QED
      BY <1>8, <3>1
  <2> QED
    BY <2>1
<1>13. Len(ids) \in Nat /\ DOMAIN ids = 1..Len(ids) /\ ids = [i \in 1..Len(ids) |-> ids[i]]
       /\ \A i \in 1..Len(ids) : ids[i] \in Range(ids)
  BY <1>10, Listing DEF Range
<1>14. ASSUME \A i \in DOMAIN rules : Distinct(rules[i])
       PROVE  \A k, l \in 1..Len(ids) : ids[k] = ids[l] => k = l
  <2> DEFINE f == [x \in AllKeys |-> x]
  <2>1. \A x \in AllKeys : f[x] = x
    OBVIOUS
  <2> HIDE DEF f
  <2>2. ASSUME NEW i \in 1..n, NEW j \in 1..n, NEW a \in 1..length[i], NEW b \in 1..length[j],
               f[seqs[i][a]] = f[seqs[j][b]]
        PROVE  i = j /\ a = b
    <3>1. /\ seqs[i][a] = id(i, a) /\ seqs[j][b] = id(j, b)
          /\ id(i, a) \in AllKeys /\ id(j, b) \in AllKeys
      BY <1>2, <1>4, <1>8
    <3>2. id(i, a) = id(j, b)
      BY <2>1, <2>2, <3>1
    <3> QED
      BY <1>7, <1>14, <3>2
  <2>3. \A k, l \in DOMAIN FlattenSeq(seqs) :
          f[FlattenSeq(seqs)[k]] = f[FlattenSeq(seqs)[l]] => k = l
    <3>1. \A i, j \in 1..n : \A a \in 1..length[i], b \in 1..length[j] :
            f[seqs[i][a]] = f[seqs[j][b]] => i = j /\ a = b
      BY <2>2
    <3>2. n \in Nat
      BY <1>9
    <3>3. \A i \in 1..n : length[i] \in Nat /\ IsList(seqs[i], length[i])
      BY <1>9
    <3> QED
      BY <1>5, <3>1, <3>2, <3>3, FlattenedListsOnce, SMTT(60)
  <2>4. \A k \in 1..Len(ids) : f[ids[k]] = ids[k]
    BY <1>12, <1>13, <2>1
  <2> QED
    BY <1>3, <1>13, <2>3, <2>4
<1> QED
  BY <1>6, <1>11, <1>12, <1>13, <1>14 DEF ids, rules

\* The file names a point may get.
NamesOf(key) == {FileName[key]} \cup Range(Hashed[key])

\* _deduplicate_filename finds a name that is not in use, if there is one.
LEMMA UniqueIs ==
  ASSUME NEW key \in AllKeys, NEW used, NEW name \in Range(Hashed[key]), name \notin used
  PROVE  Unique(key, used) \in NamesOf(key) /\ Unique(key, used) \notin used
<1> DEFINE free == {i \in DOMAIN Hashed[key] : Hashed[key][i] \notin used}
<1>1. CASE FileName[key] \notin used
  BY <1>1 DEF Unique, NamesOf
<1>2. CASE FileName[key] \in used
  <2>1. PICK p \in DOMAIN Hashed[key] : name = Hashed[key][p]
    BY DEF Range
  <2>2. DOMAIN Hashed[key] \subseteq Nat
    <3>1. Hashed[key] \in Seq(Range(Hashed[key]))
      BY NamesAssumption DEF AllKeys
    <3> DEFINE h == Hashed[key]
               R == Range(h)
    <3>2. h \in Seq(R)
      BY <3>1
    <3> HIDE DEF h, R
    <3>3. DOMAIN h \subseteq Nat
      BY <3>2
    <3> QED
      BY <3>3 DEF h
  <2>3. free \subseteq Nat /\ free \subseteq Int /\ free # {}
    BY <2>1, <2>2
  <2> HIDE DEF free
  <2>4. PICK x \in free : \A y \in free : x <= y
    BY <2>3, LeastNumber
  <2>5. Min(free) = x
    BY <2>3, <2>4, LeastIs
  <2>6. Unique(key, used) = Hashed[key][x]
    BY <1>2, <2>5 DEF Unique, free
  <2>7. x \in DOMAIN Hashed[key] /\ Hashed[key][x] \notin used
    BY DEF free
  <2> QED
    BY <2>6, <2>7 DEF NamesOf, Range
<1> QED
  BY <1>1, <1>2

\* The file names of the first i points.
IsNaming(g, n, ids) ==
  g = [i \in 0..n |-> IF i = 0 THEN <<>>
                      ELSE Append(g[i - 1], Unique(ids[i], Range(g[i - 1])))]

\* One point after the other gets a name.
LEMMA NamingExists ==
  ASSUME NEW n \in Nat, NEW ids, \A i \in 1..n : ids[i] \in AllKeys
  PROVE  \E g : IsNaming(g, n, ids)
<1> DEFINE V == UNION {NamesOf(key) \cup {Hashed[key][Min({})]} : key \in AllKeys}
           S == Seq(V)
           empty == <<>>
           next == [i \in 1..n |-> [s \in S |-> Append(s, Unique(ids[i], Range(s)))]]
<1>1. ASSUME NEW key \in AllKeys, NEW used PROVE Unique(key, used) \in V
  <2> DEFINE free == {i \in DOMAIN Hashed[key] : Hashed[key][i] \notin used}
  <2>1. CASE FileName[key] \notin used
    BY <2>1 DEF Unique, NamesOf
  <2>2. CASE FileName[key] \in used /\ free = {}
    <3>1. Unique(key, used) = Hashed[key][Min({})]
      BY <2>2 DEF Unique
    <3> QED
      BY <3>1
  <2>3. CASE FileName[key] \in used /\ free # {}
    <3>1. PICK p \in DOMAIN Hashed[key] : Hashed[key][p] \notin used
      BY <2>3
    <3>2. Hashed[key][p] \in Range(Hashed[key])
      BY DEF Range
    <3>3. Unique(key, used) \in NamesOf(key)
      BY <3>1, <3>2, UniqueIs
    <3> QED
      BY <3>3
  <2> QED
    BY <2>1, <2>2, <2>3
<1> HIDE DEF V
<1>2. ASSUME NEW i \in 1..n, NEW s \in S PROVE Append(s, Unique(ids[i], Range(s))) \in S
  <2>1. Unique(ids[i], Range(s)) \in V
    BY <1>1
  <2> QED
    BY <2>1
<1>3. next \in [1..n -> [S -> S]]
  BY <1>2
<1>4. \A i \in 1..n : \A s \in S : next[i][s] = Append(s, Unique(ids[i], Range(s)))
  OBVIOUS
<1>5. empty \in S
  OBVIOUS
<1> HIDE DEF next, S
<1>6. PICK g : g \in [0..n -> S] /\ g[0] = empty /\ \A i \in 1..n : g[i] = next[i][g[i - 1]]
  <2> HIDE DEF empty
  <2> QED
    BY <1>3, <1>5, Iteration
<1>7. ASSUME NEW i \in 0..n
      PROVE  g[i] = IF i = 0 THEN <<>> ELSE Append(g[i - 1], Unique(ids[i], Range(g[i - 1])))
  <2>1. CASE i = 0
    BY <1>6, <2>1
  <2>2. CASE i # 0
    <3>1. i \in 1..n /\ i - 1 \in 0..n
      BY <2>2
    <3>2. g[i - 1] \in S
      BY <1>6, <3>1
    <3> QED
      BY <1>4, <1>6, <2>2, <3>1, <3>2
  <2> QED
    BY <2>1, <2>2
<1>8. g = [i \in 0..n |-> g[i]]
  BY <1>6
<1>9. IsNaming(g, n, ids)
  BY <1>7, <1>8 DEF IsNaming
<1> QED
  BY <1>9

\* No two points get the same name.
LEMMA NamesDiffer ==
  ASSUME NEW n \in Nat, NEW ids, \A i \in 1..n : ids[i] \in AllKeys,
         \A k, l \in 1..n : ids[k] = ids[l] => k = l,
         NEW g, IsNaming(g, n, ids)
  PROVE  \A k, l \in 1..n : g[n][k] = g[n][l] => k = l
<1> DEFINE Own(i) == \A k \in 1..i : g[i][k] \in NamesOf(ids[k])
           Once(i) == \A k, l \in 1..i : g[i][k] = g[i][l] => k = l
           Sized(i) == g[i] = [k \in 1..i |-> g[i][k]]
           T == {i \in Nat : i \in 0..n => Own(i) /\ Once(i) /\ Sized(i)}
<1>1. /\ g[0] = <<>>
      /\ \A i \in 1..n : g[i] = Append(g[i - 1], Unique(ids[i], Range(g[i - 1])))
  <2>1. g = [i \in 0..n |-> IF i = 0 THEN <<>>
                            ELSE Append(g[i - 1], Unique(ids[i], Range(g[i - 1])))]
    BY DEF IsNaming
  <2>2. 0 \in 0..n /\ \A i \in 1..n : i \in 0..n /\ i # 0
    OBVIOUS
  <2> QED
    BY <2>1, <2>2, Zenon
<1>2. 0 \in T
  BY <1>1
<1>3. ASSUME NEW i \in Nat, i \in T PROVE i + 1 \in T
  <2> HIDE DEF Own, Once, Sized
  <2> SUFFICES ASSUME i + 1 \in 0..n PROVE Own(i + 1) /\ Once(i + 1) /\ Sized(i + 1)
    OBVIOUS
  <2>1. i \in 0..n /\ i + 1 \in 1..n /\ (i + 1) - 1 = i
    OBVIOUS
  <2>2. Own(i) /\ Once(i) /\ Sized(i)
    BY <1>3, <2>1
  <2> DEFINE s == g[i]
             key == ids[i + 1]
             used == Range(s)
             u == g[i + 1]
  <2>3. u = Append(s, Unique(key, used))
    BY <1>1, <2>1
  <2>4. \A k \in 1..i : s[k] \in NamesOf(ids[k])
    BY <2>2 DEF Own
  <2>5. \A k, l \in 1..i : s[k] = s[l] => k = l
    BY <2>2 DEF Once
  <2>6. s = [k \in 1..i |-> s[k]]
    BY <2>2 DEF Sized
  <2> HIDE DEF T, s, u, used, key
  <2>7. key \in AllKeys /\ \A k \in 1..i : ids[k] \in AllKeys /\ ids[k] # key
    <3>1. \A k \in 1..i : k \in 1..n /\ k # i + 1
      BY <2>1
    <3> QED
      BY <2>1, <3>1 DEF key
  <2>8. PICK name \in Range(Hashed[key]) : \A other \in AllKeys \ {key} :
          name # FileName[other] /\ name \notin Range(Hashed[other])
    BY <2>7, NamesAssumption DEF AllKeys
  <2>9. used = {s[k] : k \in 1..i}
    <3>1. DOMAIN s = 1..i
      BY <2>6
    <3> QED
      BY <3>1 DEF used, Range
  <2>10. name \notin used
    <3> SUFFICES ASSUME NEW k \in 1..i, name = s[k] PROVE FALSE
      BY <2>9
    <3> QED
      BY <2>4, <2>7, <2>8 DEF NamesOf
  <2> DEFINE new == Unique(key, used)
  <2>11. new \in NamesOf(key) /\ new \notin used
    BY <2>7, <2>10, UniqueIs
  <2>12. u = [k \in 1..(i + 1) |-> IF k <= i THEN s[k] ELSE new]
    <3> DEFINE R == {s[k] : k \in 1..i} \cup {new}
    <3> HIDE DEF new
    <3>1. new \in R /\ \A k \in 1..i : s[k] \in R
      OBVIOUS
    <3> HIDE DEF R
    <3>2. s \in [1..i -> R]
      BY <2>6, <3>1
    <3>3. s \in Seq(R) /\ Len(s) = i
      BY <3>2
    <3>4. u = Append(s, new)
      BY <2>3 DEF new
    <3>5. /\ u \in Seq(R) /\ Len(u) = i + 1
          /\ \A k \in 1..(i + 1) : u[k] = IF k <= i THEN s[k] ELSE new
      BY <3>1, <3>3, <3>4
    <3>6. u = [k \in 1..(i + 1) |-> u[k]]
      BY <3>5
    <3> QED
      BY <3>5, <3>6
  <2> HIDE DEF new
  <2>13. i + 1 \in 1..(i + 1) /\ u[i + 1] = new /\ \A k \in 1..i : k \in 1..(i + 1) /\ u[k] = s[k]
    BY <2>12
  <2>14. \A k \in 1..(i + 1) : k \in 1..i \/ k = i + 1
    OBVIOUS
  <2>15. Own(i + 1)
    BY <2>4, <2>11, <2>13, <2>14 DEF Own, u, key
  <2>16. Once(i + 1)
    <3>1. \A k \in 1..i : s[k] # new
      BY <2>9, <2>11
    <3> SUFFICES ASSUME NEW k \in 1..(i + 1), NEW l \in 1..(i + 1), u[k] = u[l] PROVE k = l
      BY DEF Once, u
    <3> QED
      BY <2>5, <2>13, <2>14, <3>1
  <2>17. Sized(i + 1)
    <3>1. u = [k \in 1..(i + 1) |-> u[k]]
      BY <2>12
    <3> QED
      BY <3>1 DEF Sized, u
  <2> QED
    BY <2>15, <2>16, <2>17
<1> HIDE DEF T
<1>4. Nat \subseteq T
  BY <1>2, <1>3, SetInduction
<1>5. n \in T /\ n \in 0..n
  BY <1>4
<1> HIDE DEF Own, Sized, Once
<1>6. Once(n)
  BY <1>5 DEF T
<1> QED
  BY <1>6 DEF Once

\* Every point has an image of its own, whatever its file is called.
LEMMA ImagesDiffer ==
  ASSUME NEW c \in DOMAIN Configs, \A i \in DOMAIN RulesOf(c) : Distinct(RulesOf(c)[i])
  PROVE  LET ids == Identities(RulesOf(c))
             image == Images(RulesOf(c))
         IN  \A x, y \in Range(ids) : image[x] = image[y] => x = y
<1> DEFINE rules == RulesOf(c)
           ids == Identities(rules)
           n == Len(ids)
           naming == CHOOSE g : IsNaming(g, n, ids)
           places(x) == {i \in 1..n : ids[i] = x}
           image == Images(rules)
<1>1. image = [x \in Range(ids) |->
                 naming[n][IF places(x) # {} THEN Min(places(x)) ELSE 0]]
  BY DEF Images, IsNaming, SelectInSeq
<1>2. /\ n \in Nat /\ DOMAIN ids = 1..n /\ Range(ids) \subseteq AllKeys
      /\ \A k, l \in 1..n : ids[k] = ids[l] => k = l
  BY IdentitiesAre
<1> HIDE DEF ids, n, rules, image
<1>3. \A i \in 1..n : ids[i] \in AllKeys
  BY <1>2 DEF Range
<1>4. IsNaming(naming, n, ids)
  BY <1>2, <1>3, NamingExists
<1> HIDE DEF naming
<1>5. \A k, l \in 1..n : naming[n][k] = naming[n][l] => k = l
  BY <1>2, <1>3, <1>4, NamesDiffer
<1>6. ASSUME NEW x \in Range(ids)
      PROVE  \E k \in 1..n : ids[k] = x /\ image[x] = naming[n][k]
  <2>1. PICK k \in 1..n : ids[k] = x
    BY <1>2 DEF Range
  <2>2. places(x) = {k}
    BY <1>2, <2>1
  <2>3. Min(places(x)) = k
    <3>1. k \in places(x) /\ places(x) \subseteq Int /\ \A y \in places(x) : k <= y
      BY <2>2
    <3> HIDE DEF places
    <3> QED
      BY <3>1, LeastIs
  <2> HIDE DEF places
  <2>4. image[x] = naming[n][k]
    BY <1>1, <2>2, <2>3
  <2> QED
    BY <2>1, <2>4
<1>7. ASSUME NEW x \in Range(ids), NEW y \in Range(ids), image[x] = image[y]
      PROVE  x = y
  <2>1. PICK k \in 1..n : ids[k] = x /\ image[x] = naming[n][k]
    BY <1>6
  <2>2. PICK l \in 1..n : ids[l] = y /\ image[y] = naming[n][l]
    BY <1>6
  <2> QED
    BY <1>5, <1>7, <2>1, <2>2
<1> QED
  BY <1>7 DEF ids, image, rules

\* The file a point's image names has the chart of the point.
LEMMA DrawnIs ==
  ASSUME NEW c \in DOMAIN Configs, \A i \in DOMAIN RulesOf(c) : Distinct(RulesOf(c)[i]),
         NEW x \in Range(Identities(RulesOf(c)))
  PROVE  LET image == Images(RulesOf(c))
             charts == Drawn(RulesOf(c))
         IN  image[x] \in DOMAIN charts /\ charts[image[x]] = x
<1> DEFINE rules == RulesOf(c)
           ids == Identities(rules)
           n == Len(ids)
           places(name) == {i \in 1..n : Images(rules)[ids[i]] = name}
           image == Images(rules)
           charts == Drawn(rules)
<1>1. charts = [name \in {image[id] : id \in Range(ids)} |->
                  ids[IF places(name) # {} THEN Max(places(name)) ELSE 0]]
  BY DEF Drawn, SelectLastInSeq
<1>2. n \in Nat /\ DOMAIN ids = 1..n /\ \A k, l \in 1..n : ids[k] = ids[l] => k = l
  BY IdentitiesAre
<1>3. \A y, z \in Range(ids) : image[y] = image[z] => y = z
  BY ImagesDiffer
<1> HIDE DEF rules, ids, n, charts
<1>4. PICK k \in 1..n : ids[k] = x
  BY <1>2 DEF Range, ids, rules
<1>5. places(image[x]) = {k}
  <2>1. \A i \in 1..n : ids[i] \in Range(ids)
    BY <1>2 DEF Range
  <2>2. \A i \in 1..n : Images(rules)[ids[i]] = image[x] => i = k
    BY <1>2, <1>3, <1>4, <2>1
  <2> QED
    BY <1>4, <2>2
<1>6. Max({k}) = k
  BY DEF Max
<1>7. x \in Range(ids)
  BY DEF ids, rules
<1> HIDE DEF places, image
<1>8. image[x] \in DOMAIN charts /\ charts[image[x]] = x
  BY <1>1, <1>4, <1>5, <1>6, <1>7
<1> QED
  BY <1>8 DEF charts, image, rules

-----------------------------------------------------------------------------
\* The sums in a document: of the counts of its rules, or of the points of a rule, ...
LEMMA SumOfCountFields ==
  ASSUME NEW seq, IsFiniteSet(DOMAIN seq), \A i \in DOMAIN seq : seq[i].count \in Int
  PROVE  MapThenSumSet(LAMBDA i : seq[i].count, DOMAIN seq)
           = SumOf([i \in DOMAIN seq |-> seq[i].count], DOMAIN seq)
<1> DEFINE S == DOMAIN seq
           v == [i \in S |-> seq[i].count]
           Folds(g) == g = [s \in SUBSET S |-> IF s = {} THEN 0
                              ELSE seq[Pick(s)].count + g[s \ {Pick(s)}]]
           g == CHOOSE h : Folds(h)
<1>1. MapThenSumSet(LAMBDA i : seq[i].count, S) = g[S]
  BY DEF MapThenSumSet, MapThenFoldSet, Pick
<1> HIDE DEF S
<1>2. \A s \in SUBSET S : s # {} => v[Pick(s)] = seq[Pick(s)].count
  BY Picked
<1>3. IsFiniteSet(S) /\ \A x \in S : v[x] \in Int
  BY DEF S
<1> HIDE DEF v
<1>4. \A h : Folds(h) <=> Sums(h, v, S)
  BY <1>2 DEF Sums
<1>5. (\E h : Sums(h, v, S)) /\ \A h : Sums(h, v, S) => h[S] = SumOf(v, S)
  BY <1>3, SumsFound
<1> HIDE DEF Folds
<1>6. g[S] = SumOf(v, S)
  BY <1>4, <1>5
<1> HIDE DEF g
<1> QED
  BY <1>1, <1>6 DEF S, v

\* ... of their scores, ...
LEMMA SumOfScoreFields ==
  ASSUME NEW seq, IsFiniteSet(DOMAIN seq), \A i \in DOMAIN seq : seq[i].score \in Int
  PROVE  MapThenSumSet(LAMBDA i : seq[i].score, DOMAIN seq)
           = SumOf([i \in DOMAIN seq |-> seq[i].score], DOMAIN seq)
<1> DEFINE S == DOMAIN seq
           v == [i \in S |-> seq[i].score]
           Folds(g) == g = [s \in SUBSET S |-> IF s = {} THEN 0
                              ELSE seq[Pick(s)].score + g[s \ {Pick(s)}]]
           g == CHOOSE h : Folds(h)
<1>1. MapThenSumSet(LAMBDA i : seq[i].score, S) = g[S]
  BY DEF MapThenSumSet, MapThenFoldSet, Pick
<1> HIDE DEF S
<1>2. \A s \in SUBSET S : s # {} => v[Pick(s)] = seq[Pick(s)].score
  BY Picked
<1>3. IsFiniteSet(S) /\ \A x \in S : v[x] \in Int
  BY DEF S
<1> HIDE DEF v
<1>4. \A h : Folds(h) <=> Sums(h, v, S)
  BY <1>2 DEF Sums
<1>5. (\E h : Sums(h, v, S)) /\ \A h : Sums(h, v, S) => h[S] = SumOf(v, S)
  BY <1>3, SumsFound
<1> HIDE DEF Folds
<1>6. g[S] = SumOf(v, S)
  BY <1>4, <1>5
<1> HIDE DEF g
<1> QED
  BY <1>1, <1>6 DEF S, v

\* ... of how many points the rules have, ...
LEMMA SumOfPointLists ==
  ASSUME NEW seq, IsFiniteSet(DOMAIN seq), \A i \in DOMAIN seq : Len(seq[i].points) \in Int
  PROVE  MapThenSumSet(LAMBDA i : Len(seq[i].points), DOMAIN seq)
           = SumOf([i \in DOMAIN seq |-> Len(seq[i].points)], DOMAIN seq)
<1> DEFINE S == DOMAIN seq
           v == [i \in S |-> Len(seq[i].points)]
           Folds(g) == g = [s \in SUBSET S |-> IF s = {} THEN 0
                              ELSE Len(seq[Pick(s)].points) + g[s \ {Pick(s)}]]
           g == CHOOSE h : Folds(h)
<1>1. MapThenSumSet(LAMBDA i : Len(seq[i].points), S) = g[S]
  BY DEF MapThenSumSet, MapThenFoldSet, Pick
<1> HIDE DEF S
<1>2. \A s \in SUBSET S : s # {} => v[Pick(s)] = Len(seq[Pick(s)].points)
  BY Picked
<1>3. IsFiniteSet(S) /\ \A x \in S : v[x] \in Int
  BY DEF S
<1> HIDE DEF v
<1>4. \A h : Folds(h) <=> Sums(h, v, S)
  BY <1>2 DEF Sums
<1>5. (\E h : Sums(h, v, S)) /\ \A h : Sums(h, v, S) => h[S] = SumOf(v, S)
  BY <1>3, SumsFound
<1> HIDE DEF Folds
<1>6. g[S] = SumOf(v, S)
  BY <1>4, <1>5
<1> HIDE DEF g
<1> QED
  BY <1>1, <1>6 DEF S, v

\* ... of the scores of deductions, ...
LEMMA SumOfDeductions ==
  ASSUME NEW S, IsFiniteSet(S), \A x \in S : x.score \in Int
  PROVE  MapThenSumSet(LAMBDA x : x.score, S)
           = SumOf([x \in S |-> x.score], S)
<1> DEFINE v == [x \in S |-> x.score]
           Folds(g) == g = [s \in SUBSET S |-> IF s = {} THEN 0
                              ELSE Pick(s).score + g[s \ {Pick(s)}]]
           g == CHOOSE h : Folds(h)
<1>1. MapThenSumSet(LAMBDA x : x.score, S) = g[S]
  BY DEF MapThenSumSet, MapThenFoldSet, Pick
<1>2. \A s \in SUBSET S : s # {} => v[Pick(s)] = Pick(s).score
  BY Picked
<1>3. IsFiniteSet(S) /\ \A x \in S : v[x] \in Int
  OBVIOUS
<1> HIDE DEF v
<1>4. \A h : Folds(h) <=> Sums(h, v, S)
  BY <1>2 DEF Sums
<1>5. (\E h : Sums(h, v, S)) /\ \A h : Sums(h, v, S) => h[S] = SumOf(v, S)
  BY <1>3, SumsFound
<1> HIDE DEF Folds
<1>6. g[S] = SumOf(v, S)
  BY <1>4, <1>5
<1> HIDE DEF g
<1> QED
  BY <1>1, <1>6 DEF v

\* ... and of what the events that are found cost.
LEMMA SumOfFoundScores ==
  ASSUME NEW S, NEW scoring, IsFiniteSet(S), \A f \in S : Score(scoring, f.event) \in Int
  PROVE  MapThenSumSet(LAMBDA f : Score(scoring, f.event), S)
           = SumOf([f \in S |-> Score(scoring, f.event)], S)
<1> DEFINE v == [f \in S |-> Score(scoring, f.event)]
           Folds(g) == g = [s \in SUBSET S |-> IF s = {} THEN 0
                              ELSE Score(scoring, Pick(s).event) + g[s \ {Pick(s)}]]
           g == CHOOSE h : Folds(h)
<1>1. MapThenSumSet(LAMBDA f : Score(scoring, f.event), S) = g[S]
  BY DEF MapThenSumSet, MapThenFoldSet, Pick
<1>2. \A s \in SUBSET S : s # {} => v[Pick(s)] = Score(scoring, Pick(s).event)
  BY Picked
<1>3. IsFiniteSet(S) /\ \A x \in S : v[x] \in Int
  OBVIOUS
<1> HIDE DEF v
<1>4. \A h : Folds(h) <=> Sums(h, v, S)
  BY <1>2 DEF Sums
<1>5. (\E h : Sums(h, v, S)) /\ \A h : Sums(h, v, S) => h[S] = SumOf(v, S)
  BY <1>3, SumsFound
<1> HIDE DEF Folds
<1>6. g[S] = SumOf(v, S)
  BY <1>4, <1>5
<1> HIDE DEF g
<1> QED
  BY <1>1, <1>6 DEF v

\* What a document says of all its rules.
LEMMA DocumentCounts ==
  ASSUME NEW c \in DOMAIN Configs, NEW d,
         NEW doc \in Deliver(Configs[c], Occurrences, Shift(d))
  PROVE  /\ doc.charts = Drawn(RulesOf(c))
         /\ doc.ruleCount = Len(doc.rules)
         /\ doc.pointCount = MapThenSumSet(LAMBDA i : Len(doc.rules[i].points), DOMAIN doc.rules)
         /\ doc.eventCount = MapThenSumSet(LAMBDA i : doc.rules[i].count, DOMAIN doc.rules)
         /\ doc.total = MapThenSumSet(LAMBDA i : doc.rules[i].score, DOMAIN doc.rules)
<1> DEFINE rules == RulesOf(c)
           results == <<>> \o [i \in DOMAIN rules |->
                       RuleResult(Shift(d), rules[i], Occurrences, Images(rules))]
           fails == \/ ~Loads(Configs[c])
                    \/ \E i \in DOMAIN rules : RuleFails(Shift(d), rules[i], Occurrences)
           content(r) == [rules |-> r, ruleCount |-> Len(r), charts |-> Drawn(rules),
                       pointCount |-> MapThenSumSet(LAMBDA i : Len(r[i].points), DOMAIN r),
                       eventCount |-> MapThenSumSet(LAMBDA i : r[i].count, DOMAIN r),
                       total |-> MapThenSumSet(LAMBDA i : r[i].score, DOMAIN r)]
<1>1. Deliver(Configs[c], Occurrences, Shift(d)) = IF fails THEN {} ELSE {content(results)}
  BY DEF Deliver, RulesOf, Each
<1>2. content(results).rules = results
  OBVIOUS
<1> HIDE DEF results, fails
<1>3. doc = content(results)
  <2> HIDE DEF content
  <2> QED
    BY <1>1
<1>4. doc.rules = results
  BY <1>2, <1>3
<1>5. doc = content(doc.rules)
  <2> HIDE DEF content
  <2> QED
    BY <1>3, <1>4
<1> DEFINE listed == doc.rules
<1>6. doc = content(listed)
  BY <1>5
<1> HIDE DEF listed
<1>7. /\ doc.charts = Drawn(rules)
      /\ doc.ruleCount = Len(listed)
      /\ doc.pointCount = MapThenSumSet(LAMBDA i : Len(listed[i].points), DOMAIN listed)
      /\ doc.eventCount = MapThenSumSet(LAMBDA i : listed[i].count, DOMAIN listed)
      /\ doc.total = MapThenSumSet(LAMBDA i : listed[i].score, DOMAIN listed)
  BY <1>6
<1> QED
  BY <1>7 DEF listed

\* What the line of a point says besides.
LEMMA PointLineSays ==
  ASSUME NEW c \in DOMAIN Configs, NEW d, NEW i, NEW j
  PROVE  LET line == PointLine(d, RulesOf(c), i, j)
         IN  /\ line.point = Points(RulesOf(c)[i])[j].id
             /\ line.count = Cardinality(line.events)
             /\ line.status = IF line.events # {} THEN "violation" ELSE "normal"
BY DEF PointLine, PointResult, Status

\* Its image is the one drawn for the point.
LEMMA PointLineImage ==
  ASSUME NEW c \in DOMAIN Configs, NEW d, NEW i, NEW j
  PROVE  PointLine(d, RulesOf(c), i, j).image
           = Images(RulesOf(c))[<<RulesOf(c)[i].id, Points(RulesOf(c)[i])[j].id>>]
BY DEF PointLine, PointResult

\* What the line of a rule says of all its points.
LEMMA RuleLineSays ==
  ASSUME NEW shift, NEW rule, NEW image
  PROVE  LET found == RunExecution(shift, rule, Occurrences)
             line == RuleResult(shift, rule, Occurrences, image)
         IN  /\ line.count = Cardinality(found)
             /\ line.score = MapThenSumSet(LAMBDA f : Score(rule.scoring, f.event), found)
BY DEF RuleResult

\* No point is twice in a document, and it has as many as its rules have together.
LEMMA PointsOnce ==
  ASSUME NEW c \in DOMAIN Configs, NEW d,
         NEW doc \in Deliver(Configs[c], Occurrences, Shift(d))
  PROVE  /\ NoDuplicates(PointsOf(doc))
         /\ Len(PointsOf(doc)) = SumOf([i \in DOMAIN doc.rules |-> Len(doc.rules[i].points)],
                                       DOMAIN doc.rules)
<1> DEFINE rules == RulesOf(c)
           n == Len(rules)
           size(i) == Len(Points(rules[i]))
           length == [i \in 1..n |-> size(i)]
           seqs == [i \in DOMAIN doc.rules |->
                      [j \in DOMAIN doc.rules[i].points |->
                         <<doc.rules[i].rule, doc.rules[i].points[j]>>]]
           entry(i, j) == <<rules[i].id, PointLine(d, rules, i, j)>>
           all == PointsOf(doc)
           X == UNION {{entry(i, j) : j \in 1..size(i)} : i \in 1..n}
           key == [x \in X |-> Key(x)]
<1>1. /\ n \in Nat /\ DOMAIN rules = 1..n
      /\ \A i \in 1..n : /\ size(i) \in Nat /\ DOMAIN Points(rules[i]) = 1..size(i)
                         /\ rules[i] \in Range(Configs[c])
  BY RulesAreListed, PointsAreListed
<1>2. /\ doc.rules = [i \in DOMAIN rules |->
                        RuleResult(Shift(d), rules[i], Occurrences, Images(rules))]
      /\ \A i \in DOMAIN rules : ~RuleFails(Shift(d), rules[i], Occurrences)
  BY DocumentOf
<1>3. DOMAIN doc.rules = 1..n
  BY <1>1, <1>2
<1>4. ASSUME NEW i \in 1..n
      PROVE  /\ doc.rules[i].rule = rules[i].id
             /\ doc.rules[i].points = [j \in 1..size(i) |-> PointLine(d, rules, i, j)]
  <2>1. doc.rules[i] = RuleResult(Shift(d), rules[i], Occurrences, Images(rules))
    BY <1>1, <1>2
  <2> QED
    BY <1>1, <2>1, RuleLine
<1>5. all = FlattenSeq(seqs)
  BY DEF PointsOf
<1>6. \A i \in 1..n : seqs[i] = [j \in 1..size(i) |-> entry(i, j)]
  <2>1. ASSUME NEW i \in 1..n PROVE seqs[i] = [j \in 1..size(i) |-> entry(i, j)]
    <3> HIDE DEF rules, n, size
    <3> QED
      BY <1>3, <1>4
  <2> QED
    BY <2>1
<1>7. \A i \in 1..n : Len(doc.rules[i].points) = size(i)
  <2>1. ASSUME NEW i \in 1..n PROVE Len(doc.rules[i].points) = size(i)
    <3> DEFINE listed == doc.rules[i].points
    <3>1. listed = [j \in 1..size(i) |-> PointLine(d, rules, i, j)] /\ size(i) \in Nat
      BY <1>1, <1>4
    <3> HIDE DEF rules, size, listed
    <3>2. Len(listed) = size(i)
      BY <3>1
    <3> QED
      BY <3>2 DEF listed
  <2> QED
    BY <2>1
<1>8. IsList(seqs, n)
  <2> HIDE DEF rules, n
  <2> QED
    BY <1>3 DEF IsList
<1>9. \A i \in 1..n : length[i] = size(i) /\ size(i) \in Nat
  BY <1>1
<1>10. ASSUME NEW i \in 1..n, NEW j \in 1..n, NEW a \in 1..size(i), NEW b \in 1..size(j),
              Key(entry(i, a)) = Key(entry(j, b))
       PROVE  i = j /\ a = b
  <2>1. rules[i].id = rules[j].id /\ Points(rules[i])[a].id = Points(rules[j])[b].id
    <3>0. \A k, l : PointLine(d, rules, k, l).point = Points(rules[k])[l].id
      BY PointLineSays
    <3>1. PointLine(d, rules, i, a).point = Points(rules[i])[a].id
      BY <3>0
    <3>2. PointLine(d, rules, j, b).point = Points(rules[j])[b].id
      BY <3>0
    <3> HIDE DEF rules
    <3> QED
      BY <1>10, <3>1, <3>2 DEF Key
  <2>2. i = j
    BY <1>1, <2>1, RuleIdsDiffer
  <2> DEFINE rule == rules[i]
  <2>3. rule \in Range(Configs[c]) /\ Distinct(rule)
    BY <1>1, <1>2 DEF RuleFails
  <2>4. a \in DOMAIN Points(rule) /\ b \in DOMAIN Points(rule)
        /\ Points(rule)[a].id = Points(rule)[b].id
    BY <1>1, <2>1, <2>2
  <2> HIDE DEF rule
  <2>5. a = b
    BY <2>3, <2>4, PointIdsDiffer
  <2> QED
    BY <2>2, <2>5
<1> HIDE DEF rules, n, size, length, seqs, entry, all
<1>11. ASSUME NEW i \in 1..n, NEW a \in 1..size(i)
       PROVE  seqs[i][a] = entry(i, a) /\ key[seqs[i][a]] = Key(entry(i, a))
  <2>1. entry(i, a) \in X
    OBVIOUS
  <2> HIDE DEF X
  <2>2. seqs[i][a] = entry(i, a)
    BY <1>6
  <2> QED
    BY <2>1, <2>2
<1>12. \A i \in 1..n : length[i] \in Nat /\ IsList(seqs[i], length[i])
  BY <1>6, <1>9 DEF IsList
<1>13. n \in Nat
  BY <1>1
<1>14. Len(all) = SumOf(length, 1..n)
  BY <1>5, <1>8, <1>12, <1>13, FlattenedListsLength
<1>15. \A k, l \in DOMAIN FlattenSeq(seqs) :
         key[FlattenSeq(seqs)[k]] = key[FlattenSeq(seqs)[l]] => k = l
  <2> HIDE DEF key
  <2>1. \A i, j \in 1..n : \A a \in 1..length[i], b \in 1..length[j] :
          key[seqs[i][a]] = key[seqs[j][b]] => i = j /\ a = b
    BY <1>9, <1>10, <1>11
  <2> QED
    BY <1>8, <1>12, <1>13, <2>1, FlattenedListsOnce
<1>16. \A k \in DOMAIN all : all[k] \in X
  <2>1. /\ FlattenSeq(seqs) \in Seq(Range(FlattenSeq(seqs)))
        /\ Range(FlattenSeq(seqs)) = UNION {{seqs[i][j] : j \in 1..length[i]} : i \in 1..n}
    <3> DEFINE whole == FlattenSeq(seqs)
               parts == UNION {{seqs[i][j] : j \in 1..length[i]} : i \in 1..n}
    <3>1. whole \in Seq(Range(whole)) /\ Range(whole) = parts
      BY <1>8, <1>12, <1>13, FlattenedLists
    <3> QED
      BY <3>1
  <2>2. \A x \in UNION {{seqs[i][j] : j \in 1..length[i]} : i \in 1..n} : x \in X
    <3>1. ASSUME NEW i \in 1..n, NEW j \in 1..length[i] PROVE seqs[i][j] \in X
      <4>1. j \in 1..size(i)
        BY <1>9
      <4>2. seqs[i][j] = entry(i, j)
        BY <1>11, <4>1
      <4> QED
        BY <4>1, <4>2
    <3> HIDE DEF X
    <3> QED
      BY <3>1
  <2> HIDE DEF X
  <2> QED
    BY <1>5, <2>1, <2>2 DEF Range
<1>17. NoDuplicates(all)
  <2> HIDE DEF X
  <2>1. \A k \in DOMAIN all : key[all[k]] = Key(all[k])
    BY <1>16
  <2> HIDE DEF key
  <2> QED
    BY <1>5, <1>15, <2>1 DEF NoDuplicates
<1>18. length = [i \in DOMAIN doc.rules |-> Len(doc.rules[i].points)]
  BY <1>3, <1>7, <1>9 DEF length
<1> QED
  BY <1>3, <1>14, <1>17, <1>18 DEF all

\* What is found is an event and the window of a point that has it.
LEMMA FoundOf ==
  ASSUME NEW shift, NEW rule, NEW f \in RunExecution(shift, rule, Occurrences)
  PROVE  /\ f = [event |-> f.event, window |-> f.window] /\ f.event \in Occurrences
         /\ \E p \in Range(Points(rule)) : f.event.point = p.id
<1>1. PICK g \in Groups(shift, rule) :
        /\ f = [event |-> f.event, window |-> g.window] /\ f.window = g.window
        /\ f.event.point \in g.ids /\ f.event \in Evaluate(rule, Occurrences, g.window, g.ids)
  BY FoundIs
<1>2. PICK w : g = [window |-> w, ids |-> {p.id : p \in {q \in Range(Points(rule)) :
                                                        PointWindow(shift, rule, q) = w}}]
  BY DEF Groups
<1>3. f.event \in Occurrences
  BY <1>1 DEF Evaluate
<1> QED
  BY <1>1, <1>2, <1>3

\* An event is found once, and finitely many are.
LEMMA FoundOnce ==
  ASSUME NEW c \in DOMAIN Configs, NEW rule \in Range(Configs[c]), Distinct(rule), NEW shift
  PROVE  LET found == RunExecution(shift, rule, Occurrences)
         IN  /\ IsFiniteSet(found)
             /\ \A f, g \in found : f.event = g.event => f = g
<1> DEFINE found == RunExecution(shift, rule, Occurrences)
<1>1. ASSUME NEW f \in found, NEW g \in found, f.event = g.event
      PROVE  f = g
  <2>1. PICK p \in Range(Points(rule)) : f.event.point = p.id
    BY FoundOf
  <2>2. f.window = PointWindow(shift, rule, p)
    BY <2>1, FoundInOwnWindow DEF InOwnWindow
  <2>3. g.window = PointWindow(shift, rule, p)
    BY <1>1, <2>1, FoundInOwnWindow DEF InOwnWindow
  <2>4. f = [event |-> f.event, window |-> f.window] /\ g = [event |-> g.event, window |-> g.window]
    BY FoundOf
  <2> QED
    BY <1>1, <2>2, <2>3, <2>4
<1>2. \A f \in found : f.event \in Occurrences
  BY FoundOf
<1>3. IsFiniteSet(found)
  <2> DEFINE h == [f \in found |-> f.event]
  <2> HIDE DEF found
  <2>1. h \in Injection(found, Occurrences)
    BY <1>1, <1>2 DEF Injection, IsInjective
  <2> HIDE DEF h
  <2> QED
    BY <2>1, ScoringAssumption, FS_Injection
<1> QED
  BY <1>1, <1>3

\* A sum over all that a rule finds is the sum of the sums over the events of its points.
LEMMA SumByPoints ==
  ASSUME NEW c \in DOMAIN Configs, NEW rule \in Range(Configs[c]), Distinct(rule), NEW shift,
         NEW u, \A f \in RunExecution(shift, rule, Occurrences) : u[f.event] \in Int
  PROVE  LET found == RunExecution(shift, rule, Occurrences)
         IN  SumOf([f \in found |-> u[f.event]], found)
               = SumOf([j \in DOMAIN Points(rule) |->
                          SumOf(u, EventsFound(shift, rule, Points(rule)[j]))],
                       DOMAIN Points(rule))
<1> DEFINE found == RunExecution(shift, rule, Occurrences)
           J == DOMAIN Points(rule)
           point(j) == Points(rule)[j]
           events(j) == EventsFound(shift, rule, point(j))
           v == [f \in found |-> u[f.event]]
           place == [f \in found |-> CHOOSE j \in J : f.event.point = point(j).id]
           part(j) == {f \in found : place[f] = j}
           parts == [j \in J |-> SumOf(v, part(j))]
<1>1. /\ IsFiniteSet(found)
      /\ \A f, g \in found : f.event = g.event => f = g
  BY FoundOnce
<1>2. IsFiniteSet(J) /\ \A i, j \in J : point(i).id = point(j).id => i = j
  <2>1. Len(Points(rule)) \in Nat /\ J = 1..Len(Points(rule))
    BY PointsAreListed
  <2>2. IsFiniteSet(J)
    BY <2>1, FS_Interval
  <2> QED
    BY <2>2, PointIdsDiffer
<1>3. ASSUME NEW f \in found
      PROVE  place[f] \in J /\ f.event.point = point(place[f]).id
  <2>1. PICK p \in Range(Points(rule)) : f.event.point = p.id
    BY FoundOf
  <2>2. \E j \in J : f.event.point = point(j).id
    BY <2>1 DEF Range
  <2> HIDE DEF J, point, found
  <2> QED
    BY <2>2
<1>4. \A j \in J : events(j) = {f.event : f \in {g \in found : g.event.point = point(j).id}}
  BY DEF EventsFound
<1>5. \A f \in found : v[f] \in Int /\ v[f] = u[f.event]
  OBVIOUS
<1> HIDE DEF found, J, events, place, v
<1>6. \A j \in J : part(j) = {f \in found : f.event.point = point(j).id}
  BY <1>2, <1>3
<1>7. SumOf(v, found) = SumOf(parts, J)
  <2>1. \A f \in found : v[f] \in Int
    BY <1>5
  <2>2. \A f \in found : place[f] \in J
    BY <1>3
  <2>3. IsFiniteSet(found) /\ IsFiniteSet(J)
    BY <1>1, <1>2
  <2> QED
    BY <2>1, <2>2, <2>3, SumOfParts
<1>8. ASSUME NEW j \in J PROVE SumOf(v, part(j)) = SumOf(u, events(j))
  <2> DEFINE P == part(j)
             E == events(j)
             f == [x \in P |-> x.event]
  <2>1. P \subseteq found /\ \A x \in P : f[x] = x.event
    OBVIOUS
  <2>2. E = {x.event : x \in P}
    BY <1>4, <1>6
  <2>3. IsFiniteSet(P)
    BY <1>1, <2>1, FS_Subset
  <2>4. IsFiniteSet(E)
    <3>1. f \in Surjection(P, E)
      <4> HIDE DEF P, E
      <4> QED
        BY <2>2 DEF Surjection
    <3> HIDE DEF f, P, E
    <3> QED
      BY <2>3, <3>1, FS_Surjection
  <2> HIDE DEF P, E, f
  <2>5. \A x \in P : v[x] \in Int /\ f[x] \in E /\ v[x] = u[f[x]]
    BY <1>5, <2>1, <2>2
  <2>6. \A x, y \in P : f[x] = f[y] => x = y
    BY <1>1, <2>1
  <2>7. \A e \in E : u[e] \in Int /\ \E x \in P : f[x] = e
    BY <2>1, <2>2, <2>5
  <2>8. \A x \in P : v[x] = IF f[x] \in E THEN u[f[x]] ELSE 0
    BY <2>5
  <2>9. SumOf(v, P) = SumOf(u, E)
    BY <2>3, <2>4, <2>5, <2>6, <2>7, <2>8, SumsCorrespond
  <2> QED
    BY <2>9 DEF P, E
<1>9. parts = [j \in J |-> SumOf(u, events(j))]
  BY <1>8
<1>10. SumOf(v, found) = SumOf([j \in J |-> SumOf(u, events(j))], J)
  BY <1>7, <1>9
<1> QED
  BY <1>10 DEF found, J, events, v

\* A rule's line counts and charges what its points are charged with.
LEMMA RuleAddsUp ==
  ASSUME NEW c \in DOMAIN Configs, NEW d, NEW i \in DOMAIN RulesOf(c),
         ~RuleFails(Shift(d), RulesOf(c)[i], Occurrences)
  PROVE  LET line == RuleResult(Shift(d), RulesOf(c)[i], Occurrences, Images(RulesOf(c)))
         IN  /\ RuleConsistent(line)
             /\ line.count \in Int
             /\ line.score = SumOf([j \in DOMAIN line.points |-> line.points[j].score],
                                   DOMAIN line.points)
<1> DEFINE rule == RulesOf(c)[i]
           shift == Shift(d)
           line == RuleResult(shift, rule, Occurrences, Images(RulesOf(c)))
           found == RunExecution(shift, rule, Occurrences)
           m == Len(Points(rule))
           J == 1..m
           pline(j) == PointLine(d, RulesOf(c), i, j)
           events(j) == EventsFound(shift, rule, Points(rule)[j])
           points == line.points
           unit == [e \in Occurrences |-> 1]
           cost == [e \in Occurrences |-> Score(rule.scoring, e)]
<1>1. rule \in Range(Configs[c]) /\ Distinct(rule)
  BY RulesAreListed DEF RuleFails
<1>2. m \in Nat /\ DOMAIN Points(rule) = J
  BY <1>1, PointsAreListed
<1>3. points = [j \in J |-> pline(j)]
  BY RuleLine
<1>4. /\ line.count = Cardinality(found)
      /\ line.score = MapThenSumSet(LAMBDA f : Score(rule.scoring, f.event), found)
  BY RuleLineSays
<1>5. IsFiniteSet(found) /\ \A f \in found : f.event \in Occurrences
  BY <1>1, FoundOnce, FoundOf
<1>6. ASSUME NEW f \in found PROVE Score(rule.scoring, f.event) \in Int
  <2>1. UnitScore(rule.scoring, f.event) # {}
    BY DEF RuleFails
  <2>2. Max(UnitScore(rule.scoring, f.event)) \in Int
    BY <1>1, <2>1, UnitScoreIs
  <2>3. f.event.units \in Nat
    BY <1>5, ScoringAssumption
  <2> HIDE DEF rule, found
  <2> QED
    BY <2>2, <2>3 DEF Score
<1>7. ASSUME NEW j \in J
      PROVE  /\ IsFiniteSet(events(j)) /\ events(j) \subseteq Occurrences
             /\ \A e \in events(j) : Score(rule.scoring, e) \in Int
             /\ pline(j).count = Cardinality(events(j))
             /\ pline(j).score = SumOf([e \in events(j) |-> Score(rule.scoring, e)], events(j))
             /\ pline(j).score \in Int
  <2>1. /\ IsFiniteSet(events(j)) /\ events(j) \subseteq Occurrences
        /\ \A e \in events(j) : Score(rule.scoring, e) \in Int
    BY <1>1, EventsCost
  <2>2. /\ pline(j).events = events(j)
        /\ pline(j).score = SumOf([e \in events(j) |-> Score(rule.scoring, e)], events(j))
        /\ pline(j).score \in Int
    BY <1>2, PointLineIs
  <2>3. pline(j).count = Cardinality(pline(j).events)
    BY PointLineSays
  <2> HIDE DEF events, pline, rule
  <2> QED
    BY <2>1, <2>2, <2>3
<1>8. /\ \A e \in Occurrences : unit[e] = 1
      /\ \A e \in Occurrences : cost[e] = Score(rule.scoring, e)
  OBVIOUS
<1> HIDE DEF rule, shift, line, found, m, J, pline, events, points, unit, cost
<1>9. ASSUME NEW j \in J
      PROVE  /\ points[j].count = SumOf(unit, events(j)) /\ points[j].count \in Int
             /\ points[j].score = SumOf(cost, events(j)) /\ points[j].score \in Int
  <2> DEFINE E == events(j)
             own == [e \in E |-> Score(rule.scoring, e)]
  <2>1. points[j] = pline(j)
    BY <1>3
  <2>2. IsFiniteSet(E) /\ \A e \in E : unit[e] = 1
    BY <1>7, <1>8
  <2>3. \A e \in E : own[e] \in Int /\ cost[e] = own[e]
    BY <1>7, <1>8
  <2>4. pline(j).count = Cardinality(E) /\ pline(j).score = SumOf(own, E)
    BY <1>7
  <2> HIDE DEF E, own
  <2>5. Cardinality(E) = SumOf(unit, E)
    BY <2>2, CountIsSum
  <2>6. SumOf(own, E) = SumOf(cost, E)
    BY <2>2, <2>3, SumsAlike
  <2>7. Cardinality(E) \in Nat
    BY <2>2, FS_CardinalityType
  <2>8. points[j].score \in Int
    BY <1>7, <2>1
  <2> QED
    BY <2>1, <2>4, <2>5, <2>6, <2>7, <2>8 DEF E
<1>10. DOMAIN points = J /\ IsFiniteSet(J)
  <2>1. IsFiniteSet(1..m)
    BY <1>2, FS_Interval
  <2> QED
    BY <1>3, <2>1 DEF J
<1>11. /\ Sum(LAMBDA p : p.count, points) = SumOf([j \in J |-> points[j].count], J)
       /\ Sum(LAMBDA p : p.score, points) = SumOf([j \in J |-> points[j].score], J)
  <2>1. MapThenSumSet(LAMBDA j : points[j].count, DOMAIN points)
          = SumOf([j \in DOMAIN points |-> points[j].count], DOMAIN points)
    BY <1>9, <1>10, SumOfCountFields
  <2>2. MapThenSumSet(LAMBDA j : points[j].score, DOMAIN points)
          = SumOf([j \in DOMAIN points |-> points[j].score], DOMAIN points)
    BY <1>9, <1>10, SumOfScoreFields
  <2> QED
    BY <1>10, <2>1, <2>2 DEF Sum
<1>12. /\ [j \in J |-> points[j].count] = [j \in J |-> SumOf(unit, events(j))]
       /\ [j \in J |-> points[j].score] = [j \in J |-> SumOf(cost, events(j))]
  BY <1>9
<1>13. line.count = SumOf([j \in J |-> SumOf(unit, events(j))], J)
  <2> DEFINE one == [f \in found |-> unit[f.event]]
  <2>1. \A f \in found : unit[f.event] \in Int
    BY <1>5, <1>8
  <2>2. SumOf(one, found) = SumOf([j \in J |-> SumOf(unit, events(j))], J)
    BY <1>1, <1>2, <2>1, SumByPoints DEF found, events, J
  <2>3. \A f \in found : one[f] = 1
    BY <1>5, <1>8
  <2> HIDE DEF one
  <2>4. Cardinality(found) = SumOf(one, found)
    BY <1>5, <2>3, CountIsSum
  <2> QED
    BY <1>4, <2>2, <2>4
<1>14. line.score = SumOf([j \in J |-> SumOf(cost, events(j))], J)
  <2>1. \A f \in found : cost[f.event] \in Int /\ cost[f.event] = Score(rule.scoring, f.event)
    BY <1>5, <1>6, <1>8
  <2>2. SumOf([f \in found |-> cost[f.event]], found)
          = SumOf([j \in J |-> SumOf(cost, events(j))], J)
    BY <1>1, <1>2, <2>1, SumByPoints DEF found, events, J
  <2>3. [f \in found |-> cost[f.event]] = [f \in found |-> Score(rule.scoring, f.event)]
    BY <2>1
  <2> DEFINE scoring == rule.scoring
  <2>4. IsFiniteSet(found) /\ \A f \in found : Score(scoring, f.event) \in Int
    BY <1>5, <1>6
  <2> HIDE DEF scoring
  <2>5. MapThenSumSet(LAMBDA f : Score(scoring, f.event), found)
          = SumOf([f \in found |-> Score(scoring, f.event)], found)
    BY <2>4, SumOfFoundScores
  <2> QED
    BY <1>4, <2>2, <2>3, <2>5 DEF scoring
<1>15. line.count \in Int
  <2>1. Cardinality(found) \in Nat
    BY <1>5, FS_CardinalityType
  <2> QED
    BY <1>4, <2>1
<1>16. RuleConsistent(line)
  BY <1>11, <1>12, <1>13, <1>14 DEF RuleConsistent, points
<1> QED
  BY <1>10, <1>12, <1>14, <1>15, <1>16 DEF line, rule, shift, points

\* The rules of a document, one by one.
LEMMA RulesOfDocument ==
  ASSUME NEW c \in DOMAIN Configs, NEW d,
         NEW doc \in Deliver(Configs[c], Occurrences, Shift(d))
  PROVE  /\ DOMAIN doc.rules = DOMAIN RulesOf(c) /\ IsFiniteSet(DOMAIN doc.rules)
         /\ \A i \in DOMAIN doc.rules :
              /\ doc.rules[i].points = [j \in DOMAIN Points(RulesOf(c)[i]) |->
                                          PointLine(d, RulesOf(c), i, j)]
              /\ Len(doc.rules[i].points) \in Int
              /\ RuleConsistent(doc.rules[i])
              /\ doc.rules[i].count \in Int
              /\ doc.rules[i].score = SumOf([j \in DOMAIN doc.rules[i].points |->
                                               doc.rules[i].points[j].score],
                                            DOMAIN doc.rules[i].points)
<1> DEFINE rules == RulesOf(c)
<1>1. /\ doc.rules = [i \in DOMAIN rules |->
                        RuleResult(Shift(d), rules[i], Occurrences, Images(rules))]
      /\ \A i \in DOMAIN rules : ~RuleFails(Shift(d), rules[i], Occurrences)
  BY DocumentOf
<1>2. Len(rules) \in Nat /\ DOMAIN rules = 1..Len(rules)
  BY RulesAreListed
<1>3. DOMAIN doc.rules = DOMAIN rules /\ IsFiniteSet(DOMAIN doc.rules)
  <2>1. IsFiniteSet(1..Len(rules))
    BY <1>2, FS_Interval
  <2> HIDE DEF rules
  <2> QED
    BY <1>1, <1>2, <2>1
<1>4. ASSUME NEW i \in DOMAIN rules
      PROVE  LET line == doc.rules[i]
             IN  /\ line.points = [j \in DOMAIN Points(rules[i]) |-> PointLine(d, rules, i, j)]
                 /\ Len(line.points) \in Int
                 /\ RuleConsistent(line)
                 /\ line.count \in Int
                 /\ line.score = SumOf([j \in DOMAIN line.points |-> line.points[j].score],
                                       DOMAIN line.points)
  <2> DEFINE line == RuleResult(Shift(d), rules[i], Occurrences, Images(rules))
             m == Len(Points(rules[i]))
  <2>1. doc.rules[i] = line
    BY <1>1
  <2>2. m \in Nat /\ DOMAIN Points(rules[i]) = 1..m
    BY RulesAreListed, PointsAreListed
  <2>3. line.points = [j \in 1..m |-> PointLine(d, rules, i, j)]
    BY RuleLine
  <2>4. ~RuleFails(Shift(d), rules[i], Occurrences)
    BY <1>1
  <2>5. /\ RuleConsistent(line)
        /\ line.count \in Int
        /\ line.score = SumOf([j \in DOMAIN line.points |-> line.points[j].score],
                              DOMAIN line.points)
    BY <2>4, RuleAddsUp
  <2> HIDE DEF line, m, rules
  <2> DEFINE listed == line.points
  <2>6. listed = [j \in 1..m |-> PointLine(d, rules, i, j)]
    BY <2>3
  <2> HIDE DEF listed
  <2>7. Len(listed) = m
    BY <2>2, <2>6
  <2>8. Len(line.points) \in Int
    BY <2>2, <2>7 DEF listed
  <2> QED
    BY <2>1, <2>2, <2>3, <2>5, <2>8
<1> QED
  BY <1>3, <1>4

\* The points of a document, one by one.
LEMMA EntryIs ==
  ASSUME NEW c \in DOMAIN Configs, NEW d,
         NEW doc \in Deliver(Configs[c], Occurrences, Shift(d)),
         NEW e \in Range(PointsOf(doc))
  PROVE  /\ PointConsistent(e[2])
         /\ e[2].image \in DOMAIN doc.charts /\ doc.charts[e[2].image] = Key(e)
         /\ e[2].score \in Int
<1> DEFINE rules == RulesOf(c)
<1>1. /\ \A i \in DOMAIN rules : ~RuleFails(Shift(d), rules[i], Occurrences)
      /\ \A i \in DOMAIN rules : Distinct(rules[i])
  BY DocumentOf DEF RuleFails
<1>2. PICK i \in DOMAIN rules : \E j \in DOMAIN Points(rules[i]) :
        e = <<rules[i].id, PointLine(d, rules, i, j)>>
  BY PointsOfDocument
<1>3. PICK j \in DOMAIN Points(rules[i]) : e = <<rules[i].id, PointLine(d, rules, i, j)>>
  BY <1>2
<1> DEFINE line == PointLine(d, rules, i, j)
           point == Points(rules[i])[j]
           id == <<rules[i].id, point.id>>
           events == EventsFound(Shift(d), rules[i], point)
<1>4. line.events = events /\ line.score \in Int
  BY <1>1, PointLineIs
<1>5. line.point = point.id /\ line.count = Cardinality(line.events)
      /\ line.status = IF line.events # {} THEN "violation" ELSE "normal"
  BY PointLineSays
<1>6. line.image = Images(rules)[id]
  BY PointLineImage
<1>7. IsFiniteSet(events)
  BY <1>1, RulesAreListed, EventsCost
<1>8. id \in Range(Identities(rules))
  BY IdentitiesAre
<1>9. Images(rules)[id] \in DOMAIN Drawn(rules) /\ Drawn(rules)[Images(rules)[id]] = id
  BY <1>1, <1>8, DrawnIs
<1>10. doc.charts = Drawn(rules)
  BY DocumentCounts
<1> HIDE DEF line, events, rules, id, point
<1>11. e[2] = line /\ Key(e) = id
  BY <1>3, <1>5 DEF Key, id, line, point
<1>12. PointConsistent(line)
  <2>1. Cardinality(events) \in Nat /\ (Cardinality(events) = 0 <=> events = {})
    BY <1>7, FS_CardinalityType, FS_EmptySet
  <2> QED
    BY <1>4, <1>5, <2>1 DEF PointConsistent
<1> QED
  BY <1>4, <1>6, <1>9, <1>10, <1>11, <1>12

\* Both readers find that the numbers of a document agree, and the mail all its charts.
LEMMA CountsAgree ==
  ASSUME NEW c \in DOMAIN Configs, NEW d,
         NEW doc \in Deliver(Configs[c], Occurrences, Shift(d))
  PROVE  CountsConsistent(doc) /\ Parses(doc)
<1>1. doc.ruleCount = Len(doc.rules)
  BY DocumentCounts
<1>2. doc.pointCount = Len(PointsOf(doc))
  <2> DEFINE rules == doc.rules
  <2>1. doc.pointCount = MapThenSumSet(LAMBDA i : Len(rules[i].points), DOMAIN rules)
    BY DocumentCounts
  <2>2. IsFiniteSet(DOMAIN rules) /\ \A i \in DOMAIN rules : Len(rules[i].points) \in Int
    BY RulesOfDocument
  <2>3. Len(PointsOf(doc)) = SumOf([i \in DOMAIN rules |-> Len(rules[i].points)], DOMAIN rules)
    BY PointsOnce
  <2> HIDE DEF rules
  <2>4. MapThenSumSet(LAMBDA i : Len(rules[i].points), DOMAIN rules)
          = SumOf([i \in DOMAIN rules |-> Len(rules[i].points)], DOMAIN rules)
    BY <2>2, SumOfPointLists
  <2> QED
    BY <2>1, <2>3, <2>4
<1>3. doc.eventCount = Sum(LAMBDA r : r.count, doc.rules)
  <2>1. doc.eventCount = MapThenSumSet(LAMBDA i : doc.rules[i].count, DOMAIN doc.rules)
    BY DocumentCounts
  <2> QED
    BY <2>1 DEF Sum
<1>4. NoDuplicates(PointsOf(doc))
  BY PointsOnce
<1>5. \A i \in DOMAIN doc.rules : RuleConsistent(doc.rules[i])
  BY RulesOfDocument
<1>6. \A e \in Range(PointsOf(doc)) : PointConsistent(e[2]) /\ e[2].image \in DOMAIN doc.charts
  BY EntryIs
<1> QED
  BY <1>1, <1>2, <1>3, <1>4, <1>5, <1>6 DEF CountsConsistent, Parses

\* The points of a document are finitely many, no two of them with the same key.
LEMMA EntriesOnce ==
  ASSUME NEW c \in DOMAIN Configs, NEW d,
         NEW doc \in Deliver(Configs[c], Occurrences, Shift(d))
  PROVE  LET entries == Range(PointsOf(doc))
         IN  /\ IsFiniteSet(entries)
             /\ \A e, f \in entries : Key(e) = Key(f) => e = f
<1> DEFINE rules == RulesOf(c)
           all == PointsOf(doc)
           entries == Range(all)
           parts == {{<<rules[i].id, PointLine(d, rules, i, j)>> : j \in DOMAIN Points(rules[i])} :
                       i \in DOMAIN rules}
<1>1. \A e, f \in entries : Key(e) = Key(f) => e = f
  <2>1. NoDuplicates(all)
    BY PointsOnce
  <2> HIDE DEF all
  <2> QED
    BY <2>1 DEF NoDuplicates, Range
<1>2. IsFiniteSet(entries)
  <2> DEFINE part(i) == {<<rules[i].id, PointLine(d, rules, i, j)>> : j \in DOMAIN Points(rules[i])}
             f(i) == [j \in DOMAIN Points(rules[i]) |-> <<rules[i].id, PointLine(d, rules, i, j)>>]
             g == [i \in DOMAIN rules |-> part(i)]
  <2>1. ASSUME NEW i \in DOMAIN rules PROVE IsFiniteSet(part(i))
    <3>1. Len(Points(rules[i])) \in Nat /\ DOMAIN Points(rules[i]) = 1..Len(Points(rules[i]))
      BY RulesAreListed, PointsAreListed
    <3>2. IsFiniteSet(DOMAIN Points(rules[i]))
      BY <3>1, FS_Interval
    <3>3. f(i) \in Surjection(DOMAIN Points(rules[i]), part(i))
      BY DEF Surjection
    <3> HIDE DEF f, part, rules
    <3> QED
      BY <3>2, <3>3, FS_Surjection
  <2>2. IsFiniteSet(DOMAIN rules)
    <3>1. Len(rules) \in Nat /\ DOMAIN rules = 1..Len(rules)
      BY RulesAreListed
    <3> QED
      BY <3>1, FS_Interval
  <2>3. parts = {part(i) : i \in DOMAIN rules}
    OBVIOUS
  <2> HIDE DEF rules, part, parts
  <2>4. IsFiniteSet(parts)
    <3>1. g \in Surjection(DOMAIN rules, parts)
      BY <2>3 DEF Surjection
    <3> HIDE DEF g
    <3> QED
      BY <2>2, <3>1, FS_Surjection
  <2>5. \A s \in parts : IsFiniteSet(s)
    BY <2>1, <2>3
  <2>6. IsFiniteSet(UNION parts)
    BY <2>4, <2>5, FS_UNION
  <2>7. entries \subseteq UNION parts
    <3>1. ASSUME NEW e \in entries PROVE e \in UNION parts
      <4>1. \E i \in DOMAIN rules : \E j \in DOMAIN Points(rules[i]) :
              e = <<rules[i].id, PointLine(d, rules, i, j)>>
        BY PointsOfDocument DEF rules
      <4>2. PICK i \in DOMAIN rules : e \in part(i)
        BY <4>1 DEF part
      <4> QED
        BY <2>3, <4>2
    <3> QED
      BY <3>1
  <2> HIDE DEF entries
  <2> QED
    BY <2>6, <2>7, FS_Subset
<1> QED
  BY <1>1, <1>2

\* The total of a document is what its points cost together.
LEMMA TotalOfEntries ==
  ASSUME NEW c \in DOMAIN Configs, NEW d,
         NEW doc \in Deliver(Configs[c], Occurrences, Shift(d))
  PROVE  LET entries == Range(PointsOf(doc))
         IN  /\ doc.total = SumOf([e \in entries |-> e[2].score], entries)
             /\ doc.total = Sum(LAMBDA r : r.score, doc.rules)
<1> DEFINE rules == RulesOf(c)
           entries == Range(PointsOf(doc))
           I == DOMAIN doc.rules
           J(i) == DOMAIN Points(rules[i])
           entry(i, j) == <<rules[i].id, PointLine(d, rules, i, j)>>
           v == [e \in entries |-> e[2].score]
           place == [e \in entries |-> CHOOSE i \in I : rules[i].id = e[1]]
           part(i) == {e \in entries : place[e] = i}
           listed == doc.rules
<1>1. I = DOMAIN rules /\ IsFiniteSet(I)
  BY RulesOfDocument
<1>2. ASSUME NEW i \in I
      PROVE  LET line == doc.rules[i]
             IN  /\ line.points = [j \in J(i) |-> PointLine(d, rules, i, j)]
                 /\ RuleConsistent(line)
                 /\ line.score = SumOf([j \in DOMAIN line.points |-> line.points[j].score],
                                       DOMAIN line.points)
  BY RulesOfDocument
<1>3. IsFiniteSet(entries) /\ \A e, f \in entries : Key(e) = Key(f) => e = f
  BY EntriesOnce
<1>4. \A e \in entries : e[2].score \in Int
  BY EntryIs
<1>5. \A x : x \in entries <=> \E i \in I : \E j \in J(i) : x = entry(i, j)
  BY <1>1, PointsOfDocument
<1>6. \A i, j \in I : rules[i].id = rules[j].id => i = j
  BY <1>1, RuleIdsDiffer
<1>7. ASSUME NEW i \in I
      PROVE  /\ IsFiniteSet(J(i))
             /\ \A j, k \in J(i) : entry(i, j) = entry(i, k) => j = k
  <2>1. Len(Points(rules[i])) \in Nat /\ J(i) = 1..Len(Points(rules[i]))
    BY <1>1, RulesAreListed, PointsAreListed
  <2>2. IsFiniteSet(J(i))
    BY <2>1, FS_Interval
  <2>3. ASSUME NEW j \in J(i), NEW k \in J(i), entry(i, j) = entry(i, k)
        PROVE  j = k
    <3>1. PointLine(d, rules, i, j).point = Points(rules[i])[j].id
      BY PointLineSays
    <3>2. PointLine(d, rules, i, k).point = Points(rules[i])[k].id
      BY PointLineSays
    <3>3. rules[i] \in Range(Configs[c]) /\ Distinct(rules[i])
      BY <1>1, DocumentOf, RulesAreListed DEF RuleFails
    <3>4. PointLine(d, rules, i, j) = PointLine(d, rules, i, k)
      BY <2>3
    <3> HIDE DEF rules
    <3>5. Points(rules[i])[j].id = Points(rules[i])[k].id
      BY <3>1, <3>2, <3>4
    <3> QED
      BY <3>3, <3>5, PointIdsDiffer
  <2> QED
    BY <2>2, <2>3
<1>8. doc.total = MapThenSumSet(LAMBDA i : listed[i].score, DOMAIN listed)
  BY DocumentCounts
<1>9. doc.total = Sum(LAMBDA r : r.score, doc.rules)
  BY <1>8 DEF Sum
<1>10. \A i \in I : \A j \in J(i) : entry(i, j)[1] = rules[i].id
                                    /\ entry(i, j)[2] = PointLine(d, rules, i, j)
  OBVIOUS
<1>11. \A e \in entries : v[e] = e[2].score
  OBVIOUS
<1>12. ASSUME NEW i \in I, NEW j \in J(i) PROVE place[entry(i, j)] = i
  <2>1. entry(i, j) \in entries
    BY <1>5
  <2> HIDE DEF entries, I, rules, J, entry
  <2>2. place[entry(i, j)] = CHOOSE k \in I : rules[k].id = entry(i, j)[1]
    BY <2>1
  <2> QED
    BY <1>6, <1>10, <2>2
<1> HIDE DEF rules, entries, I, J, entry, v, place
<1>13. ASSUME NEW e \in entries PROVE place[e] \in I
  BY <1>5, <1>12
<1>14. SumOf(v, entries) = SumOf([i \in I |-> SumOf(v, part(i))], I)
  <2>1. IsFiniteSet(entries) /\ \A e \in entries : v[e] \in Int
    BY <1>3, <1>4, <1>11
  <2>2. IsFiniteSet(I) /\ \A e \in entries : place[e] \in I
    BY <1>1, <1>13
  <2> QED
    BY <2>1, <2>2, SumOfParts
<1>15. ASSUME NEW i \in I
       PROVE  doc.rules[i].score = SumOf(v, part(i)) /\ doc.rules[i].score \in Int
  <2> DEFINE points == doc.rules[i].points
             own == J(i)
             w == [j \in own |-> points[j].score]
             f == [j \in own |-> entry(i, j)]
             K == part(i)
  <2>1. points = [j \in own |-> PointLine(d, rules, i, j)]
        /\ doc.rules[i].score = SumOf([j \in DOMAIN points |-> points[j].score], DOMAIN points)
    BY <1>2
  <2> HIDE DEF points
  <2>2. DOMAIN points = own /\ \A j \in own : points[j] = PointLine(d, rules, i, j)
    BY <2>1
  <2>3. doc.rules[i].score = SumOf(w, own)
    BY <2>1, <2>2
  <2>4. \A j \in own : f[j] = entry(i, j) /\ f[j] \in entries /\ f[j] \in K
    BY <1>5, <1>12
  <2>5. \A j \in own : w[j] = v[f[j]] /\ w[j] \in Int
    BY <1>4, <1>10, <1>11, <2>2, <2>4
  <2>6. \A j, k \in own : f[j] = f[k] => j = k
    BY <1>7, <2>4
  <2>7. ASSUME NEW e \in K PROVE \E j \in own : f[j] = e
    <3>1. e \in entries /\ place[e] = i
      OBVIOUS
    <3>2. PICK k \in I : \E j \in J(k) : e = entry(k, j)
      BY <1>5, <3>1
    <3>3. k = i
      BY <1>12, <3>1, <3>2
    <3> QED
      BY <2>4, <3>2, <3>3
  <2>8. IsFiniteSet(own) /\ IsFiniteSet(K) /\ \A e \in K : v[e] \in Int
    <3>1. K \subseteq entries
      OBVIOUS
    <3> HIDE DEF K
    <3> QED
      BY <1>3, <1>4, <1>7, <1>11, <3>1, FS_Subset
  <2> HIDE DEF own, w, f, K
  <2>9. \A j \in own : w[j] = IF f[j] \in K THEN v[f[j]] ELSE 0
    BY <2>4, <2>5
  <2>10. SumOf(w, own) = SumOf(v, K)
    BY <2>5, <2>6, <2>7, <2>8, <2>9, SumsCorrespond
  <2>11. SumOf(v, K) \in Int
    BY <2>8, SumStep
  <2> QED
    BY <2>3, <2>10, <2>11 DEF K
<1>16. doc.total = SumOf([i \in I |-> listed[i].score], I)
  <2>1. DOMAIN listed = I
    BY DEF I
  <2>2. IsFiniteSet(DOMAIN listed) /\ \A i \in DOMAIN listed : listed[i].score \in Int
    BY <1>1, <1>15, <2>1
  <2> HIDE DEF listed
  <2>3. MapThenSumSet(LAMBDA i : listed[i].score, DOMAIN listed)
          = SumOf([i \in DOMAIN listed |-> listed[i].score], DOMAIN listed)
    BY <2>2, SumOfScoreFields
  <2> QED
    BY <1>8, <2>1, <2>3
<1>17. [i \in I |-> listed[i].score] = [i \in I |-> SumOf(v, part(i))]
  BY <1>15
<1>18. doc.total = SumOf(v, entries)
  BY <1>14, <1>16, <1>17
<1> QED
  BY <1>9, <1>18 DEF v, entries

\* What the workbook reads is the score of every point.
LEMMA PointScoresAre ==
  ASSUME NEW c \in DOMAIN Configs, NEW d,
         NEW doc \in Deliver(Configs[c], Occurrences, Shift(d))
  PROVE  LET entries == Range(PointsOf(doc))
             scores == PointScores(doc)
         IN  /\ DOMAIN scores = {Key(e) : e \in entries}
             /\ \A e \in entries : scores[Key(e)] = e[2].score
<1> DEFINE entries == Range(PointsOf(doc))
           scores == PointScores(doc)
<1>1. \A e, f \in entries : Key(e) = Key(f) => e = f
  BY EntriesOnce
<1>2. scores = [key \in {Key(e) : e \in entries} |->
                  (CHOOSE e \in entries : Key(e) = key)[2].score]
  BY DEF PointScores
<1> HIDE DEF entries, scores
<1>3. DOMAIN scores = {Key(e) : e \in entries}
  BY <1>2
<1>4. ASSUME NEW e \in entries PROVE scores[Key(e)] = e[2].score
  <2> DEFINE chosen == CHOOSE f \in entries : Key(f) = Key(e)
  <2>1. scores[Key(e)] = chosen[2].score
    BY <1>2
  <2>2. chosen \in entries /\ Key(chosen) = Key(e)
    OBVIOUS
  <2>3. chosen = e
    BY <1>1, <2>2
  <2> QED
    BY <2>1, <2>3
<1> QED
  BY <1>3, <1>4 DEF entries, scores

\* Nothing but a score below zero keeps the workbook from accepting a document.
LEMMA ValidIf ==
  ASSUME NEW c \in DOMAIN Configs, NEW d,
         NEW doc \in Deliver(Configs[c], Occurrences, Shift(d))
  PROVE  Validates(doc) <=> \A e \in Range(PointsOf(doc)) : e[2].score >= 0
<1> DEFINE entries == Range(PointsOf(doc))
           rules == RulesOf(c)
<1>1. CountsConsistent(doc)
  BY CountsAgree
<1>2. doc.total = Sum(LAMBDA r : r.score, doc.rules)
  BY TotalOfEntries
<1>3. \A i, j \in DOMAIN doc.rules : doc.rules[i].rule = doc.rules[j].rule => i = j
  <2>1. ASSUME NEW i \in DOMAIN doc.rules
        PROVE  i \in DOMAIN rules /\ doc.rules[i].rule = rules[i].id
    <3> DEFINE line == RuleResult(Shift(d), rules[i], Occurrences, Images(rules))
    <3>0. doc.rules = [k \in DOMAIN rules |->
                         RuleResult(Shift(d), rules[k], Occurrences, Images(rules))]
      BY DocumentOf
    <3>1. i \in DOMAIN rules /\ doc.rules[i] = line
      BY <3>0
    <3>2. line.rule = rules[i].id
      BY <3>1, RuleLine
    <3> HIDE DEF line, rules
    <3> QED
      BY <3>1, <3>2
  <2>2. \A i, j \in DOMAIN rules : rules[i].id = rules[j].id => i = j
    BY RuleIdsDiffer
  <2> HIDE DEF rules
  <2> QED
    BY <2>1, <2>2
<1>4. ASSUME \A e \in entries : e[2].score >= 0, NEW i \in DOMAIN doc.rules
      PROVE  doc.rules[i].score >= 0
  <2> DEFINE points == doc.rules[i].points
             J == DOMAIN points
             v == [j \in J |-> points[j].score]
  <2>1. /\ points = [j \in DOMAIN Points(rules[i]) |-> PointLine(d, rules, i, j)]
        /\ doc.rules[i].score = SumOf([j \in DOMAIN points |-> points[j].score], DOMAIN points)
        /\ i \in DOMAIN rules
    BY RulesOfDocument
  <2>2. Len(Points(rules[i])) \in Nat /\ DOMAIN Points(rules[i]) = 1..Len(Points(rules[i]))
    BY <2>1, RulesAreListed, PointsAreListed
  <2>3. IsFiniteSet(DOMAIN Points(rules[i]))
    BY <2>2, FS_Interval
  <2>4. ASSUME NEW j \in DOMAIN Points(rules[i])
        PROVE  PointLine(d, rules, i, j).score \in Nat
    <3> DEFINE e == <<rules[i].id, PointLine(d, rules, i, j)>>
    <3>1. e \in entries
      BY <2>1, PointsOfDocument
    <3>2. e[2] = PointLine(d, rules, i, j)
      OBVIOUS
    <3> HIDE DEF e, entries, rules
    <3>3. e[2].score \in Int
      BY <3>1, EntryIs DEF entries
    <3> QED
      BY <1>4, <3>1, <3>2, <3>3
  <2> HIDE DEF points, rules
  <2>5. IsFiniteSet(J) /\ \A j \in J : v[j] \in Nat
    BY <2>1, <2>3, <2>4
  <2>6. doc.rules[i].score = SumOf(v, J)
    BY <2>1
  <2> HIDE DEF J, v
  <2>7. SumOf(v, J) \in Nat
    BY <2>5, SumNotNegative
  <2> QED
    BY <2>6, <2>7
<1> HIDE DEF entries
<1> QED
  BY <1>1, <1>2, <1>3, <1>4 DEF Validates, entries

\* What the mail shows is what the points cost that cost something, beside their charts.
LEMMA DeductionsAre ==
  ASSUME NEW c \in DOMAIN Configs, NEW d,
         NEW doc \in Deliver(Configs[c], Occurrences, Shift(d))
  PROVE  LET positive == {e \in Range(PointsOf(doc)) : e[2].score > 0}
         IN  Deductions(doc) = {[key |-> Key(e), score |-> e[2].score, count |-> e[2].count,
                                 chart |-> Key(e)] : e \in positive}
<1>1. \A e \in Range(PointsOf(doc)) : doc.charts[e[2].image] = Key(e)
  BY EntryIs
<1> QED
  BY <1>1 DEF Deductions

\* The deductions add up to the total of the document.
LEMMA DeductionsAddUp ==
  ASSUME NEW c \in DOMAIN Configs, NEW d,
         NEW doc \in Deliver(Configs[c], Occurrences, Shift(d)), Validates(doc)
  PROVE  doc.total = MapThenSumSet(LAMBDA x : x.score, Deductions(doc))
<1> DEFINE entries == Range(PointsOf(doc))
           shown(e) == [key |-> Key(e), score |-> e[2].score, count |-> e[2].count,
                        chart |-> Key(e)]
           positive == {e \in entries : e[2].score > 0}
           K == Deductions(doc)
           v == [e \in entries |-> e[2].score]
           w == [x \in K |-> x.score]
           f == [e \in entries |-> shown(e)]
           g == [e \in positive |-> shown(e)]
<1>1. K = {shown(e) : e \in positive}
  BY DeductionsAre
<1>2. IsFiniteSet(entries) /\ \A e, x \in entries : Key(e) = Key(x) => e = x
  BY EntriesOnce
<1>3. \A e \in entries : e[2].score \in Int /\ e[2].score >= 0
  BY EntryIs, ValidIf
<1>4. doc.total = SumOf(v, entries)
  BY TotalOfEntries
<1> HIDE DEF entries, K
<1>5. \A e : shown(e).key = Key(e) /\ shown(e).score = e[2].score
  OBVIOUS
<1> HIDE DEF shown
<1>6. IsFiniteSet(K)
  <2>1. IsFiniteSet(positive)
    <3>1. positive \subseteq entries
      OBVIOUS
    <3> HIDE DEF positive
    <3> QED
      BY <1>2, <3>1, FS_Subset
  <2> HIDE DEF positive
  <2>2. g \in Surjection(positive, K)
    BY <1>1 DEF Surjection
  <2> HIDE DEF g
  <2> QED
    BY <2>1, <2>2, FS_Surjection
<1>7. \A e \in entries : v[e] \in Int /\ v[e] = e[2].score /\ f[e] = shown(e)
  BY <1>3
<1>8. \A x \in K : w[x] = x.score /\ \E e \in entries : f[e] = x /\ e[2].score > 0
  BY <1>1
<1>9. \A x \in K : w[x] \in Int
  BY <1>3, <1>5, <1>7, <1>8
<1>10. \A e, x \in entries : f[e] = f[x] => e = x
  BY <1>2, <1>5, <1>7
<1>11. ASSUME NEW e \in entries PROVE v[e] = IF f[e] \in K THEN w[f[e]] ELSE 0
  <2>1. CASE e[2].score > 0
    <3>1. f[e] \in K
      BY <1>1, <1>7, <2>1
    <3>2. w[f[e]] = e[2].score
      BY <1>5, <1>7, <3>1
    <3> QED
      BY <1>7, <3>1, <3>2
  <2>2. CASE ~(e[2].score > 0)
    <3>1. f[e] \notin K
      BY <1>8, <1>10, <2>2
    <3>2. e[2].score = 0
      BY <1>3, <2>2
    <3> QED
      BY <1>7, <3>1, <3>2
  <2> QED
    BY <2>1, <2>2
<1> HIDE DEF v, w, f
<1>12. SumOf(v, entries) = SumOf(w, K)
  <2>1. \A e \in entries : v[e] \in Int
    BY <1>7
  <2>2. \A x \in K : \E e \in entries : f[e] = x
    BY <1>8
  <2> QED
    BY <1>2, <1>6, <1>9, <1>10, <1>11, <2>1, <2>2, SumsCorrespond
<1>13. MapThenSumSet(LAMBDA x : x.score, K) = SumOf(w, K)
  <2>1. \A x \in K : x.score \in Int
    BY <1>8, <1>9
  <2> QED
    BY <1>6, <2>1, SumOfDeductions DEF w
<1> QED
  BY <1>4, <1>12, <1>13 DEF K

\* Mail and workbook agree about what an assessment of a day makes.
LEMMA ReadAlike ==
  config \in DOMAIN Configs /\ today \in Day => PackagesAreReadAlike
<1> SUFFICES ASSUME config \in DOMAIN Configs, today \in Day, NEW doc \in Current
    PROVE  LET scores == PointScores(doc)
               valid == Validates(doc)
           IN  /\ Parses(doc)
               /\ valid <=> \A key \in DOMAIN scores : scores[key] >= 0
               /\ valid =>
                    /\ {<<x.key, x.score>> : x \in Deductions(doc)}
                         = {<<key, scores[key]>> : key \in {k \in DOMAIN scores : scores[k] > 0}}
                    /\ doc.total = MapThenSumSet(LAMBDA x : x.score, Deductions(doc))
               /\ \A x \in Deductions(doc) : x.chart = x.key
  BY DEF PackagesAreReadAlike, ReadersAgree, ChartsAreOwn
<1> DEFINE entries == Range(PointsOf(doc))
           scores == PointScores(doc)
<1>1. doc \in Deliver(Configs[config], Occurrences, Shift(today))
  <2> DEFINE run == <<config, today>>
  <2>1. run \in Cases /\ run[1] = config /\ run[2] = today
    BY DEF Cases
  <2>2. Assessments[run] = Deliver(Configs[run[1]], Occurrences, Shift(run[2]))
    BY <2>1, AssessmentOf
  <2> QED
    BY <2>1, <2>2 DEF Current
<1>2. Parses(doc)
  BY <1>1, CountsAgree
<1>3. DOMAIN scores = {Key(e) : e \in entries} /\ \A e \in entries : scores[Key(e)] = e[2].score
  BY <1>1, PointScoresAre
<1>4. Validates(doc) <=> \A e \in entries : e[2].score >= 0
  BY <1>1, ValidIf
<1>5. Deductions(doc) = {[key |-> Key(e), score |-> e[2].score, count |-> e[2].count,
                          chart |-> Key(e)] : e \in {x \in entries : x[2].score > 0}}
  BY <1>1, DeductionsAre
<1>6. Validates(doc) => doc.total = MapThenSumSet(LAMBDA x : x.score, Deductions(doc))
  BY <1>1, DeductionsAddUp
<1> HIDE DEF entries, scores
<1>7. Validates(doc) <=> \A key \in DOMAIN scores : scores[key] >= 0
  BY <1>3, <1>4
<1>8. /\ \A x \in Deductions(doc) : \E e \in entries :
           x.key = Key(e) /\ x.score = e[2].score /\ x.chart = Key(e) /\ e[2].score > 0
      /\ \A e \in entries : e[2].score > 0 =>
           \E x \in Deductions(doc) : x.key = Key(e) /\ x.score = e[2].score
  <2> DEFINE shown(e) == [key |-> Key(e), score |-> e[2].score, count |-> e[2].count,
                          chart |-> Key(e)]
  <2>1. \A e : shown(e).key = Key(e) /\ shown(e).score = e[2].score /\ shown(e).chart = Key(e)
    OBVIOUS
  <2>2. Deductions(doc) = {shown(e) : e \in {x \in entries : x[2].score > 0}}
    BY <1>5
  <2> HIDE DEF shown
  <2> QED
    BY <2>1, <2>2
<1>9. {<<x.key, x.score>> : x \in Deductions(doc)}
        = {<<key, scores[key]>> : key \in {k \in DOMAIN scores : scores[k] > 0}}
  <2>1. ASSUME NEW x \in Deductions(doc)
        PROVE  x.key \in DOMAIN scores /\ x.score = scores[x.key] /\ scores[x.key] > 0
    <3>1. PICK e \in entries : x.key = Key(e) /\ x.score = e[2].score /\ e[2].score > 0
      BY <1>8
    <3> QED
      BY <1>3, <3>1
  <2>2. ASSUME NEW key \in DOMAIN scores, scores[key] > 0
        PROVE  \E x \in Deductions(doc) : x.key = key /\ x.score = scores[key]
    <3>1. PICK e \in entries : key = Key(e)
      BY <1>3
    <3> QED
      BY <1>3, <1>8, <2>2, <3>1
  <2> QED
    BY <2>1, <2>2
<1>10. \A x \in Deductions(doc) : x.chart = x.key
  BY <1>8
<1> QED
  BY <1>2, <1>6, <1>7, <1>9, <1>10 DEF scores

-----------------------------------------------------------------------------
\* The mapping is written, and the totals; nothing else of the workbook changes.
LEMMA RewrittenSheet ==
  ASSUME NEW sheet, IsRecord(sheet), NEW mapping
  PROVE  LET s == Rewritten(sheet, mapping)
         IN  /\ IsRecord(s) /\ s.rows = sheet.rows /\ s.cells = sheet.cells
             /\ s.mapping = mapping
             /\ s.control = RowsOf(mapping, {"control", "shared"})
             /\ s.field = RowsOf(mapping, {"field", "shared"})
<1> DEFINE control == RowsOf(mapping, {"control", "shared"})
           field == RowsOf(mapping, {"field", "shared"})
<1>1. Rewritten(sheet, mapping)
        = [sheet EXCEPT !.mapping = mapping, !.control = control, !.field = field]
  BY DEF Rewritten, RowsOf
<1> HIDE DEF control, field
<1>2. LET s == Rewritten(sheet, mapping)
      IN  /\ IsRecord(s) /\ s.rows = sheet.rows /\ s.cells = sheet.cells
          /\ s.mapping = mapping /\ s.control = control /\ s.field = field
  BY <1>1 DEF IsRecord
<1> QED
  BY <1>2 DEF control, field

\* The first day of a month.
LEMMA FirstDay ==
  ASSUME NEW m \in DOMAIN Month
  PROVE  /\ Min(Month[m]) \in Month[m] /\ Min(Month[m]) \in Nat
         /\ \A d \in Month[m] : d \in Nat /\ d # 0 /\ Min(Month[m]) <= d
<1>1. Month[m] \subseteq Nat /\ Month[m] # {} /\ \A d \in Month[m] : d # 0
  BY MonthAssumption
<1>2. PICK x \in Month[m] : \A y \in Month[m] : x <= y
  BY <1>1, LeastNumber
<1>3. Min(Month[m]) = x
  BY <1>1, <1>2, LeastIs, Month[m] \subseteq Int
<1> QED
  BY <1>1, <1>2, <1>3

\* Days are counted from one.
LEMMA EveryDay ==
  ASSUME NEW d \in Day PROVE d \in Nat /\ d # 0
<1>1. PICK m \in DOMAIN Month : d \in Month[m]
  BY DEF Day
<1> QED
  BY <1>1, FirstDay

\* Dates of an older workbook, taken over.
DatesOf(old, m) ==
  \A e \in Range(old) : e.effective \in Nat /\ EffectiveKnown(e.effective, m)

\* new-month: an empty workbook with an item in each row.
LEMMA NewBookIsSheet ==
  ASSUME NEW c \in DOMAIN Configs, Listed(Configs[c]), NEW m \in DOMAIN Month,
         NEW old, DatesOf(old, m)
  PROVE  LET s == NewBook(Configs[c], old, m)
         IN  /\ IsSheet(s) /\ DOMAIN s.cells = Month[m]
             /\ Dated(s.mapping, s.rows, m)
             /\ Follows(s.mapping, s.rows, Items(Configs[c]))
             /\ \A d \in Month[m] : Shows(s, d, <<>>)
<1> DEFINE items == Items(Configs[c])
           n == Len(items)
           dated(item) ==
             CASE item.effective # Never -> item.effective
               [] item.effective = Never /\ item.key \in Keys(old) -> Find(old, item.key).effective
               [] OTHER -> Min(Month[m])
           mapping == [i \in DOMAIN items |->
                         [key |-> items[i].key, row |-> i, audience |-> items[i].audience,
                          effective |-> dated(items[i]), inactive |-> items[i].inactive]]
           plain == [rows |-> Len(items), mapping |-> <<>>, control |-> {}, field |-> {},
                     cells |-> [d \in Month[m] |-> [i \in DOMAIN items |-> Blank]],
                     done |-> {}]
           s == NewBook(Configs[c], old, m)
<1>1. /\ n \in Nat /\ DOMAIN items = 1..n
      /\ \A i \in 1..n : items[i] \in Range(items)
      /\ \A item \in Range(items) :
           /\ item \in AllItems /\ item.key \in AllKeys
           /\ item.effective \in Nat /\ item.inactive \in Nat
           /\ \E i \in 1..n : item = items[i]
  BY ItemsAreListed
<1>2. \A i, j \in 1..n : items[i].key = items[j].key => i = j
  BY <1>1, ListedOnce
<1>3. s = Rewritten(plain, mapping)
  BY DEF NewBook
<1>4. IsRecord(plain)
  BY DEF IsRecord
<1>5. /\ IsRecord(s) /\ s.rows = n /\ s.mapping = mapping
      /\ s.cells = [d \in Month[m] |-> [i \in 1..n |-> Blank]]
      /\ s.control = RowsOf(mapping, {"control", "shared"})
      /\ s.field = RowsOf(mapping, {"field", "shared"})
  <2> HIDE DEF s, mapping
  <2>1. /\ IsRecord(s) /\ s.rows = plain.rows /\ s.mapping = mapping
        /\ s.cells = plain.cells
        /\ s.control = RowsOf(mapping, {"control", "shared"})
        /\ s.field = RowsOf(mapping, {"field", "shared"})
    <3> HIDE DEF plain
    <3> QED
      BY <1>3, <1>4, RewrittenSheet
  <2> HIDE DEF items
  <2> QED
    BY <2>1, <1>1
<1> HIDE DEF s, items
<1>6. ASSUME NEW item \in Range(items)
      PROVE  dated(item) \in Nat /\ EffectiveKnown(dated(item), m)
  <2>1. CASE item.effective # Never
    BY <1>1, <2>1 DEF EffectiveKnown
  <2>2. CASE item.effective = Never /\ item.key \in Keys(old)
    <3>1. Find(old, item.key) \in Range(old)
      BY <2>2 DEF Find, Keys
    <3> QED
      BY <2>2, <3>1 DEF DatesOf
  <2>3. CASE item.effective = Never /\ item.key \notin Keys(old)
    <3>1. dated(item) = Min(Month[m])
      BY <2>3
    <3> HIDE DEF dated
    <3> QED
      BY <3>1, FirstDay DEF EffectiveKnown
  <2> QED
    BY <2>1, <2>2, <2>3
<1> HIDE DEF dated
<1>7. \A i \in 1..n : mapping[i] = [key |-> items[i].key, row |-> i,
                                    audience |-> items[i].audience,
                                    effective |-> dated(items[i]), inactive |-> items[i].inactive]
  BY <1>1
<1>8. ASSUME NEW i \in 1..n
       PROVE  /\ items[i] \in Range(items)
              /\ mapping[i].key = items[i].key /\ mapping[i].row = i
              /\ mapping[i].effective = dated(items[i])
              /\ mapping[i].inactive = items[i].inactive
              /\ mapping[i] = [f \in Fields |-> mapping[i][f]]
  <2> DEFINE e == mapping[i]
  <2>1. e = [key |-> items[i].key, row |-> i, audience |-> items[i].audience,
             effective |-> dated(items[i]), inactive |-> items[i].inactive]
    BY <1>7
  <2> HIDE DEF e, items, mapping
  <2>2. /\ e.key = items[i].key /\ e.row = i /\ e.effective = dated(items[i])
        /\ e.inactive = items[i].inactive /\ e = [f \in Fields |-> e[f]]
    BY <2>1 DEF Fields
  <2>3. items[i] \in Range(items)
    BY <1>1
  <2> QED
    BY <2>2, <2>3 DEF e
<1>9. IsList(mapping, n)
  <2> HIDE DEF n
  <2> QED
    BY <1>1 DEF IsList
<1> HIDE DEF mapping, n, plain
<1>10. IsMapping(mapping, n)
  <2>1. ASSUME NEW i \in 1..n
        PROVE  IsEntry(mapping[i]) /\ mapping[i].row = i /\ mapping[i].key = items[i].key
    <3>1. /\ items[i].key \in AllKeys /\ items[i].inactive \in Nat
          /\ dated(items[i]) \in Nat
      BY <1>1, <1>6
    <3> QED
      BY <1>8, <3>1 DEF IsEntry
  <2> QED
    BY <1>2, <1>9, <2>1 DEF IsMapping
<1>11. IsSheet(s)
  BY <1>1, <1>5, <1>10 DEF IsSheet, IsList
<1>12. \A d \in Month[m] : Shows(s, d, <<>>)
  BY <1>1, <1>5 DEF Shows, Cell
<1>13. Dated(mapping, n, m)
  <2>1. ASSUME NEW i \in 1..n
        PROVE  /\ EffectiveKnown(mapping[i].effective, m)
               /\ InactiveKnown(mapping[i].inactive)
    <3>1. items[i] \in Range(items) /\ items[i] \in AllItems
      BY <1>1
    <3>2. mapping[i].effective = dated(items[i]) /\ mapping[i].inactive = items[i].inactive
      BY <1>8
    <3> QED
      BY <1>6, <3>1, <3>2 DEF InactiveKnown
  <2> QED
    BY <2>1 DEF Dated
<1>14. Follows(mapping, n, items)
  <2>1. ASSUME NEW item \in Range(items)
        PROVE  \E i \in 1..n : mapping[i].key = item.key
    <3>1. PICK i \in 1..n : item = items[i]
      BY <1>1
    <3> QED
      BY <1>8, <3>1
  <2>2. ASSUME NEW i \in 1..n
        PROVE  \E item \in Range(items) :
                 mapping[i].key = item.key /\ mapping[i].inactive = item.inactive
    BY <1>8
  <2> QED
    BY <2>1, <2>2 DEF Follows
<1> QED
  BY <1>5, <1>11, <1>12, <1>13, <1>14 DEF s, items

-----------------------------------------------------------------------------
\* The keys of a workbook's rows are those of configured items.
LEMMA KeysOfSheet ==
  ASSUME NEW mapping, NEW rows \in Nat, IsMapping(mapping, rows)
  PROVE  /\ Keys(mapping) = {mapping[i].key : i \in 1..rows}
         /\ Keys(mapping) \subseteq AllKeys
<1>1. Range(mapping) = {mapping[i] : i \in 1..rows}
  BY RangeOfList DEF IsMapping
<1>2. \A i \in 1..rows : mapping[i].key \in AllKeys
  BY DEF IsMapping, IsEntry
<1> QED
  BY <1>1, <1>2 DEF Keys

\* update: a column filled with the scores of items that have a row shows them.
LEMMA FillShows ==
  ASSUME NEW s, IsSheet(s), NEW d \in DOMAIN s.cells,
         NEW scores, DOMAIN scores = Expected(s, d)
  PROVE  LET t == Fill(s, d, scores)
         IN  /\ IsSheet(t) /\ DOMAIN t.cells = DOMAIN s.cells
             /\ t.rows = s.rows /\ t.mapping = s.mapping
             /\ Shows(t, d, scores)
             /\ \A e \in DOMAIN s.cells : \A charge :
                  e # d /\ Shows(s, e, charge) => Shows(t, e, charge)
<1> DEFINE column == [i \in 1..s.rows |-> Cell(scores, s.mapping[i].key)]
           t == Fill(s, d, scores)
<1>1. t = [s EXCEPT !.done = s.done \cup {d}, !.cells[d] = column]
  BY DEF Fill, Cell
<1> HIDE DEF t, column
<1>2. /\ IsRecord(t) /\ t.rows = s.rows /\ t.mapping = s.mapping
      /\ t.control = s.control /\ t.field = s.field
      /\ t.cells = [s.cells EXCEPT ![d] = column]
  BY <1>1 DEF IsSheet, IsRecord
<1>3. IsList(column, s.rows) /\ \A i \in 1..s.rows : column[i] = Cell(scores, s.mapping[i].key)
  BY DEF column, IsList
<1>4. IsSheet(t) /\ DOMAIN t.cells = DOMAIN s.cells
  BY <1>2, <1>3 DEF IsSheet
<1>5. \A key \in DOMAIN scores : \E i \in 1..s.rows : s.mapping[i].key = key
  BY RangeOfList DEF Expected, IsSheet, IsMapping
<1>6. Shows(t, d, scores)
  BY <1>2, <1>3, <1>5 DEF Shows, IsSheet
<1>7. ASSUME NEW e \in DOMAIN s.cells, NEW charge, e # d, Shows(s, e, charge)
      PROVE  Shows(t, e, charge)
  BY <1>2, <1>7 DEF Shows, IsSheet
<1> QED
  BY <1>2, <1>4, <1>6, <1>7 DEF t

-----------------------------------------------------------------------------
\* sync-rules, for an item that has a row.
LEMMA KeptEntry ==
  ASSUME NEW c \in DOMAIN Configs, NEW e, IsEntry(e), today \in Nat \ {0}, NEW m
  PROVE  LET items == Items(Configs[c])
             t == IF e.key \in Keys(items) THEN Modified(e, items) ELSE Stopped(e)
         IN  /\ IsEntry(t) /\ t.row = e.row /\ t.key = e.key
             /\ EffectiveKnown(e.effective, m) => EffectiveKnown(t.effective, m)
             /\ InactiveKnown(e.inactive) => InactiveKnown(t.inactive)
             /\ \/ \E item \in Range(items) : t.key = item.key /\ t.inactive = item.inactive
                \/ t.key \notin Keys(items) /\ t.inactive # Never
<1> DEFINE items == Items(Configs[c])
           t == IF e.key \in Keys(items) THEN Modified(e, items) ELSE Stopped(e)
<1>1. e = [f \in Fields |-> e[f]] /\ e.key \in AllKeys /\ e.effective \in Nat /\ e.inactive \in Nat
  BY DEF IsEntry
<1>2. CASE e.key \in Keys(items)
  <2> DEFINE item == Find(items, e.key)
  <2>1. item \in Range(items) /\ item.key = e.key
    BY <1>2 DEF Find, Keys
  <2>2. item \in AllItems /\ item.effective \in Nat /\ item.inactive \in Nat
    BY <2>1, ItemsAreListed
  <2>3. t = [e EXCEPT !.audience = item.audience, !.effective = item.effective,
                      !.inactive = item.inactive]
    BY <1>2 DEF Modified
  <2> HIDE DEF t, item, items
  <2>4. /\ t = [f \in Fields |-> t[f]] /\ t.key = e.key /\ t.row = e.row
        /\ t.effective = item.effective /\ t.inactive = item.inactive
    BY <1>1, <2>3 DEF Fields
  <2>5. IsEntry(t)
    BY <1>1, <2>2, <2>4 DEF IsEntry
  <2>6. EffectiveKnown(t.effective, m) /\ InactiveKnown(t.inactive)
    BY <2>2, <2>4 DEF EffectiveKnown, InactiveKnown
  <2> QED
    BY <2>1, <2>4, <2>5, <2>6 DEF t, items
<1>3. CASE e.key \notin Keys(items)
  <2>1. t = IF e.inactive = Never THEN [e EXCEPT !.inactive = today] ELSE e
    BY <1>3 DEF Stopped
  <2> HIDE DEF t, items
  <2>2. /\ t = [f \in Fields |-> t[f]] /\ t.key = e.key /\ t.row = e.row
        /\ t.effective = e.effective
        /\ t.inactive = IF e.inactive = Never THEN today ELSE e.inactive
    BY <1>1, <2>1 DEF Fields
  <2>3. IsEntry(t) /\ t.inactive # Never
    BY <1>1, <2>2 DEF IsEntry, Never
  <2>4. InactiveKnown(e.inactive) => InactiveKnown(t.inactive)
    BY <2>2 DEF InactiveKnown
  <2> QED
    BY <1>3, <2>2, <2>3, <2>4 DEF t, items
<1> QED
  BY <1>2, <1>3

\* For an item that gets a row.
LEMMA AddedEntry ==
  ASSUME NEW c \in DOMAIN Configs, NEW item \in Range(Items(Configs[c])), NEW row,
         today \in Nat, NEW m
  PROVE  LET t == Added(item, row)
         IN  /\ IsEntry(t) /\ t.row = row /\ t.key = item.key /\ t.inactive = item.inactive
             /\ EffectiveKnown(t.effective, m) /\ InactiveKnown(t.inactive)
<1> DEFINE t == Added(item, row)
<1>1. /\ item \in AllItems /\ item.key \in AllKeys
      /\ item.effective \in Nat /\ item.inactive \in Nat
  BY ItemsAreListed
<1>2. t = [key |-> item.key, row |-> row, audience |-> item.audience,
           effective |-> IF item.effective # Never THEN item.effective ELSE today,
           inactive |-> item.inactive]
  BY DEF Added
<1> HIDE DEF t
<1>3. /\ t = [f \in Fields |-> t[f]] /\ t.key = item.key /\ t.row = row
      /\ t.effective = IF item.effective # Never THEN item.effective ELSE today
      /\ t.inactive = item.inactive
  BY <1>2 DEF Fields
<1>4. IsEntry(t)
  BY <1>1, <1>3 DEF IsEntry
<1>5. EffectiveKnown(t.effective, m) /\ InactiveKnown(t.inactive)
  BY <1>1, <1>3 DEF EffectiveKnown, InactiveKnown
<1> QED
  BY <1>3, <1>4, <1>5 DEF t

\* Items keep their rows, and rows that are added name items that had none.
LEMMA SyncedMappingGrows ==
  ASSUME NEW s, IsSheet(s), NEW c \in DOMAIN Configs, Listed(Configs[c]),
         today \in Nat \ {0}, NEW m, Dated(s.mapping, s.rows, m)
  PROVE  LET items == Items(Configs[c])
             mapping == SyncedMapping(s, items)
             rows == Len(mapping)
         IN  /\ rows \in Nat /\ s.rows <= rows /\ IsMapping(mapping, rows)
             /\ \A i \in 1..s.rows : mapping[i].key = s.mapping[i].key
             /\ \A i \in (s.rows + 1)..rows : mapping[i].key \notin Keys(s.mapping)
             /\ Dated(mapping, rows, m)
             /\ Follows(mapping, rows, items)
<1> DEFINE items == Items(Configs[c])
           keys == Keys(s.mapping)
           fresh == Fresh(items, keys)
           k == s.rows
           n == Len(fresh)
           kept(e) == IF e.key \in Keys(items) THEN Modified(e, items) ELSE Stopped(e)
           old == [i \in DOMAIN s.mapping |-> kept(s.mapping[i])]
           new == [i \in DOMAIN fresh |-> Added(fresh[i], k + i)]
           mapping == SyncedMapping(s, items)
           OldLine(i, t) ==
             /\ IsEntry(t) /\ t.row = i /\ t.key = s.mapping[i].key
             /\ EffectiveKnown(t.effective, m) /\ InactiveKnown(t.inactive)
             /\ \/ \E item \in Range(items) : t.key = item.key /\ t.inactive = item.inactive
                \/ t.key \notin Keys(items) /\ t.inactive # Never
           NewLine(i, t) ==
             /\ IsEntry(t) /\ t.row = k + i /\ t.key = fresh[i].key
             /\ EffectiveKnown(t.effective, m) /\ InactiveKnown(t.inactive)
             /\ \E item \in Range(items) : t.key = item.key /\ t.inactive = item.inactive
<1>1. mapping = old \o new
  BY DEF SyncedMapping
<1>2. /\ n \in Nat /\ DOMAIN fresh = 1..n
      /\ \A i \in 1..n : fresh[i] \in Range(items) /\ fresh[i].key \notin keys
      /\ \A i, j \in 1..n : fresh[i].key = fresh[j].key => i = j
      /\ \A item \in Range(items) :
           item.key \notin keys => \E i \in 1..n : fresh[i] = item
  BY FreshListed
<1>3. /\ k \in Nat /\ DOMAIN s.mapping = 1..k
      /\ keys = {s.mapping[i].key : i \in 1..k}
      /\ \A i \in 1..k : IsEntry(s.mapping[i]) /\ s.mapping[i].row = i
      /\ \A i, j \in 1..k : s.mapping[i].key = s.mapping[j].key => i = j
  <2>1. IsMapping(s.mapping, k) /\ k \in Nat
    BY DEF IsSheet
  <2>2. keys = {s.mapping[i].key : i \in 1..k}
    BY <2>1, KeysOfSheet
  <2> HIDE DEF k, keys
  <2>3. DOMAIN s.mapping = 1..k
    BY <2>1 DEF IsMapping, IsList
  <2> QED
    BY <2>1, <2>2, <2>3 DEF IsMapping
<1>4. ASSUME NEW i \in 1..k PROVE OldLine(i, old[i])
  <2>1. old[i] = kept(s.mapping[i])
    BY <1>3
  <2>2. EffectiveKnown(s.mapping[i].effective, m) /\ InactiveKnown(s.mapping[i].inactive)
    BY DEF Dated
  <2>3. IsEntry(s.mapping[i]) /\ s.mapping[i].row = i
    BY <1>3
  <2> DEFINE e == s.mapping[i]
  <2>4. /\ IsEntry(kept(e)) /\ kept(e).row = e.row /\ kept(e).key = e.key
        /\ EffectiveKnown(e.effective, m) => EffectiveKnown(kept(e).effective, m)
        /\ InactiveKnown(e.inactive) => InactiveKnown(kept(e).inactive)
        /\ \/ \E item \in Range(items) :
                kept(e).key = item.key /\ kept(e).inactive = item.inactive
           \/ kept(e).key \notin Keys(items) /\ kept(e).inactive # Never
    BY <2>3, KeptEntry
  <2> HIDE DEF kept, old, items
  <2> QED
    BY <2>1, <2>2, <2>3, <2>4
<1>5. ASSUME NEW i \in 1..n PROVE NewLine(i, new[i])
  <2>1. new[i] = Added(fresh[i], k + i) /\ fresh[i] \in Range(items)
    BY <1>2
  <2> DEFINE item == fresh[i]
             t == Added(item, k + i)
  <2>2. /\ IsEntry(t) /\ t.row = k + i /\ t.key = item.key /\ t.inactive = item.inactive
        /\ EffectiveKnown(t.effective, m) /\ InactiveKnown(t.inactive)
    BY <2>1, AddedEntry
  <2> HIDE DEF t, item, new, items
  <2>3. new[i] = t
    BY <2>1 DEF t, item
  <2> QED
    BY <2>1, <2>2, <2>3 DEF item
<1>6. IsList(old, k) /\ IsList(new, n)
  <2> HIDE DEF k, n, kept, fresh
  <2> QED
    BY <1>2, <1>3 DEF IsList
<1> HIDE DEF old, new, kept, mapping, fresh, n, k, OldLine, NewLine
<1>7. IsJoint(mapping, k, old, n, new)
  BY <1>1, <1>2, <1>3, <1>6, Concatenation, Zenon
<1>8. IsList(mapping, k + n) /\ Len(mapping) = k + n
  BY <1>7 DEF IsJoint
<1>9. ASSUME NEW i \in 1..(k + n)
      PROVE  \/ i \in 1..k /\ mapping[i] = old[i] /\ OldLine(i, mapping[i])
             \/ /\ ~(i <= k) /\ i - k \in 1..n /\ k + (i - k) = i
                /\ mapping[i] = new[i - k] /\ NewLine(i - k, mapping[i])
  <2>1. mapping[i] = IF i <= k THEN old[i] ELSE new[i - k]
    BY <1>7 DEF IsJoint
  <2>2. CASE i <= k
    <3>1. i \in 1..k
      BY <1>2, <1>3, <2>2
    <3> QED
      BY <1>4, <2>1, <2>2, <3>1
  <2>3. CASE ~(i <= k)
    <3>1. i - k \in 1..n /\ k + (i - k) = i
      BY <1>2, <1>3, <2>3
    <3> QED
      BY <1>5, <2>1, <2>3, <3>1
  <2> QED
    BY <2>2, <2>3
<1>10. ASSUME NEW i \in 1..k
       PROVE  i \in 1..(k + n) /\ mapping[i].key = s.mapping[i].key
  <2>1. i \in 1..(k + n) /\ i <= k
    BY <1>2, <1>3
  <2> QED
    BY <1>9, <2>1 DEF OldLine
<1>11. ASSUME NEW i \in 1..n
       PROVE  k + i \in 1..(k + n) /\ mapping[k + i].key = fresh[i].key
  <2>1. k + i \in 1..(k + n) /\ ~(k + i <= k) /\ (k + i) - k = i
    BY <1>2, <1>3
  <2> QED
    BY <1>9, <2>1 DEF NewLine
<1>12. IsMapping(mapping, k + n)
  <2>1. ASSUME NEW i \in 1..(k + n)
        PROVE  IsEntry(mapping[i]) /\ mapping[i].row = i
    BY <1>9 DEF OldLine, NewLine
  <2>2. ASSUME NEW i \in 1..(k + n), NEW j \in 1..(k + n), mapping[i].key = mapping[j].key
        PROVE  i = j
    <3>1. /\ i \in 1..k => mapping[i].key = s.mapping[i].key /\ mapping[i].key \in keys
          /\ j \in 1..k => mapping[j].key = s.mapping[j].key /\ mapping[j].key \in keys
      BY <1>3, <1>10
    <3>2. /\ i \notin 1..k => /\ i - k \in 1..n /\ k + (i - k) = i
                              /\ mapping[i].key = fresh[i - k].key
          /\ j \notin 1..k => /\ j - k \in 1..n /\ k + (j - k) = j
                              /\ mapping[j].key = fresh[j - k].key
      BY <1>9 DEF NewLine
    <3>3. CASE i \in 1..k /\ j \in 1..k
      BY <1>3, <2>2, <3>1, <3>3
    <3>4. CASE i \notin 1..k /\ j \notin 1..k
      <4>1. i - k = j - k
        BY <1>2, <2>2, <3>2, <3>4
      <4> QED
        BY <3>2, <3>4, <4>1
    <3>5. CASE i \in 1..k /\ j \notin 1..k
      BY <1>2, <2>2, <3>1, <3>2, <3>5
    <3>6. CASE i \notin 1..k /\ j \in 1..k
      BY <1>2, <2>2, <3>1, <3>2, <3>6
    <3> QED
      BY <3>3, <3>4, <3>5, <3>6
  <2> QED
    BY <1>8, <2>1, <2>2 DEF IsMapping
<1>13. ASSUME NEW i \in (k + 1)..(k + n)
       PROVE  mapping[i].key \notin keys
  <2>1. i \in 1..(k + n) /\ ~(i <= k) /\ i \notin 1..k
    BY <1>2, <1>3
  <2>2. i - k \in 1..n /\ mapping[i].key = fresh[i - k].key
    BY <1>9, <2>1 DEF NewLine
  <2> QED
    BY <1>2, <2>2
<1>14. Dated(mapping, k + n, m)
  BY <1>9 DEF Dated, OldLine, NewLine
<1>15. Follows(mapping, k + n, items)
  <2>1. ASSUME NEW item \in Range(items)
        PROVE  \E i \in 1..(k + n) : mapping[i].key = item.key
    <3>1. CASE item.key \in keys
      <4>1. PICK i \in 1..k : s.mapping[i].key = item.key
        BY <1>3, <3>1
      <4> QED
        BY <1>10, <4>1
    <3>2. CASE item.key \notin keys
      <4>1. PICK i \in 1..n : fresh[i] = item
        BY <1>2, <3>2
      <4> QED
        BY <1>11, <4>1
    <3> QED
      BY <3>1, <3>2
  <2>2. ASSUME NEW i \in 1..(k + n)
        PROVE  \/ \E item \in Range(items) :
                    mapping[i].key = item.key /\ mapping[i].inactive = item.inactive
               \/ mapping[i].key \notin Keys(items) /\ mapping[i].inactive # Never
    BY <1>9 DEF OldLine, NewLine
  <2> QED
    BY <2>1, <2>2 DEF Follows
<1>16. k + n \in Nat /\ k <= k + n
  BY <1>2, <1>3
<1> QED
  BY <1>8, <1>10, <1>12, <1>13, <1>14, <1>15, <1>16 DEF k, mapping, keys, items

\* The workbook keeps showing what it showed; the new rows are empty.
LEMMA SyncedSheet ==
  ASSUME NEW s, IsSheet(s), NEW c \in DOMAIN Configs, Listed(Configs[c]),
         today \in Nat \ {0}, NEW m, Dated(s.mapping, s.rows, m)
  PROVE  LET mapping == SyncedMapping(s, Items(Configs[c]))
             t == Rewritten(Inserted(s, Len(mapping) - s.rows), mapping)
         IN  /\ IsSheet(t) /\ DOMAIN t.cells = DOMAIN s.cells
             /\ t.mapping = mapping /\ t.rows = Len(mapping)
             /\ \A d \in DOMAIN s.cells : \A charge :
                  Shows(s, d, charge) => Shows(t, d, charge)
<1> DEFINE mapping == SyncedMapping(s, Items(Configs[c]))
           rows == Len(mapping)
           count == rows - s.rows
           blanks == [i \in 1..count |-> Blank]
           t == Rewritten(Inserted(s, count), mapping)
<1>1. /\ rows \in Nat /\ s.rows <= rows /\ IsMapping(mapping, rows)
      /\ \A i \in 1..s.rows : mapping[i].key = s.mapping[i].key
      /\ \A i \in (s.rows + 1)..rows : mapping[i].key \notin Keys(s.mapping)
  BY SyncedMappingGrows
<1> HIDE DEF mapping, rows
<1>2. s.rows \in Nat /\ count \in Nat /\ s.rows + count = rows
  BY <1>1 DEF IsSheet
<1> HIDE DEF count
<1>3. /\ IsRecord(t) /\ t.rows = rows /\ t.mapping = mapping
      /\ t.control = RowsOf(mapping, {"control", "shared"})
      /\ t.field = RowsOf(mapping, {"field", "shared"})
      /\ t.cells = [d \in DOMAIN s.cells |-> s.cells[d] \o blanks]
  <2> DEFINE u == Inserted(s, count)
  <2>1. IsRecord(u) /\ u.rows = rows /\ u.cells = [d \in DOMAIN s.cells |-> s.cells[d] \o blanks]
    <3> DEFINE cells == [d \in DOMAIN s.cells |-> s.cells[d] \o blanks]
    <3>1. u = [s EXCEPT !.rows = s.rows + count, !.cells = cells]
      BY DEF Inserted
    <3> HIDE DEF u, cells
    <3> QED
      BY <1>2, <3>1 DEF cells, IsSheet, IsRecord
  <2> HIDE DEF u, blanks
  <2> QED
    BY <2>1, RewrittenSheet DEF u
<1> HIDE DEF t
<1>4. IsList(blanks, count) /\ \A i \in 1..count : blanks[i] = Blank
  BY DEF IsList
<1> HIDE DEF blanks
<1>5. ASSUME NEW d \in DOMAIN s.cells
      PROVE  IsJoint(t.cells[d], s.rows, s.cells[d], count, blanks)
  <2>1. IsList(s.cells[d], s.rows)
    BY DEF IsSheet
  <2>2. IsJoint(s.cells[d] \o blanks, s.rows, s.cells[d], count, blanks)
    BY <1>2, <1>4, <2>1, Concatenation, Zenon
  <2> QED
    BY <1>3, <2>2
<1>6. ASSUME NEW d \in DOMAIN s.cells
      PROVE  /\ IsList(t.cells[d], rows)
             /\ \A i \in 1..rows : i <= s.rows => t.cells[d][i] = s.cells[d][i]
             /\ \A i \in 1..rows : ~(i <= s.rows) => t.cells[d][i] = Blank
  <2>1. IsJoint(t.cells[d], s.rows, s.cells[d], count, blanks)
    BY <1>5
  <2>2. \A i \in 1..rows : ~(i <= s.rows) => i - s.rows \in 1..count
    BY <1>1, <1>2
  <2> QED
    BY <1>2, <1>4, <2>1, <2>2 DEF IsJoint
<1>7. DOMAIN t.cells = DOMAIN s.cells
  BY <1>3
<1>8. IsSheet(t)
  BY <1>1, <1>3, <1>6, <1>7 DEF IsSheet
<1>9. ASSUME NEW d \in DOMAIN s.cells, NEW charge, Shows(s, d, charge)
      PROVE  Shows(t, d, charge)
  <2>1. ASSUME NEW key \in DOMAIN charge
        PROVE  \E i \in 1..t.rows : t.mapping[i].key = key
    <3>1. PICK i \in 1..s.rows : s.mapping[i].key = key
      BY <1>9 DEF Shows
    <3> QED
      BY <1>1, <1>2, <1>3, <3>1
  <2>2. ASSUME NEW i \in 1..t.rows, i <= s.rows
        PROVE  t.cells[d][i] = Cell(charge, t.mapping[i].key)
    <3>1. i \in 1..s.rows
      BY <1>1, <1>2, <1>3, <2>2
    <3> QED
      <4>1. t.mapping[i].key = s.mapping[i].key
        BY <1>1, <1>3, <3>1
      <4>2. t.cells[d][i] = s.cells[d][i]
        BY <1>3, <1>6, <2>2
      <4>3. s.cells[d][i] = Cell(charge, s.mapping[i].key)
        BY <1>9, <3>1 DEF Shows
      <4> QED
        BY <4>1, <4>2, <4>3
  <2>3. ASSUME NEW i \in 1..t.rows, ~(i <= s.rows)
        PROVE  t.cells[d][i] = Cell(charge, t.mapping[i].key)
    <3>1. mapping[i].key \notin Keys(s.mapping)
      BY <1>1, <1>2, <1>3, <2>3
    <3>2. mapping[i].key \notin DOMAIN charge
      <4>1. Keys(s.mapping) = {s.mapping[j].key : j \in 1..s.rows}
        BY KeysOfSheet DEF IsSheet
      <4> QED
        BY <1>9, <3>1, <4>1 DEF Shows
    <3> QED
      BY <1>3, <1>6, <2>3, <3>2 DEF Cell
  <2> QED
    BY <2>1, <2>2, <2>3 DEF Shows
<1> QED
  BY <1>3, <1>7, <1>8, <1>9 DEF t, mapping, count, rows

-----------------------------------------------------------------------------
\* The first workbook.
LEMMA InitInv == Init => Inv
<1> SUFFICES ASSUME Init PROVE Inv
  OBVIOUS
<1> DEFINE s == NewBook(Configs[config], <<>>, 1)
<1>1. config \in DOMAIN Configs /\ 1 \in DOMAIN Month /\ Listed(Configs[config])
  BY MonthAssumption, FirstAssumption DEF Init
<1>2. DatesOf(<<>>, 1)
  BY DEF DatesOf, Range
<1>3. /\ IsSheet(s) /\ DOMAIN s.cells = Month[1]
      /\ Dated(s.mapping, s.rows, 1)
      /\ Follows(s.mapping, s.rows, Items(Configs[config]))
      /\ \A d \in Month[1] : Shows(s, d, <<>>)
  BY <1>1, <1>2, NewBookIsSheet
<1> HIDE DEF s
<1>4. /\ book = [m \in DOMAIN Month |-> IF m = 1 THEN {s} ELSE {}]
      /\ charged = [d \in Day |-> <<>>]
      /\ package = [d \in Day |-> {}]
      /\ synced = [m \in DOMAIN Month |-> synced[m]]
      /\ \A m \in DOMAIN Month : synced[m].config = config
  BY DEF Init, s
<1>5. today \in Day
  BY <1>1, FirstDay DEF Init, Day
<1>6. ASSUME NEW m \in DOMAIN Month
      PROVE  MonthInv(m)
  <2>1. \A d \in Month[m] : charged[d] = <<>>
    BY <1>4 DEF Day
  <2>2. \A x \in book[m] : m = 1 /\ x = s
    BY <1>4
  <2>3. 1 \in DOMAIN Month /\ 1 <= 1
    BY <1>1
  <2>4. \A d \in Month[m] : \A key \in DOMAIN charged[d] : charged[d][key] \in Nat
    BY <2>1
  <2> QED
    BY <1>1, <1>3, <1>4, <2>1, <2>2, <2>3, <2>4 DEF MonthInv, Books
<1> QED
  BY <1>1, <1>4, <1>5, <1>6 DEF Inv

\* Time goes on: dates that are past or configured stay so.
LEMMA DatedLater ==
  ASSUME NEW mapping, NEW rows, IsMapping(mapping, rows), NEW m, Dated(mapping, rows, m),
         today \in Nat, today' \in Nat, today <= today'
  PROVE  Dated(mapping, rows, m)'
<1>1. ASSUME NEW date \in Nat
      PROVE  /\ EffectiveKnown(date, m) => EffectiveKnown(date, m)'
             /\ InactiveKnown(date) => InactiveKnown(date)'
  <2>1. date <= today => date <= today'
    OBVIOUS
  <2> QED
    BY <2>1 DEF EffectiveKnown, InactiveKnown
<1>2. \A i \in 1..rows : mapping[i].effective \in Nat /\ mapping[i].inactive \in Nat
  BY DEF IsMapping, IsEntry
<1> QED
  BY <1>1, <1>2 DEF Dated

\* What is unchanged for a month stays true of it.
LEMMA MonthInvKept ==
  ASSUME NEW m \in DOMAIN Month, MonthInv(m), book'[m] = book[m],
         \A d \in Month[m] : charged'[d] = charged[d],
         synced'[m].config = synced[m].config,
         today \in Nat, today' \in Nat, today <= today'
  PROVE  MonthInv(m)'
<1>1. ASSUME NEW s \in book[m] PROVE Dated(s.mapping, s.rows, m)'
  BY DatedLater DEF MonthInv, IsSheet
<1> QED
  BY <1>1 DEF MonthInv, Books

\* What a month must have after its workbook was written.
LEMMA MonthInvOf ==
  ASSUME NEW m \in DOMAIN Month, NEW t, book'[m] = {t},
         today \in Nat, today' = today,
         IsSheet(t), Dated(t.mapping, t.rows, m),
         \E n \in DOMAIN Month : n <= m /\ DOMAIN t.cells = Month[n],
         DOMAIN t.cells = Month[m] =>
           /\ \A d \in Month[m] : Shows(t, d, charged'[d])
           /\ Follows(t.mapping, t.rows, Items(Configs[synced'[m].config])),
         DOMAIN t.cells # Month[m] => \A d \in Month[m] : charged'[d] = <<>>,
         \A d \in Month[m] : \A key \in DOMAIN charged'[d] : charged'[d][key] \in Nat,
         synced'[m].config \in DOMAIN Configs
  PROVE  MonthInv(m)'
<1>1. Dated(t.mapping, t.rows, m)'
  BY DatedLater DEF IsSheet
<1>2. /\ DOMAIN t.cells = Month[m] => Books(m)' = {t}
      /\ DOMAIN t.cells # Month[m] => Books(m)' = {}
  BY DEF Books
<1> QED
  BY <1>1, <1>2 DEF MonthInv

\* A day is in one month.
LEMMA MonthOfDay ==
  ASSUME NEW day \in Day
  PROVE  /\ MonthOf(day) \in DOMAIN Month /\ day \in Month[MonthOf(day)]
         /\ \A m \in DOMAIN Month : day \in Month[m] => m = MonthOf(day)
<1>1. \E m \in DOMAIN Month : day \in Month[m]
  BY DEF Day
<1>2. MonthOf(day) \in DOMAIN Month /\ day \in Month[MonthOf(day)]
  BY <1>1 DEF MonthOf
<1>3. ASSUME NEW m \in DOMAIN Month, NEW n \in DOMAIN Month, day \in Month[m], day \in Month[n],
             m < n
      PROVE  FALSE
  <2>1. day < day
    BY <1>3, MonthAssumption
  <2> QED
    BY <2>1, EveryDay
<1>4. \A m \in DOMAIN Month : m \in Nat
  BY MonthAssumption
<1> QED
  BY <1>2, <1>3, <1>4

\* An earlier month is another one, and begins earlier.
LEMMA EarlierMonth ==
  ASSUME NEW m \in DOMAIN Month, NEW n \in DOMAIN Month, n < m
  PROVE  Month[n] # Month[m] /\ Min(Month[n]) <= Min(Month[m])
<1>1. Min(Month[n]) < Min(Month[m])
  BY FirstDay, MonthAssumption
<1>2. Min(Month[n]) \in Nat /\ Min(Month[m]) \in Nat
  BY FirstDay
<1> QED
  BY <1>1, <1>2

\* update, with and without --force.
LEMMA UpdateInv ==
  ASSUME Inv, NEW day \in Day, NEW force \in BOOLEAN, Update(day, force)
  PROVE  Inv'
<1> DEFINE m == MonthOf(day)
<1>1. m \in DOMAIN Month /\ day \in Month[m]
      /\ \A n \in DOMAIN Month : day \in Month[n] => n = m
  BY MonthOfDay
<1>2. config' = config /\ synced' = synced /\ today' = today
  BY DEF Update
<1>3. today \in Nat /\ today <= today'
  BY <1>2, EveryDay DEF Inv
<1>4. Made(day, force) \subseteq DOMAIN Configs
  BY DEF Inv, Made
<1>5. package' = [d \in Day |-> package'[d]] /\ \A d \in Day : package'[d] \subseteq DOMAIN Configs
  BY <1>4 DEF Update, Inv
<1>6. CASE UNCHANGED <<book, charged>>
  <2>1. \A n \in DOMAIN Month : MonthInv(n)'
    BY <1>2, <1>3, <1>6, MonthInvKept DEF Inv
  <2> QED
    BY <1>2, <1>5, <1>6, <2>1 DEF Inv
<1>7. CASE ~UNCHANGED <<book, charged>>
  <2>1. PICK sheet \in book[m] : \E scores :
          /\ day \in DOMAIN sheet.cells
          /\ scores \in UNION {Readings[<<c, day>>] : c \in Made(day, force)}
          /\ DOMAIN scores = Expected(sheet, day)
          /\ book' = [book EXCEPT ![m] = {Fill(sheet, day, scores)}]
          /\ charged' = [charged EXCEPT ![day] = scores]
    BY <1>7 DEF Update, Fits
  <2>2. PICK scores :
          /\ day \in DOMAIN sheet.cells
          /\ scores \in UNION {Readings[<<c, day>>] : c \in Made(day, force)}
          /\ DOMAIN scores = Expected(sheet, day)
          /\ book' = [book EXCEPT ![m] = {Fill(sheet, day, scores)}]
          /\ charged' = [charged EXCEPT ![day] = scores]
    BY <2>1
  <2>3. \A key \in DOMAIN scores : scores[key] \in Nat
    <3>1. PICK c \in Made(day, force) : scores \in Readings[<<c, day>>]
      BY <2>2
    <3> QED
      BY <1>4, <3>1, ScoresRead
  <2> HIDE DEF m
  <2> DEFINE t == Fill(sheet, day, scores)
  <2>4. IsSheet(sheet)
    BY <1>1 DEF Inv, MonthInv
  <2>5. /\ IsSheet(t) /\ DOMAIN t.cells = DOMAIN sheet.cells
        /\ t.rows = sheet.rows /\ t.mapping = sheet.mapping
        /\ Shows(t, day, scores)
        /\ \A e \in DOMAIN sheet.cells : \A charge :
             e # day /\ Shows(sheet, e, charge) => Shows(t, e, charge)
    BY <2>2, <2>4, FillShows
  <2>6. /\ book' = [n \in DOMAIN Month |-> book'[n]]
        /\ charged' = [d \in Day |-> charged'[d]]
    BY <2>2 DEF Inv
  <2>7. /\ book'[m] = {t} /\ \A n \in DOMAIN Month : n # m => book'[n] = book[n]
        /\ charged'[day] = scores /\ \A d \in Day : d # day => charged'[d] = charged[d]
    BY <1>1, <2>2 DEF Inv
  <2> HIDE DEF t
  <2>8. DOMAIN sheet.cells = Month[m]
    <3>1. PICK n \in DOMAIN Month : DOMAIN sheet.cells = Month[n]
      BY <2>4 DEF IsSheet
    <3> QED
      BY <1>1, <2>2, <3>1
  <2>9. /\ sheet \in Books(m)
        /\ \A d \in Month[m] : Shows(sheet, d, charged[d])
        /\ \A d \in Month[m] : \A key \in DOMAIN charged[d] : charged[d][key] \in Nat
        /\ Dated(sheet.mapping, sheet.rows, m)
        /\ synced[m].config \in DOMAIN Configs
        /\ Follows(sheet.mapping, sheet.rows, Items(Configs[synced[m].config]))
    BY <1>1, <2>1, <2>8 DEF Inv, MonthInv, Books
  <2>10. ASSUME NEW d \in Month[m]
         PROVE  /\ Shows(t, d, charged'[d])
                /\ \A key \in DOMAIN charged'[d] : charged'[d][key] \in Nat
    <3>1. CASE d = day
      BY <2>3, <2>5, <2>7, <3>1
    <3>2. CASE d # day
      <4>1. d \in Day
        BY <1>1 DEF Day
      <4> QED
        BY <2>5, <2>7, <2>8, <2>9, <3>2, <4>1
    <3> QED
      BY <3>1, <3>2
  <2>11. MonthInv(m)'
    <3>1. m <= m
      BY <1>1, MonthAssumption
    <3>2. \E n \in DOMAIN Month : n <= m /\ DOMAIN t.cells = Month[n]
      BY <1>1, <2>5, <2>8, <3>1
    <3>3. /\ Dated(t.mapping, t.rows, m)
          /\ Follows(t.mapping, t.rows, Items(Configs[synced'[m].config]))
          /\ synced'[m].config \in DOMAIN Configs
      BY <1>2, <2>5, <2>9
    <3>4. DOMAIN t.cells = Month[m]
      BY <2>5, <2>8
    <3> QED
      BY <1>1, <1>2, <1>3, <2>5, <2>7, <2>10, <3>2, <3>3, <3>4, MonthInvOf
  <2>12. ASSUME NEW n \in DOMAIN Month, n # m
         PROVE  MonthInv(n)'
    <3>1. \A d \in Month[n] : d \in Day /\ d # day
      BY <1>1, <2>12 DEF Day
    <3>2. /\ \A d \in Month[n] : charged'[d] = charged[d]
          /\ book'[n] = book[n] /\ MonthInv(n)
      BY <2>7, <2>12, <3>1 DEF Inv
    <3> QED
      BY <1>2, <1>3, <3>2, MonthInvKept
  <2>13. \A n \in DOMAIN Month : MonthInv(n)'
    BY <2>11, <2>12
  <2> QED
    BY <1>2, <1>5, <2>6, <2>13 DEF Inv
<1> QED
  BY <1>6, <1>7

\* sync-rules.
LEMMA SyncRulesInv ==
  ASSUME Inv, NEW m \in DOMAIN Month, SyncRules(m)
  PROVE  Inv'
<1>1. /\ config' = config /\ charged' = charged /\ today' = today /\ package' = package
      /\ Listed(Configs[config])
      /\ synced' = [synced EXCEPT ![m] = [config |-> config, day |-> today]]
  BY DEF SyncRules
<1>2. today \in Nat \ {0} /\ today <= today' /\ config \in DOMAIN Configs
  BY <1>1, EveryDay DEF Inv
<1>3. /\ synced' = [n \in DOMAIN Month |-> synced'[n]] /\ synced'[m].config = config
      /\ \A n \in DOMAIN Month : n # m => synced'[n] = synced[n]
  BY <1>1 DEF Inv
<1>4. PICK sheet \in book[m] :
        LET mapping == SyncedMapping(sheet, Items(Configs[config]))
        IN  book' = IF mapping = sheet.mapping THEN book
                    ELSE [book EXCEPT ![m] =
                      {Rewritten(Inserted(sheet, Len(mapping) - sheet.rows), mapping)}]
  BY DEF SyncRules
<1>5. IsSheet(sheet) /\ Dated(sheet.mapping, sheet.rows, m) /\ book[m] = {sheet}
  BY DEF Inv, MonthInv
<1> DEFINE mapping == SyncedMapping(sheet, Items(Configs[config]))
           u == Rewritten(Inserted(sheet, Len(mapping) - sheet.rows), mapping)
<1>6. /\ Len(mapping) \in Nat /\ IsMapping(mapping, Len(mapping))
      /\ Dated(mapping, Len(mapping), m)
      /\ Follows(mapping, Len(mapping), Items(Configs[config]))
  BY <1>1, <1>2, <1>5, SyncedMappingGrows
<1>7. /\ IsSheet(u) /\ DOMAIN u.cells = DOMAIN sheet.cells
      /\ u.mapping = mapping /\ u.rows = Len(mapping)
      /\ \A d \in DOMAIN sheet.cells : \A charge :
           Shows(sheet, d, charge) => Shows(u, d, charge)
  BY <1>1, <1>2, <1>5, SyncedSheet
<1>8. book' = IF mapping = sheet.mapping THEN book ELSE [book EXCEPT ![m] = {u}]
  BY <1>4
<1> HIDE DEF mapping, u
\* The workbook that is there afterwards, whether it was written or not.
<1>9. PICK t :
        /\ IsSheet(t) /\ DOMAIN t.cells = DOMAIN sheet.cells
        /\ Dated(t.mapping, t.rows, m) /\ Follows(t.mapping, t.rows, Items(Configs[config]))
        /\ \A d \in DOMAIN sheet.cells : \A charge :
             Shows(sheet, d, charge) => Shows(t, d, charge)
        /\ book' = [n \in DOMAIN Month |-> book'[n]] /\ book'[m] = {t}
        /\ \A n \in DOMAIN Month : n # m => book'[n] = book[n]
  <2>1. CASE mapping = sheet.mapping
    <3>1. Len(mapping) = sheet.rows
      <4>1. sheet.rows \in Nat /\ IsList(mapping, sheet.rows)
        BY <1>5, <2>1 DEF IsSheet, IsMapping
      <4>2. IsList(mapping, Len(mapping))
        BY <1>6 DEF IsMapping
      <4>3. 1..sheet.rows = 1..Len(mapping)
        BY <4>1, <4>2 DEF IsList
      <4> QED
        BY <1>6, <4>1, <4>3
    <3>2. book' = book /\ book = [n \in DOMAIN Month |-> book[n]]
      BY <1>8, <2>1 DEF Inv
    <3> QED
      BY <1>5, <1>6, <2>1, <3>1, <3>2
  <2>2. CASE mapping # sheet.mapping
    <3>1. book' = [book EXCEPT ![m] = {u}] /\ book = [n \in DOMAIN Month |-> book[n]]
      BY <1>8, <2>2 DEF Inv
    <3> QED
      BY <1>6, <1>7, <3>1
  <2> QED
    BY <2>1, <2>2
<1>10. PICK n \in DOMAIN Month : n <= m /\ DOMAIN t.cells = Month[n]
  BY <1>5, <1>9 DEF Inv, MonthInv
<1>11. /\ \A d \in Month[m] : \A key \in DOMAIN charged'[d] : charged'[d][key] \in Nat
       /\ synced'[m].config \in DOMAIN Configs
  BY <1>1, <1>2, <1>3 DEF Inv, MonthInv
<1>12. MonthInv(m)'
  <2>1. DOMAIN t.cells = Month[m] => \A d \in Month[m] : Shows(t, d, charged'[d])
    BY <1>1, <1>5, <1>9 DEF Inv, MonthInv, Books
  <2>2. DOMAIN t.cells # Month[m] => \A d \in Month[m] : charged'[d] = <<>>
    BY <1>1, <1>5, <1>9 DEF Inv, MonthInv, Books
  <2>3. Follows(t.mapping, t.rows, Items(Configs[synced'[m].config]))
    BY <1>3, <1>9
  <2> QED
    BY <1>1, <1>2, <1>9, <1>10, <1>11, <2>1, <2>2, <2>3, MonthInvOf
<1>13. ASSUME NEW k \in DOMAIN Month, k # m
       PROVE  MonthInv(k)'
  <2>1. /\ MonthInv(k) /\ book'[k] = book[k] /\ synced'[k].config = synced[k].config
        /\ \A d \in Month[k] : charged'[d] = charged[d]
    BY <1>1, <1>3, <1>9, <1>13 DEF Inv
  <2> QED
    BY <1>1, <1>2, <2>1, MonthInvKept
<1>14. \A k \in DOMAIN Month : MonthInv(k)'
  BY <1>12, <1>13
<1> QED
  BY <1>1, <1>3, <1>9, <1>14 DEF Inv

\* new-month.  A stop of the process leaves a copy with the days of an older month.
LEMMA NewMonthInv ==
  ASSUME Inv, NEW m \in DOMAIN Month, NewMonth(m)
  PROVE  Inv'
<1>1. /\ config' = config /\ charged' = charged /\ today' = today /\ package' = package
      /\ book[m] = {} /\ m - 1 \in DOMAIN Month
      /\ synced' = [synced EXCEPT ![m] = [config |-> config, day |-> today]]
  BY DEF NewMonth
<1>2. today \in Nat /\ today <= today' /\ config \in DOMAIN Configs
  BY <1>1, EveryDay DEF Inv
<1>3. /\ synced' = [n \in DOMAIN Month |-> synced'[n]] /\ synced'[m].config = config
      /\ \A n \in DOMAIN Month : n # m => synced'[n] = synced[n]
  BY <1>1 DEF Inv
<1>4. \A d \in Month[m] : charged'[d] = <<>>
  BY <1>1 DEF Inv, MonthInv, Books
<1>5. m \in Nat /\ m - 1 < m
  BY MonthAssumption
<1>6. PICK sheet \in book[m - 1] :
        \/ /\ Listed(Configs[config])
           /\ book' = [book EXCEPT ![m] = {NewBook(Configs[config], sheet.mapping, m)}]
        \/ book' = [book EXCEPT ![m] = {sheet}]
        \/ UNCHANGED book
  BY DEF NewMonth
<1>7. /\ IsSheet(sheet) /\ Dated(sheet.mapping, sheet.rows, m - 1)
      /\ \E n \in DOMAIN Month : n <= m - 1 /\ DOMAIN sheet.cells = Month[n]
  BY <1>1 DEF Inv, MonthInv
<1>8. Dated(sheet.mapping, sheet.rows, m)
  <2>1. /\ Min(Month[m - 1]) <= Min(Month[m])
        /\ Min(Month[m - 1]) \in Nat /\ Min(Month[m]) \in Nat
    BY <1>1, <1>5, EarlierMonth, FirstDay
  <2>2. ASSUME NEW date \in Nat, EffectiveKnown(date, m - 1)
        PROVE  EffectiveKnown(date, m)
    BY <2>1, <2>2 DEF EffectiveKnown
  <2>3. \A i \in 1..sheet.rows : sheet.mapping[i].effective \in Nat
    BY <1>7 DEF IsSheet, IsMapping, IsEntry
  <2> QED
    BY <1>7, <2>2, <2>3 DEF Dated
<1>9. ASSUME NEW k \in DOMAIN Month, k # m, book'[k] = book[k]
      PROVE  MonthInv(k)'
  <2>1. /\ MonthInv(k) /\ synced'[k].config = synced[k].config
        /\ \A d \in Month[k] : charged'[d] = charged[d]
    BY <1>1, <1>3, <1>9 DEF Inv
  <2> QED
    BY <1>1, <1>2, <1>9, <2>1, MonthInvKept
<1>10. ASSUME NEW t, IsSheet(t), Dated(t.mapping, t.rows, m),
              book' = [book EXCEPT ![m] = {t}],
              \E n \in DOMAIN Month : n <= m /\ DOMAIN t.cells = Month[n],
              DOMAIN t.cells = Month[m] =>
                /\ \A d \in Month[m] : Shows(t, d, <<>>)
                /\ Follows(t.mapping, t.rows, Items(Configs[config]))
       PROVE  Inv'
  <2>1. /\ book' = [n \in DOMAIN Month |-> book'[n]] /\ book'[m] = {t}
        /\ \A n \in DOMAIN Month : n # m => book'[n] = book[n]
    BY <1>10 DEF Inv
  <2>2. MonthInv(m)'
    <3>1. DOMAIN t.cells = Month[m] =>
            /\ \A d \in Month[m] : Shows(t, d, charged'[d])
            /\ Follows(t.mapping, t.rows, Items(Configs[synced'[m].config]))
      BY <1>3, <1>4, <1>10
    <3>2. \A d \in Month[m] : \A key \in DOMAIN charged'[d] : charged'[d][key] \in Nat
      BY <1>4
    <3>3. synced'[m].config \in DOMAIN Configs
      BY <1>2, <1>3
    <3> QED
      BY <1>1, <1>2, <1>4, <1>10, <2>1, <3>1, <3>2, <3>3, MonthInvOf
  <2>3. \A k \in DOMAIN Month : MonthInv(k)'
    BY <1>9, <2>1, <2>2
  <2> QED
    BY <1>1, <1>3, <2>1, <2>3 DEF Inv
<1>11. CASE /\ Listed(Configs[config])
            /\ book' = [book EXCEPT ![m] = {NewBook(Configs[config], sheet.mapping, m)}]
  <2> DEFINE t == NewBook(Configs[config], sheet.mapping, m)
  <2>1. DatesOf(sheet.mapping, m)
    <3>1. Range(sheet.mapping) = {sheet.mapping[i] : i \in 1..sheet.rows}
      BY <1>7, RangeOfList DEF IsSheet, IsMapping
    <3>2. \A i \in 1..sheet.rows : sheet.mapping[i].effective \in Nat
      BY <1>7 DEF IsSheet, IsMapping, IsEntry
    <3> QED
      BY <1>8, <3>1, <3>2 DEF DatesOf, Dated
  <2>2. /\ IsSheet(t) /\ DOMAIN t.cells = Month[m]
        /\ Dated(t.mapping, t.rows, m)
        /\ Follows(t.mapping, t.rows, Items(Configs[config]))
        /\ \A d \in Month[m] : Shows(t, d, <<>>)
    BY <1>2, <1>11, <2>1, NewBookIsSheet
  <2>3. book' = [book EXCEPT ![m] = {t}]
    BY <1>11
  <2> HIDE DEF t
  <2>4. \E n \in DOMAIN Month : n <= m /\ DOMAIN t.cells = Month[n]
    BY <1>5, <2>2
  <2> QED
    BY <1>10, <2>2, <2>3, <2>4
<1>12. CASE book' = [book EXCEPT ![m] = {sheet}]
  <2>1. PICK n \in DOMAIN Month : n <= m - 1 /\ DOMAIN sheet.cells = Month[n]
    BY <1>7
  <2>2. n \in Nat /\ n <= m /\ n < m
    BY <1>5, <2>1, MonthAssumption
  <2>3. DOMAIN sheet.cells # Month[m]
    BY <2>1, <2>2, EarlierMonth
  <2> QED
    BY <1>7, <1>8, <1>10, <1>12, <2>1, <2>2, <2>3
<1>13. CASE UNCHANGED book
  <2>1. MonthInv(m)'
    BY <1>1, <1>2, <1>3, <1>4, <1>13 DEF MonthInv, Books
  <2>2. \A k \in DOMAIN Month : MonthInv(k)'
    BY <1>9, <1>13, <2>1
  <2> QED
    BY <1>1, <1>3, <1>13, <2>2 DEF Inv
<1> QED
  BY <1>6, <1>11, <1>12, <1>13

\* Every step preserves the invariant.
LEMMA NextInv == Inv /\ [Next]_vars => Inv'
<1> SUFFICES ASSUME Inv, [Next]_vars PROVE Inv'
  OBVIOUS
<1>1. today \in Nat
  BY EveryDay DEF Inv
<1>2. CASE Tomorrow
  <2>1. today' \in Day /\ today' \in Nat /\ today <= today'
    BY <1>1, <1>2 DEF Tomorrow
  <2>2. UNCHANGED <<config, package, book, charged, synced>>
    BY <1>2 DEF Tomorrow
  <2>3. \A m \in DOMAIN Month : MonthInv(m)'
    BY <1>1, <2>1, <2>2, MonthInvKept DEF Inv
  <2> QED
    BY <2>1, <2>2, <2>3 DEF Inv
<1>3. CASE Reconfigure \/ UNCHANGED vars
  <2>1. UNCHANGED <<today, package, book, charged, synced>> /\ config' \in DOMAIN Configs
    BY <1>3 DEF Reconfigure, vars, Inv
  <2>2. \A m \in DOMAIN Month : MonthInv(m)'
    BY <1>1, <2>1, MonthInvKept DEF Inv
  <2> QED
    BY <2>1, <2>2 DEF Inv
<1> QED
  BY <1>2, <1>3, UpdateInv, SyncRulesInv, NewMonthInv DEF Next

-----------------------------------------------------------------------------
\* What a finished workbook of a month is.
LEMMA FinishedBook ==
  ASSUME Inv, NEW m \in DOMAIN Month, NEW sheet \in Books(m)
  PROVE  /\ IsSheet(sheet) /\ sheet.rows \in Nat /\ IsMapping(sheet.mapping, sheet.rows)
         /\ Dated(sheet.mapping, sheet.rows, m)
         /\ \A d \in Month[m] :
              /\ Shows(sheet, d, charged[d])
              /\ \A key \in DOMAIN charged[d] : charged[d][key] \in Nat
         /\ synced[m].config \in DOMAIN Configs
         /\ Follows(sheet.mapping, sheet.rows, Items(Configs[synced[m].config]))
         /\ Range(sheet.mapping) = {sheet.mapping[i] : i \in 1..sheet.rows}
<1>1. sheet \in book[m] /\ MonthInv(m)
  BY DEF Inv, Books
<1>2. IsSheet(sheet) /\ Dated(sheet.mapping, sheet.rows, m)
  BY <1>1 DEF MonthInv
<1>3. sheet.rows \in Nat /\ IsMapping(sheet.mapping, sheet.rows)
  BY <1>2 DEF IsSheet
<1>4. Range(sheet.mapping) = {sheet.mapping[i] : i \in 1..sheet.rows}
  BY <1>3, RangeOfList DEF IsMapping
<1>5. ASSUME NEW d \in Month[m]
      PROVE  /\ Shows(sheet, d, charged[d])
             /\ \A key \in DOMAIN charged[d] : charged[d][key] \in Nat
  BY <1>1 DEF MonthInv
<1>6. /\ synced[m].config \in DOMAIN Configs
      /\ Follows(sheet.mapping, sheet.rows, Items(Configs[synced[m].config]))
  BY <1>1 DEF MonthInv
<1> QED
  BY <1>2, <1>3, <1>4, <1>5, <1>6

\* The invariant says what the workbook shows.
LEMMA InvShows == Inv => ChargesStayWithItems
<1> SUFFICES ASSUME Inv, NEW m \in DOMAIN Month, NEW sheet \in Books(m), NEW d \in Month[m]
    PROVE  LET shown(key) == {sheet.cells[d][e.row] :
                                e \in {f \in Range(sheet.mapping) : f.key = key}}
           IN  /\ \A key \in DOMAIN charged[d] :
                    charged[d][key] > 0 => shown(key) = {-charged[d][key]}
               /\ \A e \in Range(sheet.mapping) :
                    sheet.cells[d][e.row] # Blank => e.key \in DOMAIN charged[d]
  BY DEF ChargesStayWithItems
<1>1. /\ IsMapping(sheet.mapping, sheet.rows) /\ Shows(sheet, d, charged[d])
      /\ Range(sheet.mapping) = {sheet.mapping[i] : i \in 1..sheet.rows}
  BY FinishedBook
<1>2. \A e \in Range(sheet.mapping) : sheet.cells[d][e.row] = Cell(charged[d], e.key)
  BY <1>1 DEF IsMapping, Shows
<1>3. \A key \in DOMAIN charged[d] : \E e \in Range(sheet.mapping) : e.key = key
  BY <1>1 DEF Shows
<1> QED
  BY <1>2, <1>3 DEF Cell

-----------------------------------------------------------------------------
\* A sum of cells.
LEMMA SumOfCells ==
  ASSUME NEW rows, IsFiniteSet(rows), NEW cells, \A r \in rows : cells[r] \in Int
  PROVE  MapThenSumSet(LAMBDA r : cells[r], rows) = SumOf(cells, rows)
<1> DEFINE Folds(g) == g = [s \in SUBSET rows |-> IF s = {} THEN 0
                              ELSE cells[Pick(s)] + g[s \ {Pick(s)}]]
           g == CHOOSE h : Folds(h)
<1>1. MapThenSumSet(LAMBDA r : cells[r], rows) = g[rows]
  BY DEF MapThenSumSet, MapThenFoldSet, Pick
<1>2. \A h : Folds(h) <=> Sums(h, cells, rows)
  BY DEF Sums
<1>3. Sums(g, cells, rows)
  <2>1. \E h : Sums(h, cells, rows)
    BY SumsExist, rows \in SUBSET rows
  <2> HIDE DEF Folds
  <2> QED
    BY <1>2, <2>1
<1> HIDE DEF g
<1> QED
  BY <1>1, <1>3, SumIs

\* A sum of what was charged.
LEMMA SumOfCharges ==
  ASSUME NEW K, IsFiniteSet(K), NEW charge, \A key \in K : charge[key] \in Int
  PROVE  MapThenSumSet(LAMBDA key : -charge[key], K) = SumOf([key \in K |-> -charge[key]], K)
<1> DEFINE v == [key \in K |-> -charge[key]]
           Folds(g) == g = [s \in SUBSET K |-> IF s = {} THEN 0
                              ELSE -charge[Pick(s)] + g[s \ {Pick(s)}]]
           g == CHOOSE h : Folds(h)
<1>1. MapThenSumSet(LAMBDA key : -charge[key], K) = g[K]
  BY DEF MapThenSumSet, MapThenFoldSet, Pick
<1>2. \A s \in SUBSET K : s # {} => v[Pick(s)] = -charge[Pick(s)]
  BY Picked
<1>3. \A h : Folds(h) <=> Sums(h, v, K)
  <2> HIDE DEF v
  <2> QED
    BY <1>2 DEF Sums
<1>4. \A x \in K : v[x] \in Int
  OBVIOUS
<1>5. Sums(g, v, K)
  <2>1. \E h : Sums(h, v, K)
    <3> HIDE DEF v
    <3> QED
      BY <1>4, SumsExist, K \in SUBSET K
  <2> HIDE DEF Folds, v
  <2> QED
    BY <1>3, <2>1
<1>6. g[K] = SumOf(v, K)
  <2> HIDE DEF v, g
  <2> QED
    BY <1>5, SumIs
<1> HIDE DEF g
<1> QED
  BY <1>1, <1>6

KeysOf(mapping, audiences) == {e.key : e \in {f \in Range(mapping) : f.audience \in audiences}}

\* A column of a day, below the items, showing what was charged.
IsColumn(mapping, rows, cells, charge) ==
  /\ rows \in Nat /\ IsMapping(mapping, rows)
  /\ \A key \in DOMAIN charge : charge[key] \in Nat
  /\ \A i \in 1..rows : cells[i] = Cell(charge, mapping[i].key)
  /\ \A key \in DOMAIN charge : \E i \in 1..rows : mapping[i].key = key

HasTotal(cells, I, charge, K) ==
  /\ IsFiniteSet(I) /\ \A i \in I : cells[i] \in Int
  /\ IsFiniteSet(K) /\ \A key \in K : charge[key] \in Int
  /\ SumOf(cells, I) = SumOf([key \in K |-> -charge[key]], K)

\* A total of the rows of some audiences is what was charged for their items.
LEMMA TotalOf ==
  ASSUME NEW mapping, NEW rows, NEW cells, NEW charge, IsColumn(mapping, rows, cells, charge),
         NEW audiences
  PROVE  HasTotal(cells, RowsOf(mapping, audiences),
                  charge, KeysOf(mapping, audiences) \cap DOMAIN charge)
<1> DEFINE keys == KeysOf(mapping, audiences)
           K == keys \cap DOMAIN charge
           I == {i \in 1..rows : mapping[i].audience \in audiences}
           f == [i \in 1..rows |-> mapping[i].key]
           w == [key \in K |-> -charge[key]]
<1>1. /\ Range(mapping) = {mapping[i] : i \in 1..rows}
      /\ \A i \in 1..rows : mapping[i].row = i
      /\ \A i, j \in 1..rows : mapping[i].key = mapping[j].key => i = j
      /\ rows \in Nat
  BY RangeOfList DEF IsMapping, IsColumn
<1>2. RowsOf(mapping, audiences) = I
  BY <1>1 DEF RowsOf
<1>3. keys = {mapping[i].key : i \in I}
  BY <1>1 DEF KeysOf
<1>4. /\ \A i \in 1..rows : cells[i] = Cell(charge, mapping[i].key)
      /\ \A key \in DOMAIN charge : charge[key] \in Nat
      /\ \A key \in DOMAIN charge : \E i \in 1..rows : mapping[i].key = key
  BY DEF IsColumn
<1> HIDE DEF keys
<1>5. IsFiniteSet(1..rows)
  BY <1>1, FS_Interval
<1>6. IsFiniteSet(I)
  BY <1>5, FS_Subset, I \subseteq 1..rows
<1>7. IsFiniteSet(K)
  <2>1. IsFiniteSet(keys)
    <3> DEFINE g == [i \in I |-> mapping[i].key]
    <3>1. g \in Surjection(I, keys)
      BY <1>3 DEF Surjection
    <3> HIDE DEF I, g
    <3> QED
      BY <1>6, <3>1, FS_Surjection
  <2> QED
    BY <2>1, FS_Subset, K \subseteq keys
<1>8. \A i \in 1..rows : cells[i] = (IF f[i] \in DOMAIN charge THEN -charge[f[i]] ELSE 0)
  <2>1. ASSUME NEW i \in 1..rows
        PROVE  cells[i] = (IF f[i] \in DOMAIN charge THEN -charge[f[i]] ELSE 0)
    <3>1. f[i] = mapping[i].key /\ cells[i] = Cell(charge, f[i])
      BY <1>4
    <3> HIDE DEF f
    <3>2. CASE f[i] \in DOMAIN charge
      <4>1. charge[f[i]] \in Nat
        BY <1>4, <3>2
      <4> QED
        BY <3>1, <3>2, <4>1 DEF Cell, Blank
    <3>3. CASE f[i] \notin DOMAIN charge
      BY <3>1, <3>3 DEF Cell, Blank
    <3> QED
      BY <3>2, <3>3
  <2> QED
    BY <2>1
<1>9. \A i \in I : f[i] \in keys
  BY <1>3
<1>10. \A i \in I : cells[i] = IF f[i] \in K THEN w[f[i]] ELSE 0
  <2>1. ASSUME NEW i \in I
        PROVE  cells[i] = IF f[i] \in K THEN w[f[i]] ELSE 0
    <3>1. /\ cells[i] = (IF f[i] \in DOMAIN charge THEN -charge[f[i]] ELSE 0)
          /\ f[i] \in K <=> f[i] \in DOMAIN charge
      BY <1>8, <1>9
    <3> HIDE DEF f
    <3> QED
      BY <3>1
  <2> QED
    BY <2>1
<1>11. \A k \in K : w[k] \in Int /\ charge[k] \in Int
  BY <1>4
<1>12. \A i \in I : cells[i] \in Int
  <2> HIDE DEF K, w, f, I
  <2> QED
    BY <1>10, <1>11
<1>13. \A i, j \in I : f[i] = f[j] => i = j
  BY <1>1
<1>14. \A k \in K : \E i \in I : f[i] = k
  BY <1>3
<1> HIDE DEF I, K, f
<1> HIDE DEF w
<1>15. SumOf(cells, I) = SumOf(w, K)
  BY <1>6, <1>7, <1>10, <1>11, <1>12, <1>13, <1>14, SumsCorrespond
<1> QED
  BY <1>2, <1>6, <1>7, <1>11, <1>12, <1>15 DEF K, keys, w, HasTotal

\* It says what the totals are.
LEMMA InvTotals == Inv => TotalsAddUp
<1> SUFFICES ASSUME Inv, NEW m \in DOMAIN Month, NEW sheet \in Books(m), NEW d \in Month[m]
    PROVE  LET total(rows) == MapThenSumSet(LAMBDA r : sheet.cells[d][r], rows)
               keys(audiences) ==
                 {e.key : e \in {f \in Range(sheet.mapping) : f.audience \in audiences}}
               charge(audiences) ==
                 MapThenSumSet(LAMBDA key : -charged[d][key],
                               keys(audiences) \cap DOMAIN charged[d])
           IN  /\ total(sheet.control) = charge({"control", "shared"})
               /\ total(sheet.field) = charge({"field", "shared"})
  BY DEF TotalsAddUp
<1>1. /\ sheet.rows \in Nat /\ IsMapping(sheet.mapping, sheet.rows)
      /\ Shows(sheet, d, charged[d])
      /\ \A key \in DOMAIN charged[d] : charged[d][key] \in Nat
      /\ sheet.control = RowsOf(sheet.mapping, {"control", "shared"})
      /\ sheet.field = RowsOf(sheet.mapping, {"field", "shared"})
  BY FinishedBook DEF IsSheet
<1>2. ASSUME NEW audiences
      PROVE  LET keys == {e.key : e \in {f \in Range(sheet.mapping) : f.audience \in audiences}}
             IN  MapThenSumSet(LAMBDA r : sheet.cells[d][r], RowsOf(sheet.mapping, audiences))
                   = MapThenSumSet(LAMBDA key : -charged[d][key], keys \cap DOMAIN charged[d])
  <2> DEFINE mapping == sheet.mapping
             rows == sheet.rows
             cells == sheet.cells[d]
             charge == charged[d]
             K == KeysOf(mapping, audiences) \cap DOMAIN charge
             I == RowsOf(mapping, audiences)
  <2>1. IsColumn(mapping, rows, cells, charge)
    BY <1>1 DEF Shows, IsColumn
  <2> HIDE DEF mapping, rows, cells, charge
  <2>2. HasTotal(cells, I, charge, K)
    BY <2>1, TotalOf
  <2> HIDE DEF I, K
  <2>3. MapThenSumSet(LAMBDA r : cells[r], I) = SumOf(cells, I)
    BY <2>2, SumOfCells DEF HasTotal
  <2>4. MapThenSumSet(LAMBDA key : -charge[key], K) = SumOf([key \in K |-> -charge[key]], K)
    BY <2>2, SumOfCharges DEF HasTotal
  <2> QED
    BY <2>2, <2>3, <2>4 DEF HasTotal, charge, cells, mapping, I, K, KeysOf
<1> QED
  BY <1>1, <1>2

-----------------------------------------------------------------------------
\* The items of the workbook that apply today are those of the configuration, if no date
\* lies ahead.
LEMMA InvFilled == Inv => FilledOnceSynced
<1> SUFFICES ASSUME Inv, NEW m \in DOMAIN Month, NEW sheet \in Books(m),
                    synced[m].config = config, today \in Month[m],
                    \A item \in Range(Items(Configs[config])) :
                      item.effective = Never /\ item.inactive = Never,
                    \A item \in AllItems : item.effective <= today /\ item.inactive <= today
    PROVE  /\ LayoutValid(sheet)
           /\ \A scores \in Readings[<<config, today>>] : Fits(sheet, today, scores)
  BY DEF FilledOnceSynced
<1> DEFINE items == Items(Configs[config])
           mapping == sheet.mapping
           rows == sheet.rows
<1>1. /\ rows \in Nat /\ IsMapping(mapping, rows) /\ Dated(mapping, rows, m)
      /\ Follows(mapping, rows, items)
      /\ Range(mapping) = {mapping[i] : i \in 1..rows}
  BY FinishedBook
<1>2. config \in DOMAIN Configs /\ today \in Day /\ today \in Nat
  BY EveryDay DEF Inv
<1>3. LayoutValid(sheet)
  <2>1. DOMAIN mapping = 1..rows /\ \A i \in 1..rows : mapping[i].row = i
    BY <1>1, RangeOfList DEF IsMapping
  <2> QED
    BY <2>1 DEF LayoutValid
<1>4. Min(Month[m]) <= today
  BY FirstDay
\* No date lies ahead in the workbook either.
<1>5. ASSUME NEW i \in 1..rows
      PROVE  mapping[i].effective <= today /\ mapping[i].inactive <= today
  <2>1. EffectiveKnown(mapping[i].effective, m) /\ InactiveKnown(mapping[i].inactive)
    BY <1>1 DEF Dated
  <2>2. mapping[i].effective \in Nat /\ mapping[i].inactive \in Nat /\ Min(Month[m]) \in Nat
    BY <1>1, FirstDay DEF IsMapping, IsEntry
  <2> QED
    BY <1>2, <1>4, <2>1, <2>2 DEF EffectiveKnown, InactiveKnown
<1>6. ASSUME NEW i \in 1..rows
      PROVE  AppliesOn(mapping[i], today) <=> mapping[i].key \in Keys(items)
  <2>1. mapping[i].effective \in Nat /\ mapping[i].inactive \in Nat
    BY <1>1 DEF IsMapping, IsEntry
  <2>2. AppliesOn(mapping[i], today) <=> mapping[i].inactive = Never
    BY <1>2, <1>5, <2>1 DEF AppliesOn
  <2>3. CASE \E item \in Range(items) :
               mapping[i].key = item.key /\ mapping[i].inactive = item.inactive
    BY <2>2, <2>3 DEF Keys
  <2>4. CASE mapping[i].key \notin Keys(items) /\ mapping[i].inactive # Never
    BY <2>2, <2>4
  <2> QED
    BY <1>1, <2>3, <2>4 DEF Follows
<1>7. Expected(sheet, today) = Keys(items)
  <2>1. ASSUME NEW key \in Keys(items)
        PROVE  key \in Expected(sheet, today)
    <3>1. PICK item \in Range(items) : key = item.key
      BY DEF Keys
    <3>2. PICK i \in 1..rows : mapping[i].key = item.key
      BY <1>1 DEF Follows
    <3>3. mapping[i] \in Range(mapping) /\ AppliesOn(mapping[i], today) /\ mapping[i].key = key
      BY <1>1, <1>6, <3>1, <3>2
    <3> QED
      BY <3>3 DEF Expected
  <2>2. ASSUME NEW key \in Expected(sheet, today)
        PROVE  key \in Keys(items)
    <3>1. PICK e \in Range(mapping) : AppliesOn(e, today) /\ key = e.key
      BY DEF Expected
    <3> QED
      BY <1>1, <1>6, <3>1
  <2> QED
    BY <2>1, <2>2
<1>8. \A scores \in Readings[<<config, today>>] : Fits(sheet, today, scores)
  BY <1>2, <1>7, ScoresRead DEF Fits
<1> QED
  BY <1>3, <1>8

-----------------------------------------------------------------------------
\* The invariant of the report.
LEMMA Invariance == Spec => []Inv
<1>1. Init => Inv
  BY InitInv
<1>2. Inv /\ [Next]_vars => Inv'
  BY NextInv
<1> QED
  BY <1>1, <1>2, PTL DEF Spec

\* Once a penalty is in the workbook it stays in the row of its item, whatever is
\* reconfigured and synchronised later: report.py keeps the rows of stopped rules.
THEOREM ChargesStay == Spec => []ChargesStayWithItems
BY Invariance, InvShows, PTL

\* The two totals of a day are the sums of what was charged for the items of their
\* audiences, on whatever rows sync-rules has put them: report.py writes the totals anew
\* with every mapping.
THEOREM TotalsAreRight == Spec => []TotalsAddUp
BY Invariance, InvTotals, PTL

\* After sync-rules the items that apply today are the points a package has scores of,
\* so that fill_report.py accepts it, unless a date lies ahead or a score is below zero.
THEOREM SyncedReportCanBeFilled == Spec => []FilledOnceSynced
BY Invariance, InvFilled, PTL

\* A package has for each enabled point the events of its own window and what the most
\* specific scores make of them, however the engine groups windows and points.
THEOREM PointsAreAssessed == Spec => []PointsAssessedAlone
<1>1. Inv => PointsAssessedAlone
  BY AssessedAlone DEF Inv
<1> QED
  BY <1>1, Invariance, PTL

\* The engine's checks on what the rules return never stop a run: if there is no package,
\* the configuration was wrong.
THEOREM AssessmentsFailForConfig == Spec => []FailsOnlyForConfig
<1>1. Inv => FailsOnlyForConfig
  BY FailsForConfig DEF Inv
<1> QED
  BY <1>1, Invariance, PTL

\* Whatever is configured, the mail accepts every package, the workbook too if no score
\* is below zero, both see the same deductions with the same total, and beside each
\* deduction is the chart of its point.
THEOREM PackagesReadAlike == Spec => []PackagesAreReadAlike
<1>1. Inv => PackagesAreReadAlike
  BY ReadAlike DEF Inv
<1> QED
  BY <1>1, Invariance, PTL
=============================================================================
