-------------------------- MODULE RetentionProofs --------------------------
(***************************************************************************)
(* When the aggregates outlive the rows they were made of, for any tables, *)
(* rollups, periods and clock: the retention has to reach over the longest *)
(* silence, the overlap and the period of every rollup.                    *)
(***************************************************************************)
EXTENDS Retention, WellFoundedInduction, TLAPS

-----------------------------------------------------------------------------
(* Arithmetic of periods *)

\* The integer division of the dates.
LEMMA Division ==
  ASSUME NEW a \in Nat, NEW b \in Nat \ {0}
  PROVE  /\ a \div b \in Nat
         /\ a \div b <= a
         /\ (a \div b) * b \in Nat
         /\ (a \div b) * b <= a
         /\ a < (a \div b) * b + b
OBVIOUS

LEMMA Multiples ==
  ASSUME NEW m \in Nat, NEW n \in Nat, NEW b \in Nat \ {0}, m < n
  PROVE  m * b + b <= n * b
OBVIOUS

\* Boundaries of periods do not cut periods.
LEMMA Aligned ==
  ASSUME NEW a \in Nat, NEW c \in Nat, NEW b \in Nat \ {0}, NEW n \in Nat, NEW k \in Nat,
         a \div b = c \div b, a < n * b - k * b
  PROVE  c < n * b - k * b
<1>1. PICK q \in Nat : q = a \div b
  BY Division
<1>2. q * b <= a /\ c < q * b + b /\ q * b \in Nat
  BY <1>1, Division
<1>3. k < n
  <2>1. ASSUME n <= k PROVE n * b <= k * b
    BY <2>1, Multiples
  <2> QED BY <2>1
<1>4. PICK j \in Nat : n = k + j
  <2>1. n - k \in Nat /\ n = k + (n - k)
    BY <1>3
  <2> QED BY <2>1
<1>5. n * b = k * b + j * b /\ k * b \in Nat /\ j * b \in Nat
  BY <1>4
<1>6. q < j
  <2>1. ASSUME j <= q PROVE j * b <= q * b
    BY <2>1, Multiples
  <2> QED BY <1>2, <1>5, <2>1
<1> QED BY <1>2, <1>5, <1>6, Multiples

\* A set of bounded numbers has a largest one.
LEMMA HasLargest ==
  ASSUME NEW n \in Nat, NEW S \in SUBSET (0 .. n), S # {}
  PROVE  \E x \in S : \A y \in S : y <= x
<1> DEFINE T == {n - x : x \in S}
<1>1. T \subseteq Nat /\ T # {}
  <2>1. \A x \in S : n - x \in Nat
    OBVIOUS
  <2> QED BY <2>1
<1>2. PICK t \in T : \A u \in T : ~(<<u, t>> \in OpToRel(<, Nat))
  BY <1>1, NatLessThanWellFounded, WFMin
<1>3. \A u \in T : ~(u < t)
  BY <1>1, <1>2 DEF OpToRel
<1>4. PICK x \in S : t = n - x
  OBVIOUS
<1>5. ASSUME NEW y \in S PROVE y <= x
  <2>1. n - y \in T
    OBVIOUS
  <2>2. ~(n - y < n - x)
    BY <1>3, <1>4, <2>1
  <2> QED BY <2>2
<1> QED BY <1>5

-----------------------------------------------------------------------------
(* The inductive invariant *)

\* A later period than that of x has been written, so far later that x is
\* not counted again.
Past(r, x) == \E n \in Written(r) : x.at < n * Period[r] - Overlap[r]

\* Nothing comes from the future.
DatesArePast == started <= now /\ \A x \in recorded : x.at <= now

\* An aggregate has rows of its own kinds and period only.
RolledAreItsRows ==
  \A r \in Rollups, n \in Time : \A x \in rolled[r][n] :
    x.kind \in Reads[r] /\ PeriodOf(r, x) = n /\ Settled(r, x)

\* Where RowsKeepComing held whenever the clock went on, no time has a longer
\* silence before it, unless the rows began after it.
SilencesAreShort ==
  \A r \in Rollups, t \in 0 .. now :
    \/ \E x \in recorded : x.kind \in Reads[r] /\ t - MaxSilence <= x.at /\ x.at <= t
    \/ \A x \in recorded : x.kind \in Reads[r] => x.at >= t - MaxDelay

PastIsCounted ==
  \A r \in Rollups, x \in recorded :
    x.kind \in Reads[r] /\ Past(r, x) => x \in rolled[r][PeriodOf(r, x)]

DeletedIsPast ==
  \A r \in Rollups, x \in recorded \ rows : x.kind \in Reads[r] => Past(r, x)

Overdue(x) == Keep[TableOf[x.kind]] > 0 /\ x.at < started - Keep[TableOf[x.kind]]

\* The rollup was made in the pass that runs.
RolledUp(r) == \E j \in 1 .. step - 1 : Steps[j] = r

OverdueIsPast ==
  \A r \in Rollups : RolledUp(r) =>
    \A x \in recorded : x.kind \in Reads[r] /\ Overdue(x) => Past(r, x)

IInv ==
  /\ TypeOK
  /\ DatesArePast
  /\ RolledAreItsRows
  /\ SilencesAreShort
  /\ PastIsCounted
  /\ DeletedIsPast
  /\ OverdueIsPast

-----------------------------------------------------------------------------
(* One rollup *)

\* The figures of a rollup.
LEMMA Figures ==
  ASSUME NEW r \in Rollups
  PROVE  /\ Period[r] \in Nat \ {0} /\ Overlap[r] \in Nat /\ ClosedOnly[r] \in BOOLEAN
         /\ MaxDelay \in Nat /\ MaxSilence \in Nat /\ MaxTime \in Nat
         /\ Reads[r] \subseteq Kinds
         /\ \A k \in Kinds : Keep[TableOf[k]] \in Nat
BY RetentionAssumption

\* Its overlap is a number of periods.
LEMMA OverlapIsPeriods ==
  ASSUME RetentionSuffices, NEW r \in Rollups
  PROVE  \E k \in Nat : Overlap[r] = k * Period[r]
<1>1. Period[r] \in Nat \ {0} /\ Overlap[r] \in Nat /\ Overlap[r] % Period[r] = 0
  BY Figures DEF RetentionSuffices
<1>2. ASSUME NEW a \in Nat, NEW b \in Nat \ {0}, a % b = 0 PROVE a = (a \div b) * b
  BY <1>2
<1> QED BY <1>1, <1>2, Division

\* Rows have dates.
LEMMA Dates ==
  ASSUME TypeOK
  PROVE  /\ now \in Nat /\ started \in Nat
         /\ \A x \in recorded : x.at \in Nat /\ x.at \in Time /\ x.kind \in Kinds
         /\ \A n \in Time : n \in Nat
         /\ rows \subseteq recorded
         /\ \A r \in Rollups, n \in Time : rolled[r][n] \subseteq recorded
BY RetentionAssumption DEF TypeOK, Time, Row

\* The period of a row.
LEMMA PeriodBounds ==
  ASSUME TypeOK, NEW r \in Rollups, NEW x \in recorded
  PROVE  /\ PeriodOf(r, x) \in Time
         /\ PeriodOf(r, x) * Period[r] \in Nat
         /\ PeriodOf(r, x) * Period[r] <= x.at
         /\ x.at < PeriodOf(r, x) * Period[r] + Period[r]
<1>1. x.at \in Nat /\ x.at \in Time /\ Period[r] \in Nat \ {0} /\ MaxTime \in Nat
  BY Dates, Figures
<1>2. /\ x.at \div Period[r] \in Nat /\ x.at \div Period[r] <= x.at
      /\ (x.at \div Period[r]) * Period[r] \in Nat
      /\ (x.at \div Period[r]) * Period[r] <= x.at
      /\ x.at < (x.at \div Period[r]) * Period[r] + Period[r]
  BY <1>1, Division
<1>3. x.at \div Period[r] \in Time
  BY <1>1, <1>2 DEF Time
<1> QED BY <1>2, <1>3 DEF PeriodOf

\* The lower bound of a rollup leaves out what is past, and nothing else.
LEMMA RangeIsNotPast ==
  ASSUME TypeOK, NEW r \in Rollups, NEW x \in recorded
  PROVE  InRange(r, x) <=> ~Past(r, x)
<1>1. Written(r) \subseteq Time /\ MaxTime \in Nat
  BY Figures DEF Written
<1>2. /\ x.at \in Nat /\ Period[r] \in Nat \ {0} /\ Overlap[r] \in Nat
      /\ \A n \in Written(r) : n \in Nat
  BY <1>1, Dates, Figures
<1>3. CASE Written(r) = {}
  BY <1>3 DEF InRange, Past
<1>4. CASE Written(r) # {}
  <2>1. PICK m \in Written(r) : \A n \in Written(r) : n <= m
    BY <1>1, <1>4, HasLargest DEF Time
  <2>2. ASSUME NEW n \in Written(r) PROVE n * Period[r] <= m * Period[r]
    <3>1. n = m \/ n < m
      BY <1>2, <2>1
    <3>2. CASE n < m
      BY <1>2, <3>2, Multiples
    <3> QED BY <1>2, <3>1, <3>2
  <2>3. \A n \in Written(r) : n * Period[r] \in Nat
    BY <1>2
  <2>4. Past(r, x) <=> x.at < m * Period[r] - Overlap[r]
    BY <1>2, <2>2, <2>3 DEF Past
  <2>5. ASSUME InRange(r, x) PROVE x.at >= m * Period[r] - Overlap[r]
    <3>1. PICK n \in Written(r) : (\A i \in Written(r) : i <= n)
                                   /\ x.at >= n * Period[r] - Overlap[r]
      BY <1>4, <2>5 DEF InRange
    <3>2. n = m
      BY <1>2, <2>1, <3>1
    <3> QED BY <3>1, <3>2
  <2>6. (x.at >= m * Period[r] - Overlap[r]) <=> ~(x.at < m * Period[r] - Overlap[r])
    BY <1>2, <2>3
  <2>7. ASSUME x.at >= m * Period[r] - Overlap[r] PROVE InRange(r, x)
    BY <2>1, <2>7 DEF InRange
  <2> QED BY <2>4, <2>5, <2>6, <2>7
<1> QED BY <1>3, <1>4

\* Rows of one period are past together.
LEMMA PeriodsArePastAtOnce ==
  ASSUME RetentionSuffices, TypeOK, NEW r \in Rollups, NEW x \in recorded, NEW y \in recorded,
         PeriodOf(r, x) = PeriodOf(r, y), Past(r, x)
  PROVE  Past(r, y)
<1>1. PICK n \in Written(r) : x.at < n * Period[r] - Overlap[r]
  BY DEF Past
<1>2. PICK k \in Nat : Overlap[r] = k * Period[r]
  BY OverlapIsPeriods
<1>3. n \in Nat /\ x.at \in Nat /\ y.at \in Nat /\ Period[r] \in Nat \ {0}
  BY Dates, Figures DEF Written
<1>4. y.at < n * Period[r] - Overlap[r]
  BY <1>1, <1>2, <1>3, Aligned DEF PeriodOf
<1> QED BY <1>4 DEF Past

\* An earlier row than a settled one is settled, and what was settled stays so.
LEMMA SettledBefore ==
  ASSUME NEW r \in Rollups, NEW x, NEW y, x.at \in Nat, y.at \in Nat, started \in Nat,
         x.at <= y.at, Settled(r, y)
  PROVE  Settled(r, x)
<1>1. Period[r] \in Nat \ {0} /\ ClosedOnly[r] \in BOOLEAN
  BY Figures
<1>2. (started \div Period[r]) * Period[r] \in Nat
  BY <1>1, Division
<1> QED BY <1>1, <1>2 DEF Settled

LEMMA SettledLater ==
  ASSUME NEW r \in Rollups, NEW x, x.at \in Nat, started \in Nat, started' \in Nat,
         started <= started', Settled(r, x)
  PROVE  Settled(r, x)'
<1>1. Period[r] \in Nat \ {0} /\ ClosedOnly[r] \in BOOLEAN
  BY Figures
<1> DEFINE m == started \div Period[r]
           n == started' \div Period[r]
<1>2. /\ m \in Nat /\ n \in Nat /\ m * Period[r] \in Nat /\ n * Period[r] \in Nat
      /\ m * Period[r] <= started /\ started' < n * Period[r] + Period[r]
  BY <1>1, Division
<1>3. m * Period[r] <= n * Period[r]
  <2>1. ASSUME n < m PROVE FALSE
    <3>1. n * Period[r] + Period[r] <= m * Period[r]
      BY <1>1, <1>2, <2>1, Multiples
    <3> QED BY <1>1, <1>2, <3>1
  <2>2. m = n \/ m < n
    BY <1>2, <2>1
  <2>3. CASE m < n
    <3>1. m * Period[r] + Period[r] <= n * Period[r]
      BY <1>1, <1>2, <2>3, Multiples
    <3> QED BY <1>1, <1>2, <3>1
  <2> QED BY <1>2, <2>2, <2>3
<1>4. CASE ClosedOnly[r]
  <2>1. x.at < m * Period[r]
    BY <1>4 DEF Settled
  <2>2. x.at < n * Period[r]
    BY <1>2, <1>3, <2>1
  <2> QED BY <1>4, <2>2 DEF Settled
<1>5. CASE ~ClosedOnly[r]
  BY <1>5 DEF Settled
<1> QED BY <1>4, <1>5

\* The moment up to which a rollup that runs now counts: the end of the pass's
\* last closed period, or its beginning.
LEMMA SettledUpTo ==
  ASSUME TypeOK, NEW r \in Rollups, NEW x \in recorded,
         Keep[TableOf[x.kind]] >= Reach(r), Overdue(x)
  PROVE  \E t \in Nat :
           /\ t <= started
           /\ \A y \in recorded : y.at <= t => Settled(r, y)
           /\ x.at < t - MaxSilence - Overlap[r] - Period[r] + 1
<1>1. /\ Period[r] \in Nat \ {0} /\ Overlap[r] \in Nat /\ ClosedOnly[r] \in BOOLEAN
      /\ MaxSilence \in Nat /\ Keep[TableOf[x.kind]] \in Nat /\ started \in Nat /\ x.at \in Nat
  BY Figures, Dates
<1>2. x.at < started - Reach(r)
  <2>1. Reach(r) \in Int
    BY <1>1 DEF Reach
  <2> QED BY <1>1, <2>1 DEF Overdue
<1>3. CASE ~ClosedOnly[r]
  <2>1. x.at < started - MaxSilence - Overlap[r] - Period[r] + 1
    BY <1>1, <1>2, <1>3 DEF Reach
  <2>2. \A y \in recorded : y.at <= started => Settled(r, y)
    BY <1>3 DEF Settled
  <2> QED BY <1>1, <2>1, <2>2
<1>4. CASE ClosedOnly[r]
  <2> DEFINE end == (started \div Period[r]) * Period[r]
  <2>1. end \in Nat /\ end <= started /\ started < end + Period[r]
    BY <1>1, Division
  <2>2. \A y \in recorded : y.at < end => Settled(r, y)
    BY <1>4 DEF Settled
  <2> HIDE DEF end
  <2>3. x.at < started - MaxSilence - Overlap[r] - 2 * Period[r] + 1
    BY <1>1, <1>2, <1>4 DEF Reach
  <2>4. x.at < (end - 1) - MaxSilence - Overlap[r] - Period[r] + 1
    BY <1>1, <2>1, <2>3
  <2>5. end - 1 \in Nat /\ end - 1 <= started
    BY <1>1, <2>1, <2>4
  <2>6. \A y \in recorded : y.at <= end - 1 => Settled(r, y)
    BY <2>1, <2>2, Dates
  <2> QED BY <2>4, <2>5, <2>6
<1> QED BY <1>1, <1>3, <1>4

\* What a rollup wrote it counts again, and more.
LEMMA RollUpAdds ==
  ASSUME IInv, RetentionSuffices, RollUp, NEW r \in Rollups, NEW n \in Time
  PROVE  rolled[r][n] \subseteq rolled'[r][n]
<1>1. Steps[step] \in Rollups /\ rolled' = [rolled EXCEPT ![Steps[step]] = Upsert(Steps[step])]
  BY DEF RollUp
<1>2. CASE r # Steps[step]
  BY <1>1, <1>2 DEF IInv, TypeOK
<1>3. CASE r = Steps[step]
  <2>1. rolled'[r][n] = IF Counted(r, n) # {} THEN Counted(r, n) ELSE rolled[r][n]
    BY <1>1, <1>3 DEF IInv, TypeOK, Upsert
  <2>2. ASSUME NEW x \in rolled[r][n], Counted(r, n) # {} PROVE x \in Counted(r, n)
    <3>1. PICK y : y \in Counted(r, n)
      BY <2>2
    <3>2. /\ x \in recorded /\ x.kind \in Reads[r] /\ PeriodOf(r, x) = n /\ Settled(r, x)
          /\ y \in recorded /\ PeriodOf(r, y) = n /\ ~Past(r, y)
      BY <3>1, Dates, RangeIsNotPast DEF IInv, RolledAreItsRows, Counted
    <3>3. ~Past(r, x)
      BY <3>2, PeriodsArePastAtOnce DEF IInv
    <3>4. x \in rows /\ InRange(r, x)
      BY <3>2, <3>3, RangeIsNotPast DEF IInv, DeletedIsPast
    <3> QED BY <3>2, <3>4 DEF Counted
  <2> QED BY <2>1, <2>2
<1> QED BY <1>2, <1>3

\* So what is past stays past.
LEMMA PastStays ==
  ASSUME IInv, RetentionSuffices, RollUp, NEW r \in Rollups, NEW x, Past(r, x)
  PROVE  Past(r, x)'
<1>1. PICK n \in Written(r) : x.at < n * Period[r] - Overlap[r]
  BY DEF Past
<1>2. n \in Written(r)'
  BY <1>1, RollUpAdds DEF Written
<1> QED BY <1>1, <1>2 DEF Past

\* What a rollup that runs now counts is counted in its period.
LEMMA RollUpCounts ==
  ASSUME IInv, RetentionSuffices, RollUp, NEW r \in Rollups, r = Steps[step],
         NEW x \in rows, x.kind \in Reads[r], ~Past(r, x), Settled(r, x)
  PROVE  x \in rolled'[r][PeriodOf(r, x)]
<1>1. rolled' = [rolled EXCEPT ![Steps[step]] = Upsert(Steps[step])]
  BY DEF RollUp
<1>2. x \in recorded /\ PeriodOf(r, x) \in Time
  BY PeriodBounds, Dates DEF IInv
<1>3. x \in Counted(r, PeriodOf(r, x))
  BY <1>2, RangeIsNotPast DEF Counted, IInv
<1> QED BY <1>1, <1>2, <1>3 DEF IInv, TypeOK, Upsert

\* It writes nothing but rows of its kinds and period.
LEMMA RollUpWritesItsRows ==
  ASSUME IInv, RollUp
  PROVE  /\ rolled' \in [Rollups -> [Time -> SUBSET recorded]]
         /\ RolledAreItsRows'
<1> DEFINE q == Steps[step]
<1>1. /\ q \in Rollups /\ rolled' = [rolled EXCEPT ![q] = Upsert(q)]
      /\ UNCHANGED <<started, recorded, rows>>
  BY DEF RollUp
<1> HIDE DEF q
<1>2. Upsert(q) \in [Time -> SUBSET recorded]
  BY <1>1, Dates DEF IInv, TypeOK, Upsert, Counted
<1>3. rolled' \in [Rollups -> [Time -> SUBSET recorded]]
  BY <1>1, <1>2 DEF IInv, TypeOK
<1>4. ASSUME NEW r \in Rollups, NEW n \in Time, NEW x \in rolled'[r][n]
      PROVE  x.kind \in Reads[r] /\ PeriodOf(r, x) = n /\ Settled(r, x)
  <2>1. x \in rolled[r][n] \/ x \in Counted(r, n)
    BY <1>1, <1>4 DEF IInv, TypeOK, Upsert
  <2> QED BY <2>1 DEF Counted, IInv, RolledAreItsRows
<1> QED BY <1>1, <1>3, <1>4 DEF RolledAreItsRows, Settled, PeriodOf

\* After the rollup, what is past has been counted: at the latest by it.
LEMMA RollUpKeepsPastCounted ==
  ASSUME IInv, RetentionSuffices, RollUp
  PROVE  PastIsCounted'
<1> SUFFICES ASSUME NEW r \in Rollups, NEW x \in recorded, x.kind \in Reads[r], Past(r, x)'
             PROVE  x \in rolled'[r][PeriodOf(r, x)]
  BY DEF RollUp, PastIsCounted, PeriodOf
<1>1. PeriodOf(r, x) \in Time
  BY PeriodBounds DEF IInv
<1>2. CASE Past(r, x)
  BY <1>1, <1>2, RollUpAdds DEF IInv, PastIsCounted
<1>3. CASE ~Past(r, x)
  <2>1. PICK n \in Written(r)' : x.at < n * Period[r] - Overlap[r]
    BY DEF Past
  <2>2. n \in Time /\ rolled'[r][n] # {}
    BY <2>1 DEF Written
  <2>3. n \notin Written(r)
    BY <1>3, <2>1 DEF Past
  <2>4. r = Steps[step]
    BY <2>2, <2>3 DEF RollUp, Written, IInv, TypeOK
  <2>5. PICK y \in recorded : PeriodOf(r, y) = n /\ Settled(r, y)
    <3>1. PICK y : y \in rolled'[r][n]
      BY <2>2
    <3> QED BY <2>2, <3>1, RollUpWritesItsRows DEF RolledAreItsRows, RollUp, Settled, PeriodOf
  <2>6. n * Period[r] <= y.at /\ n * Period[r] \in Nat
    BY <2>5, PeriodBounds DEF IInv
  <2>7. x.at \in Nat /\ y.at \in Nat /\ Overlap[r] \in Nat /\ started \in Nat
    BY Dates, Figures DEF IInv
  <2>8. x.at <= y.at
    BY <2>1, <2>6, <2>7
  <2>9. Settled(r, x)
    BY <2>5, <2>7, <2>8, SettledBefore
  <2>10. x \in rows
    BY <1>3 DEF IInv, DeletedIsPast
  <2> QED BY <1>3, <2>4, <2>9, <2>10, RollUpCounts
<1> QED BY <1>2, <1>3

\* The rollup of a pass makes past what the pass is going to delete: the
\* newest row it counts is not older than a silence.
LEMMA RollUpMakesOverduePast ==
  ASSUME IInv, RetentionSuffices, RollUp, NEW r \in Rollups, r = Steps[step],
         NEW x \in recorded, x.kind \in Reads[r], Overdue(x)
  PROVE  Past(r, x)'
<1>1. /\ x.at \in Nat /\ Overlap[r] \in Nat /\ Period[r] \in Nat \ {0}
      /\ MaxSilence \in Nat /\ MaxDelay \in Nat /\ started \in Nat /\ now \in Nat
      /\ started <= now
  BY Dates, Figures DEF IInv, DatesArePast
<1>2. Overlap[r] >= MaxDelay /\ Keep[TableOf[x.kind]] >= Reach(r)
  <2>1. Keep[TableOf[x.kind]] \in Nat
    BY Dates, Figures DEF IInv
  <2> QED BY <2>1 DEF RetentionSuffices, Overdue
<1>3. PICK t \in Nat : /\ t <= started
                       /\ \A y \in recorded : y.at <= t => Settled(r, y)
                       /\ x.at < t - MaxSilence - Overlap[r] - Period[r] + 1
  BY <1>2, SettledUpTo DEF IInv
<1>4. PICK y \in recorded : y.kind \in Reads[r] /\ t - MaxSilence <= y.at /\ y.at <= t
  <2>1. t \in 0 .. now
    BY <1>1, <1>3
  <2>2. ~(x.at >= t - MaxDelay)
    BY <1>1, <1>2, <1>3
  <2> QED BY <2>1, <2>2 DEF IInv, SilencesAreShort
<1>5. y.at \in Nat /\ Settled(r, y)
  BY <1>3, <1>4, Dates DEF IInv
<1>6. CASE Past(r, y)
  <2>1. PICK n \in Written(r) : y.at < n * Period[r] - Overlap[r]
    BY <1>6 DEF Past
  <2>2. n * Period[r] \in Nat
    BY <1>1, <2>1, Dates DEF IInv, Written
  <2>3. x.at < n * Period[r] - Overlap[r]
    BY <1>1, <1>3, <1>4, <1>5, <2>1, <2>2
  <2>4. Past(r, x)
    BY <2>1, <2>3 DEF Past
  <2> QED BY <2>4, PastStays
<1>7. CASE ~Past(r, y)
  <2>1. y \in rows
    BY <1>4, <1>7 DEF IInv, DeletedIsPast
  <2> DEFINE n == PeriodOf(r, y)
  <2>2. y \in rolled'[r][n]
    BY <1>4, <1>5, <1>7, <2>1, RollUpCounts
  <2>3. n \in Time /\ n * Period[r] \in Nat /\ y.at < n * Period[r] + Period[r]
    BY PeriodBounds DEF IInv
  <2>4. n \in Written(r)'
    BY <2>2, <2>3 DEF Written
  <2> HIDE DEF n
  <2>5. x.at < n * Period[r] - Overlap[r]
    BY <1>1, <1>3, <1>4, <1>5, <2>3
  <2> QED BY <2>4, <2>5 DEF Past
<1> QED BY <1>6, <1>7

-----------------------------------------------------------------------------
(* The steps *)

\* Nothing is rolled up by going on but what the step rolled up.
LEMMA ProceedRollsUp ==
  ASSUME TypeOK, Proceed, step > 0, NEW r \in Rollups, RolledUp(r)'
  PROVE  RolledUp(r) \/ r = Steps[step]
<1>1. Len(Steps) \in Nat /\ step \in Nat
  BY RetentionAssumption DEF TypeOK
<1>2. PICK j \in 1 .. step' - 1 : Steps[j] = r
  BY DEF RolledUp
<1>3. step' = step + 1
  BY <1>1, <1>2 DEF Proceed
<1>4. j \in 1 .. step - 1 \/ j = step
  BY <1>1, <1>2, <1>3
<1> QED BY <1>2, <1>4 DEF RolledUp

\* A step of the pass stays in the plan.
LEMMA ProceedInPlan == TypeOK /\ Proceed => step' \in 0 .. Len(Steps)
BY RetentionAssumption DEF TypeOK, Proceed

LEMMA InitIInv == Init => IInv
<1> SUFFICES ASSUME Init PROVE IInv
  OBVIOUS
<1>1. MaxTime \in Nat /\ Len(Steps) \in Nat /\ 0 \in Time
  BY RetentionAssumption DEF Time
<1>2. TypeOK
  BY <1>1 DEF Init, TypeOK
<1>3. ~\E r \in Rollups : RolledUp(r)
  BY DEF Init, RolledUp
<1> QED BY <1>2, <1>3 DEF Init, IInv, DatesArePast, RolledAreItsRows, SilencesAreShort,
           PastIsCounted, DeletedIsPast, OverdueIsPast

LEMMA TickKeepsIInv ==
  ASSUME IInv, Tick
  PROVE  IInv'
<1>1. /\ now' = now + 1 /\ now < MaxTime /\ RowsKeepComing
      /\ UNCHANGED <<rows, rolled, step, started, recorded>>
  BY DEF Tick
<1>2. now \in Nat /\ started \in Nat /\ MaxTime \in Nat /\ MaxSilence \in Nat
  BY Dates, RetentionAssumption DEF IInv
<1>3. TypeOK'
  BY <1>1, <1>2 DEF IInv, TypeOK, Time, Row
<1>4. DatesArePast'
  BY <1>1, <1>2, Dates DEF IInv, DatesArePast
<1>5. SilencesAreShort'
  <2> SUFFICES ASSUME NEW r \in Rollups, NEW t \in 0 .. now'
               PROVE  \/ \E x \in recorded : /\ x.kind \in Reads[r]
                                             /\ t - MaxSilence <= x.at /\ x.at <= t
                      \/ \A x \in recorded : x.kind \in Reads[r] => x.at >= t - MaxDelay
    BY <1>1 DEF SilencesAreShort
  <2>1. CASE t \in 0 .. now
    BY <2>1 DEF IInv, SilencesAreShort
  <2>2. CASE t = now + 1
    <3>1. CASE \A x \in recorded : x.kind \notin Reads[r]
      BY <3>1
    <3>2. CASE \E x \in recorded : x.kind \in Reads[r]
      <4>1. PICK x \in recorded : x.kind \in Reads[r] /\ now < x.at + MaxSilence
        BY <1>1, <3>2 DEF RowsKeepComing
      <4>2. x.at \in Nat /\ x.at <= now
        BY Dates DEF IInv, DatesArePast
      <4> QED BY <1>2, <2>2, <4>1, <4>2
    <3> QED BY <3>1, <3>2
  <2> QED BY <1>1, <1>2, <2>1, <2>2
<1> QED BY <1>1, <1>3, <1>4, <1>5 DEF IInv, RolledAreItsRows, PeriodOf, Settled, PastIsCounted,
           Past, Written, DeletedIsPast, OverdueIsPast, RolledUp, Overdue

\* A row that comes late is still counted by the next rollup.
LEMMA ObserveKeepsIInv ==
  ASSUME IInv, RetentionSuffices, Observe
  PROVE  IInv'
<1>1. PICK k \in Kinds, t \in Time :
        /\ t \in now - MaxDelay .. now
        /\ rows' = rows \cup {[at |-> t, kind |-> k]}
        /\ recorded' = recorded \cup {[at |-> t, kind |-> k]}
        /\ UNCHANGED <<now, rolled, step, started>>
  BY DEF Observe
<1> DEFINE new == [at |-> t, kind |-> k]
<1>2. /\ new \in Row /\ new.at = t /\ new.kind = k
      /\ rows' = rows \cup {new} /\ recorded' = recorded \cup {new}
  BY <1>1 DEF Row
<1> HIDE DEF new
<1>3. /\ now \in Nat /\ started \in Nat /\ t \in Nat /\ MaxDelay \in Nat
      /\ now - MaxDelay <= t /\ t <= now /\ started <= now
  BY <1>1, Dates, RetentionAssumption DEF IInv, DatesArePast, Time
<1>4. TypeOK'
  BY <1>1, <1>2 DEF IInv, TypeOK
<1>5. DatesArePast'
  BY <1>1, <1>2, <1>3 DEF IInv, DatesArePast
<1>6. SilencesAreShort'
  <2> SUFFICES ASSUME NEW r \in Rollups, NEW u \in 0 .. now
               PROVE  \/ \E x \in recorded' : /\ x.kind \in Reads[r]
                                              /\ u - MaxSilence <= x.at /\ x.at <= u
                      \/ \A x \in recorded' : x.kind \in Reads[r] => x.at >= u - MaxDelay
    BY <1>1 DEF SilencesAreShort
  <2>1. new.at >= u - MaxDelay
    BY <1>2, <1>3
  <2> QED BY <1>2, <2>1 DEF IInv, SilencesAreShort
<1>7. ASSUME NEW r \in Rollups PROVE ~Past(r, new)
  <2> SUFFICES ASSUME NEW n \in Written(r), new.at < n * Period[r] - Overlap[r] PROVE FALSE
    BY DEF Past
  <2>1. PICK x \in rolled[r][n] : TRUE
    BY DEF Written
  <2>2. x \in recorded /\ PeriodOf(r, x) = n
    BY <2>1, Dates DEF IInv, RolledAreItsRows, Written
  <2>3. x.at \in Nat /\ x.at <= now /\ n * Period[r] \in Nat /\ n * Period[r] <= x.at
    BY <2>2, Dates, PeriodBounds DEF IInv, DatesArePast
  <2>4. Overlap[r] \in Nat /\ Overlap[r] >= MaxDelay
    BY Figures DEF RetentionSuffices
  <2> QED BY <1>2, <1>3, <2>3, <2>4
<1>8. ASSUME NEW r \in Rollups, k \in Reads[r] PROVE ~Overdue(new)
  <2>1. Keep[TableOf[k]] \in Nat /\ (Keep[TableOf[k]] > 0 => Keep[TableOf[k]] >= Reach(r))
    BY <1>8, Figures DEF RetentionSuffices
  <2>2. /\ Overlap[r] \in Nat /\ Overlap[r] >= MaxDelay
        /\ Period[r] \in Nat \ {0} /\ MaxSilence \in Nat
    BY Figures DEF RetentionSuffices
  <2>3. Reach(r) \in Int /\ Reach(r) >= MaxDelay
    <3>1. \A p \in {Period[r], 2 * Period[r]} :
            /\ MaxSilence + Overlap[r] + p - 1 \in Int
            /\ MaxSilence + Overlap[r] + p - 1 >= MaxDelay
      BY <1>3, <2>2
    <3> QED BY <3>1 DEF Reach
  <2> QED BY <1>2, <1>3, <2>1, <2>3 DEF Overdue
<1>9. UNCHANGED rolled /\ \A r \in Rollups : \A x : Past(r, x)' <=> Past(r, x)
  BY <1>1 DEF Past, Written
<1>10. PastIsCounted'
  BY <1>2, <1>7, <1>9 DEF IInv, PastIsCounted, PeriodOf
<1>11. DeletedIsPast'
  BY <1>2, <1>9 DEF IInv, DeletedIsPast
<1>12. OverdueIsPast'
  BY <1>1, <1>2, <1>8, <1>9 DEF IInv, OverdueIsPast, RolledUp, Overdue
<1> QED BY <1>1, <1>4, <1>5, <1>6, <1>10, <1>11, <1>12
        DEF IInv, RolledAreItsRows, PeriodOf, Settled

LEMMA StartPassKeepsIInv ==
  ASSUME IInv, StartPass
  PROVE  IInv'
<1>1. step' = 1 /\ started' = now /\ UNCHANGED <<now, rows, rolled, recorded>>
  BY DEF StartPass
<1>2. TypeOK'
  <2>1. 1 \in 0 .. Len(Steps)
    BY RetentionAssumption
  <2> QED BY <1>1, <2>1 DEF IInv, TypeOK
<1>3. RolledAreItsRows'
  <2>1. started \in Nat /\ started' \in Nat /\ started <= started'
    BY <1>1, Dates DEF IInv, DatesArePast
  <2>2. ASSUME NEW r \in Rollups, NEW n \in Time, NEW x \in rolled[r][n]
        PROVE  x.kind \in Reads[r] /\ PeriodOf(r, x) = n /\ Settled(r, x)'
    <3>1. x.at \in Nat
      BY <2>2, Dates DEF IInv
    <3> QED BY <2>1, <2>2, <3>1, SettledLater DEF IInv, RolledAreItsRows
  <2> QED BY <1>1, <2>2 DEF RolledAreItsRows, PeriodOf
<1>4. \A r \in Rollups : ~RolledUp(r)'
  BY <1>1 DEF RolledUp
<1> QED BY <1>1, <1>2, <1>3, <1>4, Dates DEF IInv, DatesArePast, SilencesAreShort, PastIsCounted,
           Past, Written, PeriodOf, DeletedIsPast, OverdueIsPast

LEMMA RollUpKeepsIInv ==
  ASSUME IInv, RetentionSuffices, RollUp
  PROVE  IInv'
<1>1. /\ step > 0 /\ Proceed /\ Steps[step] \in Rollups
      /\ UNCHANGED <<now, rows, started, recorded>>
  BY DEF RollUp
<1>2. TypeOK'
  BY <1>1, RollUpWritesItsRows, ProceedInPlan DEF IInv, TypeOK
<1>3. DeletedIsPast'
  BY <1>1, PastStays DEF IInv, DeletedIsPast
<1>4. OverdueIsPast'
  <2> SUFFICES ASSUME NEW r \in Rollups, RolledUp(r)',
                      NEW x \in recorded, x.kind \in Reads[r], Overdue(x)
               PROVE  Past(r, x)'
    BY <1>1 DEF OverdueIsPast, Overdue
  <2>1. CASE RolledUp(r)
    BY <2>1, PastStays DEF IInv, OverdueIsPast
  <2>2. CASE r = Steps[step]
    BY <2>2, RollUpMakesOverduePast
  <2> QED BY <1>1, <2>1, <2>2, ProceedRollsUp DEF IInv
<1> QED BY <1>1, <1>2, <1>3, <1>4, RollUpWritesItsRows, RollUpKeepsPastCounted
        DEF IInv, DatesArePast, SilencesAreShort

\* When the pass cleans a table, what is overdue is past.
LEMMA ExpiredIsPast ==
  ASSUME IInv, RetentionSuffices, step > 0, Steps[step] \in Tables,
         NEW x \in Expired(Steps[step]), NEW r \in Rollups, x.kind \in Reads[r]
  PROVE  Past(r, x)
<1>1. step \in 1 .. Len(Steps)
  BY RetentionAssumption DEF IInv, TypeOK
<1>2. RolledUp(r)
  BY <1>1 DEF RetentionSuffices, RollupsFirst, RolledUp
<1>3. x \in recorded /\ Overdue(x)
  BY Dates DEF Expired, Overdue, IInv
<1> QED BY <1>2, <1>3 DEF IInv, OverdueIsPast

LEMMA DeleteBatchKeepsIInv ==
  ASSUME IInv, RetentionSuffices, DeleteBatch
  PROVE  IInv'
<1>1. PICK x \in Expired(Steps[step]) : rows' = rows \ {x}
  BY DEF DeleteBatch
<1>2. step > 0 /\ Steps[step] \in Tables /\ UNCHANGED <<now, rolled, step, started, recorded>>
  BY DEF DeleteBatch
<1>3. DeletedIsPast'
  <2>1. \A r \in Rollups : x.kind \in Reads[r] => Past(r, x)
    BY <1>2, ExpiredIsPast
  <2> QED BY <1>1, <1>2, <2>1 DEF IInv, DeletedIsPast, Past, Written
<1>4. TypeOK'
  BY <1>1, <1>2 DEF IInv, TypeOK
<1> QED BY <1>2, <1>3, <1>4 DEF IInv, DatesArePast, RolledAreItsRows, PeriodOf, Settled,
           SilencesAreShort, PastIsCounted, Past, Written, OverdueIsPast, RolledUp, Overdue

LEMMA TableCleanKeepsIInv ==
  ASSUME IInv, RetentionSuffices, TableClean
  PROVE  IInv'
<1>1. /\ step > 0 /\ Steps[step] \in Tables /\ Proceed
      /\ UNCHANGED <<now, rows, rolled, started, recorded>>
  BY DEF TableClean
<1>2. TypeOK'
  BY <1>1, ProceedInPlan DEF IInv, TypeOK
<1>3. \A r \in Rollups : RolledUp(r)' => RolledUp(r)
  BY <1>1, ProceedRollsUp DEF IInv, RetentionSuffices
<1> QED BY <1>1, <1>2, <1>3 DEF IInv, DatesArePast, RolledAreItsRows, PeriodOf, Settled,
           SilencesAreShort, PastIsCounted, Past, Written, DeletedIsPast, OverdueIsPast, Overdue

LEMMA PassFailsKeepsIInv ==
  ASSUME IInv, PassFails
  PROVE  IInv'
<1>1. step' = 0 /\ UNCHANGED <<now, rows, rolled, started, recorded>>
  BY DEF PassFails
<1>2. TypeOK'
  BY <1>1, RetentionAssumption DEF IInv, TypeOK
<1>3. \A r \in Rollups : ~RolledUp(r)'
  BY <1>1 DEF RolledUp
<1> QED BY <1>1, <1>2, <1>3 DEF IInv, DatesArePast, RolledAreItsRows, PeriodOf, Settled,
           SilencesAreShort, PastIsCounted, Past, Written, DeletedIsPast, OverdueIsPast

LEMMA NextIInv == RetentionSuffices /\ IInv /\ [Next]_vars => IInv'
<1> SUFFICES ASSUME RetentionSuffices, IInv, [Next]_vars PROVE IInv'
  OBVIOUS
<1>1. CASE UNCHANGED vars
  BY <1>1 DEF vars, IInv, TypeOK, DatesArePast, RolledAreItsRows, PeriodOf, Settled,
              SilencesAreShort, PastIsCounted, Past, Written, DeletedIsPast, OverdueIsPast,
              RolledUp, Overdue
<1> QED BY <1>1, TickKeepsIInv, ObserveKeepsIInv, StartPassKeepsIInv, RollUpKeepsIInv,
           DeleteBatchKeepsIInv, TableCleanKeepsIInv, PassFailsKeepsIInv DEF Next

-----------------------------------------------------------------------------
(* The theorems *)

\* With a sufficient retention the inductive invariant always holds.
THEOREM Invariance == ASSUME RetentionSuffices PROVE Spec => []IInv
<1>1. RetentionSuffices
  OBVIOUS
<1>2. IInv /\ [Next]_vars => IInv'
  BY <1>1, NextIInv
<1> QED BY <1>2, InitIInv, PTL DEF Spec

\* Every row, aggregate and step of the retention pass is of its type,
\* whatever the configuration.
THEOREM RetentionIsTyped == Spec => []TypeOK
<1>1. Init => TypeOK
  BY InitIInv DEF IInv
<1>2. TypeOK /\ [Next]_vars => TypeOK'
  <2> SUFFICES ASSUME TypeOK, [Next]_vars PROVE TypeOK'
    OBVIOUS
  <2>1. CASE Tick
    BY <2>1, RetentionAssumption DEF Tick, TypeOK, Time
  <2>2. CASE Observe
    <3>1. PICK k \in Kinds, t \in Time : /\ rows' = rows \cup {[at |-> t, kind |-> k]}
                                         /\ recorded' = recorded \cup {[at |-> t, kind |-> k]}
      BY <2>2 DEF Observe
    <3>2. [at |-> t, kind |-> k] \in Row
      BY DEF Row
    <3> QED BY <2>2, <3>1, <3>2 DEF Observe, TypeOK
  <2>3. CASE StartPass
    <3>1. 1 \in 0 .. Len(Steps)
      BY RetentionAssumption
    <3> QED BY <2>3, <3>1 DEF StartPass, TypeOK
  <2>4. CASE RollUp
    <3>1. Steps[step] \in Rollups /\ rolled' = [rolled EXCEPT ![Steps[step]] = Upsert(Steps[step])]
      BY <2>4 DEF RollUp
    <3>2. Upsert(Steps[step]) \in [Time -> SUBSET recorded]
      BY <3>1 DEF Upsert, Counted, TypeOK
    <3>3. rolled' \in [Rollups -> [Time -> SUBSET recorded]]
      BY <3>1, <3>2 DEF TypeOK
    <3> QED BY <2>4, <3>3, ProceedInPlan DEF RollUp, TypeOK
  <2>5. CASE DeleteBatch
    BY <2>5 DEF DeleteBatch, TypeOK
  <2>6. CASE TableClean
    BY <2>6, ProceedInPlan DEF TableClean, TypeOK
  <2>7. CASE PassFails
    BY <2>7, RetentionAssumption DEF PassFails, TypeOK
  <2>8. CASE UNCHANGED vars
    BY <2>8 DEF vars, TypeOK
  <2> QED BY <2>1, <2>2, <2>3, <2>4, <2>5, <2>6, <2>7, <2>8 DEF Next
<1> QED BY <1>1, <1>2, PTL DEF Spec

\* What the retention deletes stays counted in every rollup that reads it,
\* if it reaches over the silences, the recounted periods and the last one.
THEOREM DeletedRowsStayCounted ==
  ASSUME RetentionSuffices PROVE Spec => []RollupsOutliveRows
<1>1. IInv => RollupsOutliveRows
  BY DEF IInv, TypeOK, RollupsOutliveRows, CountedIn, PastIsCounted, DeletedIsPast
<1> QED BY <1>1, Invariance, PTL

\* The cleanup of a pass finds counted whatever it deletes.
THEOREM CleanupIsSafe ==
  ASSUME RetentionSuffices PROVE Spec => []CleanupFindsRowsCounted
<1>1. RetentionSuffices
  OBVIOUS
<1>2. IInv => CleanupFindsRowsCounted
  <2> SUFFICES ASSUME IInv, step > 0, Steps[step] \in Tables,
                      NEW x \in Expired(Steps[step]), NEW r \in Rollups, x.kind \in Reads[r]
               PROVE  x \in rolled[r][PeriodOf(r, x)]
    BY DEF CleanupFindsRowsCounted, CountedIn
  <2>1. x \in recorded
    BY Dates DEF IInv, Expired
  <2> QED BY <1>1, <2>1, ExpiredIsPast DEF IInv, PastIsCounted
<1> QED BY <1>2, Invariance, PTL

\* No recount makes an aggregate smaller.
THEOREM RecountsAdd ==
  ASSUME RetentionSuffices PROVE Spec => RecountsOnlyAdd
<1>1. RetentionSuffices
  OBVIOUS
<1>2. IInv /\ [Next]_vars => [\A r \in Rollups, n \in Time : rolled[r][n] \subseteq rolled'[r][n]]_rolled
  <2> SUFFICES ASSUME IInv, [Next]_vars, rolled' # rolled,
                      NEW r \in Rollups, NEW n \in Time
               PROVE  rolled[r][n] \subseteq rolled'[r][n]
    OBVIOUS
  <2>1. RollUp
    BY DEF Next, vars, Tick, Observe, StartPass, DeleteBatch, TableClean, PassFails
  <2> QED BY <1>1, <2>1, RollUpAdds
<1> QED BY <1>2, Invariance, PTL DEF Spec, RecountsOnlyAdd

=============================================================================
