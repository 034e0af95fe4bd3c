----------------------------- MODULE Retention -----------------------------
(***************************************************************************)
(* internal/retention and its store: a pass rolls the detailed rows up     *)
(* into aggregates that are kept forever, one statement per rollup, and    *)
(* then deletes the rows that outlived their retention, in batches.  A     *)
(* rollup has no watermark: it starts over some way before the newest      *)
(* period it has written and overwrites every period it finds rows of.     *)
(* Meanwhile the tracker and the lobby scan insert rows, each dated a      *)
(* little before its insertion.                                            *)
(*                                                                         *)
(* Rows are those of one server; the three rollups differ in what they     *)
(* read, the length of their periods and whether they take periods that    *)
(* have not ended.  An aggregate is modelled by the set of rows it counts. *)
(***************************************************************************)
EXTENDS Integers, FiniteSets, Sequences

CONSTANTS
  Tables,      \* tables with detailed rows
  Kinds,       \* kinds of rows: what observed what
  TableOf,     \* TableOf[k]: the table rows of kind k are in
  Rollups,     \* the aggregate tables
  Reads,       \* Reads[r]: the kinds rollup r counts
  Period,      \* Period[r]: length of a period, in ticks
  Overlap,     \* Overlap[r]: how far behind its newest period it starts
  ClosedOnly,  \* ClosedOnly[r]: periods that have not ended are left out
  Keep,        \* Keep[t]: retention of table t, 0 to keep its rows
  Steps,       \* the steps of a pass: the rollups, then the tables to clean
  MaxDelay,    \* a row is inserted at most this long after its date
  MaxSilence,  \* the longest time without a new row that a rollup reads
  MaxTime      \* bound of the clock, for model checking only

ASSUME RetentionAssumption ==
  /\ TableOf \in [Kinds -> Tables]
  /\ Reads \in [Rollups -> SUBSET Kinds]
  /\ Period \in [Rollups -> Nat \ {0}]
  /\ Overlap \in [Rollups -> Nat]
  /\ ClosedOnly \in [Rollups -> BOOLEAN]
  /\ Keep \in [Tables -> Nat]
  /\ Steps \in Seq(Rollups \cup Tables)
  /\ Steps # <<>>
  /\ {MaxDelay, MaxSilence, MaxTime} \subseteq Nat

VARIABLES
  now,      \* the wall clock
  rows,     \* the detailed rows there are
  rolled,   \* rolled[r][n]: the rows counted by period n of rollup r
  step,     \* the step of Run to be taken next, 0 between passes
  started,  \* Run's `now`, read once
  recorded  \* history: every row there ever was

vars == <<now, rows, rolled, step, started, recorded>>

-----------------------------------------------------------------------------
Time == 0 .. MaxTime
Row == [at: Time, kind: Kinds]

TypeOK ==
  /\ now \in Time
  /\ rows \subseteq recorded
  /\ rolled \in [Rollups -> [Time -> SUBSET recorded]]
  /\ step \in 0 .. Len(Steps)
  /\ started \in Time
  /\ recorded \subseteq Row

Init ==
  /\ now = 0
  /\ rows = {}
  /\ rolled = [r \in Rollups |-> [n \in Time |-> {}]]
  /\ step = 0
  /\ started = 0
  /\ recorded = {}

-----------------------------------------------------------------------------
(* A rollup *)

PeriodOf(r, x) == x.at \div Period[r]

Written(r) == {n \in Time : rolled[r][n] # {}}

\* Faulty variant: the overlap does not begin where a period does.
InRangeMidPeriod(r, x) ==
  \/ Written(r) = {}
  \/ \E n \in Written(r) : /\ \A m \in Written(r) : m <= n
                           /\ x.at > n * Period[r] - Overlap[r]

\* COALESCE(max(bucket) - overlap, min(observed_at)): from the overlap on, or
\* from the oldest row, that is from every row, if nothing was ever rolled up.
InRange(r, x) ==
  \/ Written(r) = {}
  \/ \E n \in Written(r) : /\ \A m \in Written(r) : m <= n
                           /\ x.at >= n * Period[r] - Overlap[r]

\* The upper bound: the end of the last closed period, or Run's `now`.
Settled(r, x) ==
  IF ClosedOnly[r] THEN x.at < (started \div Period[r]) * Period[r]
  ELSE x.at <= started

Counted(r, n) ==
  {x \in rows : /\ x.kind \in Reads[r]
                /\ PeriodOf(r, x) = n
                /\ InRange(r, x)
                /\ Settled(r, x)}

\* Faulty variant: ON CONFLICT DO NOTHING.
InsertOnly(r) ==
  [n \in Time |-> IF rolled[r][n] # {} THEN rolled[r][n] ELSE Counted(r, n)]

\* GROUP BY period, ON CONFLICT DO UPDATE: periods without rows stay as they are.
Upsert(r) ==
  [n \in Time |-> IF Counted(r, n) # {} THEN Counted(r, n) ELSE rolled[r][n]]

-----------------------------------------------------------------------------
(* The environment: polls and scans insert rows *)

\* Some polls come through: no rollup waits longer than MaxSilence for a row.
RowsKeepComing ==
  \A r \in Rollups :
    LET dates == {x.at : x \in {y \in recorded : y.kind \in Reads[r]}}
    IN  dates # {} => \E t \in dates : now < t + MaxSilence

Tick ==
  /\ now < MaxTime
  /\ RowsKeepComing
  /\ now' = now + 1
  /\ UNCHANGED <<rows, rolled, step, started, recorded>>

Observe ==
  /\ \E k \in Kinds, t \in Time :
       /\ t \in now - MaxDelay .. now
       /\ [at |-> t, kind |-> k] \notin recorded
       /\ rows' = rows \cup {[at |-> t, kind |-> k]}
       /\ recorded' = recorded \cup {[at |-> t, kind |-> k]}
  /\ UNCHANGED <<now, rolled, step, started>>

-----------------------------------------------------------------------------
(* The pass: Service.Run *)

StartPass ==
  /\ step = 0
  /\ step' = 1
  /\ started' = now
  /\ UNCHANGED <<now, rows, rolled, recorded>>

\* Faulty variant: the end of the plan is not the end of the pass.
ProceedPastEnd == step' = step + 1

Proceed == step' = IF step = Len(Steps) THEN 0 ELSE step + 1

RollUp ==
  /\ step > 0
  /\ Steps[step] \in Rollups
  /\ rolled' = [rolled EXCEPT ![Steps[step]] = Upsert(Steps[step])]
  /\ Proceed
  /\ UNCHANGED <<now, rows, started, recorded>>

\* DeleteOlderThan(table, now - retention): rows strictly older; 0 keeps all.
Expired(t) ==
  {x \in rows : /\ TableOf[x.kind] = t
                /\ Keep[t] > 0
                /\ x.at < started - Keep[t]}

\* A batch is whatever rows the sub-select happens to find.
DeleteBatch ==
  /\ step > 0
  /\ Steps[step] \in Tables
  /\ \E x \in Expired(Steps[step]) : rows' = rows \ {x}
  /\ UNCHANGED <<now, rolled, step, started, recorded>>

\* Nothing is left to delete in this table.
TableClean ==
  /\ step > 0
  /\ Steps[step] \in Tables
  /\ Expired(Steps[step]) = {}
  /\ Proceed
  /\ UNCHANGED <<now, rows, rolled, started, recorded>>

\* A statement fails or the process dies: the pass ends where it is.
PassFails ==
  /\ step > 0
  /\ step' = 0
  /\ UNCHANGED <<now, rows, rolled, started, recorded>>

Next ==
  \/ Tick
  \/ Observe
  \/ StartPass
  \/ RollUp
  \/ DeleteBatch
  \/ TableClean
  \/ PassFails

Spec == Init /\ [][Next]_vars

-----------------------------------------------------------------------------
(* Safety *)

CountedIn(r, x) == x.kind \in Reads[r] => x \in rolled[r][PeriodOf(r, x)]

\* The aggregates outlive the rows: whatever was deleted is counted in every
\* rollup that reads it, now and for good, although passes fail half-way,
\* rows arrive late and rollups overwrite what they wrote.
RollupsOutliveRows ==
  \A x \in recorded \ rows, r \in Rollups : CountedIn(r, x)

\* When the pass comes to delete, every expired row has been counted: what
\* DeleteOlderThan tells its caller to see to.
CleanupFindsRowsCounted ==
  step > 0 /\ Steps[step] \in Tables =>
    \A x \in Expired(Steps[step]), r \in Rollups : CountedIn(r, x)

\* Every rollup of a pass is made before the first table is cleaned.
RollupsFirst ==
  \A i \in 1 .. Len(Steps), r \in Rollups :
    Steps[i] \in Tables => \E j \in 1 .. i - 1 : Steps[j] = r

\* What a retention has to reach over: the silence, the periods that are
\* recounted, and the one that has begun.
Reach(r) ==
  MaxSilence + Overlap[r] + (IF ClosedOnly[r] THEN 2 * Period[r] ELSE Period[r]) - 1

\* Configurations under which the two properties above are theorems: overlaps
\* are whole periods and cover what arrives late.
RetentionSuffices ==
  /\ Rollups \cap Tables = {}
  /\ RollupsFirst
  /\ \A r \in Rollups :
       /\ Overlap[r] % Period[r] = 0
       /\ Overlap[r] >= MaxDelay
       /\ \A k \in Reads[r] : Keep[TableOf[k]] = 0 \/ Keep[TableOf[k]] >= Reach(r)

\* Counting again never makes an aggregate smaller: each rollup is what it
\* was, with the rows that came since.
RecountsOnlyAdd ==
  [][\A r \in Rollups, n \in Time : rolled[r][n] \subseteq rolled'[r][n]]_rolled

=============================================================================
