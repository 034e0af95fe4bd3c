---------------------------- MODULE PresenceProofs ----------------------------
(***************************************************************************)
(* Theorems about Presence, for every set of players, every number of      *)
(* confirmations, every gap and every bound of the clock.                  *)
(***************************************************************************)
EXTENDS MCPresence, FiniteSetTheorems, TLAPS

-----------------------------------------------------------------------------
(* The inductive invariant *)

\* The history of observations and the answer in flight are in order.
HistoryOrder ==
  /\ phase = "answered" => obs \in Observation
  /\ phase = "answered" => \A o \in observed : o.at < obs.at

\* Every time a session carries is the time of a committed observation.
TimesObserved ==
  \A s \in sessions :
    /\ \E o \in observed : o.at = s.last
    /\ s.absentAt # NoTime => \E o \in observed : o.at = s.absentAt

IInv ==
  /\ TypeOK
  /\ IsFiniteSet(sessions)
  /\ HistoryOrder
  /\ TimesObserved
  /\ SessionTimeline
  /\ SessionsDisjoint

-----------------------------------------------------------------------------
(* One row *)

\* The four ways reconcile treats an open session exclude each other.
LEMMA ReconciledCases ==
  ASSUME NEW s, NEW o
  PROVE  \/ GapExpired(s, o.at) /\ Reconciled(s, o) = CloseAtGap(s)
         \/ ~GapExpired(s, o.at) /\ Extends(s, o) /\ Reconciled(s, o) = Extend(s, o)
         \/ /\ ~GapExpired(s, o.at) /\ Leaves(s, o) /\ Confirmed(s)
            /\ Reconciled(s, o) = CloseLeft(s, o)
         \/ /\ ~GapExpired(s, o.at) /\ ~Extends(s, o) /\ ~Leaves(s, o) /\ ~Confirmed(s)
            /\ Reconciled(s, o) = Suspect(s, o)
BY DEF Reconciled, Extends, Leaves

\* reconcile turns a session row into a session row: same player, same table,
\* same beginning.
LEMMA ReconciledType ==
  ASSUME NEW s \in Session, NEW o \in Observation
  PROVE  /\ Reconciled(s, o) \in Session
         /\ SameVisitor(Reconciled(s, o), s)
         /\ Reconciled(s, o).first = s.first
<1> DEFINE Keeps(r) == r \in Session /\ SameVisitor(r, s) /\ r.first = s.first
<1>1. Keeps(CloseAtGap(s))
  <2>1. CloseAtGap(s) \in Session
    BY DEF CloseAtGap, Session, QueueResults, ClosedStatus
  <2> QED
    BY <2>1 DEF CloseAtGap, SameVisitor, Session
<1>2. Keeps(Extend(s, o))
  <2>1. o.at \in Time /\ NoTime \in Time \cup {NoTime} /\ 0 \in Nat
    BY DEF Observation, Time
  <2>2. Extend(s, o) \in Session
    BY <2>1 DEF Extend, Session, OpenStatus
  <2> QED
    BY <2>2 DEF Extend, SameVisitor, Session
<1>3. AbsentSince(s, o) \in Time
  BY DEF AbsentSince, Session, Observation, Time
<1>4. s.absentPolls + 1 \in Nat
  BY DEF Session
<1>5. Keeps(CloseLeft(s, o))
  <2>1. QueueOutcome(s, o) \in QueueResults
    BY DEF QueueOutcome, QueueResults
  <2>2. CloseLeft(s, o) \in Session
    BY <1>3, <1>4, <2>1 DEF CloseLeft, Session, ClosedStatus
  <2> QED
    BY <2>2 DEF CloseLeft, SameVisitor, Session
<1>6. Keeps(Suspect(s, o))
  <2>1. Suspect(s, o) \in Session
    BY <1>3, <1>4 DEF Suspect, Session, OpenStatus
  <2> QED
    BY <2>1 DEF Suspect, SameVisitor, Session
<1> QED BY <1>1, <1>2, <1>5, <1>6, ReconciledCases

\* The status a row is reconciled to.
LEMMA ReconciledStatus ==
  ASSUME NEW s \in Session, NEW o \in Observation
  PROVE  /\ Leaves(s, o) => /\ Reconciled(s, o).status = "CLOSED_LEFT"
                            /\ Reconciled(s, o).ended = AbsentSince(s, o)
         /\ ~Leaves(s, o) => Reconciled(s, o).status # "CLOSED_LEFT"
<1>1. /\ CloseLeft(s, o).status = "CLOSED_LEFT" /\ CloseLeft(s, o).ended = AbsentSince(s, o)
      /\ CloseAtGap(s).status = "CLOSED_DATA_GAP" /\ Extend(s, o).status = "ONLINE"
      /\ Suspect(s, o).status = "SUSPECTED_GONE"
  BY DEF CloseLeft, CloseAtGap, Extend, Suspect, Session
<1>2. Leaves(s, o) => ~GapExpired(s, o.at) /\ ~Extends(s, o)
  BY DEF Leaves, Extends
<1> QED BY <1>1, <1>2, ReconciledCases

\* A newcomer's row is a session row that has just begun.
LEMMA NewSessionType ==
  ASSUME NEW k \in Kinds, NEW o \in Observation, NEW p \in Players, TypeOK
  PROVE  NewSession(k, p, o) \in Session
<1>1. o.at \in Time /\ NoTime \in Time \cup {NoTime} /\ 0 \in Nat
  BY DEF Observation, Time
<1>2. replayed \in BOOLEAN
  BY DEF TypeOK
<1> QED BY <1>1, <1>2 DEF NewSession, Session, OpenStatus

\* An open row is ONLINE or SUSPECTED_GONE, and has not missed enough polls to
\* be closed.
LEMMA OpenRow ==
  ASSUME NEW s \in Session, TimelineHolds(s), IsOpen(s)
  PROVE  s.status \in OpenStatus /\ s.absentPolls < AbsentConfirmations
<1> USE ConfigAssumption DEF Session, TimelineHolds, IsOpen, NoTime, Time
<1>1. s.status # "CLOSED_LEFT"
  OBVIOUS
<1>2. s.status # "CLOSED_DATA_GAP"
  OBVIOUS
<1>3. s.status \in OpenStatus
  BY <1>1, <1>2 DEF ClosedStatus
<1>4. s.status = "ONLINE" \/ s.status = "SUSPECTED_GONE"
  BY <1>3 DEF OpenStatus
<1> QED BY <1>3, <1>4

\* reconcile keeps a row's timeline, and dates it with nothing but the
\* observation and the times the row had.
LEMMA ReconciledTimeline ==
  ASSUME NEW s \in Session, NEW o \in Observation,
         TimelineHolds(s), IsOpen(s), s.last < o.at
  PROVE  /\ TimelineHolds(Reconciled(s, o))
         /\ Reconciled(s, o).last \in {s.last, o.at}
         /\ Reconciled(s, o).absentAt \in {s.absentAt, o.at, NoTime}
<1> DEFINE Fine(r) == /\ TimelineHolds(r)
                      /\ r.last \in {s.last, o.at}
                      /\ r.absentAt \in {s.absentAt, o.at, NoTime}
<1> USE ConfigAssumption DEF Time, NoTime
<1>1. s.status \in OpenStatus /\ s.absentPolls < AbsentConfirmations
  BY OpenRow
<1>2. /\ s.first \in Nat /\ s.last \in Nat /\ o.at \in Nat /\ s.absentPolls \in Nat
      /\ s.absentAt \in Nat \cup {-1} /\ s.first <= s.last
      /\ s.absentAt # -1 => s.last < s.absentAt
      /\ s.absentAt = -1 <=> s.absentPolls = 0
  BY DEF Session, Observation, TimelineHolds
<1>3. Fine(CloseAtGap(s))
  <2>1. CloseAtGap(s).first = s.first /\ CloseAtGap(s).last = s.last
        /\ CloseAtGap(s).absentAt = s.absentAt /\ CloseAtGap(s).ended = s.last
        /\ CloseAtGap(s).absentPolls = s.absentPolls /\ CloseAtGap(s).status = "CLOSED_DATA_GAP"
    BY DEF CloseAtGap, Session
  <2> QED BY <1>1, <1>2, <2>1 DEF TimelineHolds
<1>4. Fine(Extend(s, o))
  <2> DEFINE r == Extend(s, o)
  <2>1. r.first = s.first /\ r.last = o.at /\ r.absentAt = -1 /\ r.ended = s.ended
        /\ r.absentPolls = 0 /\ r.status = "ONLINE"
    BY DEF Extend, Session
  <2> HIDE DEF r
  <2>2. Fine(r)
    BY <1>2, <2>1 DEF TimelineHolds, IsOpen
  <2> QED BY <2>2 DEF r
<1>5. /\ AbsentSince(s, o) \in Nat /\ s.last < AbsentSince(s, o)
      /\ AbsentSince(s, o) \in {s.absentAt, o.at}
  BY <1>2 DEF AbsentSince
<1>6. Confirmed(s) => Fine(CloseLeft(s, o))
  <2> DEFINE r == CloseLeft(s, o)
  <2>1. r.first = s.first /\ r.last = s.last /\ r.absentAt = AbsentSince(s, o)
        /\ r.ended = AbsentSince(s, o) /\ r.absentPolls = s.absentPolls + 1
        /\ r.status = "CLOSED_LEFT"
    BY DEF CloseLeft, Session
  <2> HIDE DEF r
  <2>2. Confirmed(s) => Fine(r)
    BY <1>1, <1>2, <1>5, <2>1 DEF TimelineHolds, Confirmed
  <2> QED BY <2>2 DEF r
<1>7. ~Confirmed(s) => Fine(Suspect(s, o))
  <2> DEFINE r == Suspect(s, o)
  <2>1. r.first = s.first /\ r.last = s.last /\ r.absentAt = AbsentSince(s, o)
        /\ r.ended = s.ended /\ r.absentPolls = s.absentPolls + 1
        /\ r.status = "SUSPECTED_GONE"
    BY DEF Suspect, Session
  <2> HIDE DEF r
  <2>2. ~Confirmed(s) => Fine(r)
    BY <1>1, <1>2, <1>5, <2>1 DEF TimelineHolds, Confirmed, IsOpen
  <2> QED BY <2>2 DEF r
<1> QED BY <1>3, <1>4, <1>6, <1>7, ReconciledCases

-----------------------------------------------------------------------------
(* One transaction *)

\* A row after the transaction is a closed row of before, an open row
\* reconciled, or the row of a newcomer.
LEMMA RowsAfterApply ==
  ASSUME TypeOK, NEW o \in Observation, ApplyObservation(o), NEW r \in sessions'
  PROVE  \/ r \in sessions /\ ~IsOpen(r)
         \/ \E s \in sessions : IsOpen(s) /\ r = Reconciled(s, o)
         \/ \E k \in Kinds : \E p \in Newcomers(k, o) : r = NewSession(k, p, o)
<1>1. ASSUME r \in ClosedSessions PROVE r \in sessions /\ ~IsOpen(r)
  BY <1>1 DEF ClosedSessions, OpenSessions, TypeOK, Session
<1> QED BY <1>1 DEF ApplyObservation, ReconciledRows, OpenSessions, Kinds

\* The tables stay finite, so the places counted from them are numbers.
LEMMA ReconciledRowsFinite ==
  ASSUME TypeOK, IsFiniteSet(sessions), NEW o \in Observation, NEW k \in Kinds
  PROVE  /\ IsFiniteSet(ReconciledRows(k, o))
         /\ Kept(k, o) \in Nat
         /\ Cardinality(Present(k, o)) \in Nat
<1>1. IsFiniteSet(OpenSessions(k))
  BY FS_Subset DEF OpenSessions
<1>2. Kept(k, o) \in Nat
  <2>1. IsFiniteSet({s \in OpenSessions(k) : Extends(s, o)})
    BY <1>1, FS_Subset
  <2> QED BY <2>1, FS_CardinalityType DEF Kept
<1>3. Present(k, o) \subseteq Players
  BY DEF Present, Observation
<1>4. IsFiniteSet(Present(k, o)) /\ IsFiniteSet(Newcomers(k, o))
  BY <1>3, PlayersAssumption, FS_Subset DEF Newcomers
<1>5. IsFiniteSet({Reconciled(s, o) : s \in OpenSessions(k)})
  <2> DEFINE T == {Reconciled(s, o) : s \in OpenSessions(k)}
             f == [s \in OpenSessions(k) |-> Reconciled(s, o)]
  <2>1. f \in Surjection(OpenSessions(k), T)
    BY DEF Surjection
  <2> QED BY <1>1, <2>1, FS_Surjection
<1>6. IsFiniteSet({NewSession(k, p, o) : p \in Newcomers(k, o)})
  <2> DEFINE T == {NewSession(k, p, o) : p \in Newcomers(k, o)}
             f == [p \in Newcomers(k, o) |-> NewSession(k, p, o)]
  <2>1. f \in Surjection(Newcomers(k, o), T)
    BY DEF Surjection
  <2> QED BY <1>4, <2>1, FS_Surjection
<1>7. IsFiniteSet(ReconciledRows(k, o))
  BY <1>5, <1>6, FS_Union DEF ReconciledRows
<1> QED BY <1>2, <1>4, <1>7, FS_CardinalityType

\* reconcile appends event rows.
LEMMA ReconcileEventsType ==
  ASSUME TypeOK, IsFiniteSet(sessions), NEW o \in Observation, NEW k \in Kinds
  PROVE  ReconcileEvents(k, o) \subseteq Event
<1>1. OpenedPlace(k, o) \in Place
  BY ReconciledRowsFinite DEF OpenedPlace, Arrived, Place, NoPlace
<1>2. \A p \in Newcomers(k, o) : OpenedEvent(k, p, o) \in Event
  <2> SUFFICES ASSUME NEW p \in Newcomers(k, o) PROVE OpenedEvent(k, p, o) \in Event
    OBVIOUS
  <2>1. p \in Players
    BY DEF Newcomers, Present, Observation
  <2>2. o.at \in Time /\ replayed \in BOOLEAN /\ AfterDataGap(o.at) \in BOOLEAN
    BY DEF Observation, TypeOK, AfterDataGap
  <2> QED BY <1>1, <2>1, <2>2 DEF OpenedEvent, Event
<1>3. \A s \in OpenSessions(k) : LeftEvent(s, o) \in Event
  <2> SUFFICES ASSUME NEW s \in OpenSessions(k) PROVE LeftEvent(s, o) \in Event
    OBVIOUS
  <2>1. s \in Session
    BY DEF OpenSessions, TypeOK
  <2>2. AbsentSince(s, o) \in Time /\ o.at \in Time
    BY <2>1 DEF AbsentSince, Session, Observation
  <2>3. NoPlace \in Place
    BY DEF NoPlace, Place
  <2>4. s.kind \in Kinds /\ s.player \in Players /\ s.first \in Time
    BY <2>1 DEF Session
  <2> QED BY <2>2, <2>3, <2>4 DEF LeftEvent, Event
<1> QED BY <1>2, <1>3 DEF ReconcileEvents

\* The times of the committed observations lie before the one being applied,
\* and with them every time a row carries.
LEMMA RowsBeforeObservation ==
  ASSUME IInv, NEW o \in Observation, \A x \in observed : x.at < o.at,
         NEW s \in sessions
  PROVE  /\ s.last < o.at
         /\ s.absentAt < o.at
         /\ ~IsOpen(s) => s.ended < o.at
<1>1. s \in Session /\ o.at \in Nat /\ observed \subseteq Observation
  BY DEF IInv, TypeOK, Observation, Time
<1>2. s.last < o.at
  BY DEF IInv, TimesObserved
<1>3. s.absentAt < o.at
  <2>1. CASE s.absentAt = NoTime
    BY <1>1, <2>1 DEF NoTime
  <2>2. CASE s.absentAt # NoTime
    BY <2>2 DEF IInv, TimesObserved
  <2> QED BY <2>1, <2>2
<1>4. ~IsOpen(s) => s.ended = s.last \/ s.ended = s.absentAt
  <2>1. TimelineHolds(s)
    BY DEF IInv, SessionTimeline
  <2>2. s.status = "ONLINE" \/ s.status = "SUSPECTED_GONE"
        \/ s.status = "CLOSED_LEFT" \/ s.status = "CLOSED_DATA_GAP"
    BY <1>1 DEF Session, OpenStatus, ClosedStatus
  <2> QED BY <2>1, <2>2 DEF TimelineHolds
<1> QED BY <1>2, <1>3, <1>4

\* The transaction keeps the rows' times within those of the committed
\* observations.
LEMMA ApplyTimes ==
  ASSUME IInv, NEW o \in Observation, \A x \in observed : x.at < o.at,
         ApplyObservation(o)
  PROVE  /\ sessions' \subseteq Session
         /\ TimesObserved'
         /\ SessionTimeline'
<1> DEFINE Good(r) == /\ r \in Session
                      /\ TimelineHolds(r)
                      /\ \E x \in observed' : x.at = r.last
                      /\ r.absentAt # NoTime => \E x \in observed' : x.at = r.absentAt
<1> SUFFICES ASSUME NEW r \in sessions' PROVE Good(r)
  BY DEF TimesObserved, SessionTimeline, TimelineHolds, IsOpen
<1>1. TypeOK /\ observed' = observed \cup {o}
  BY DEF IInv, ApplyObservation
<1>2. \A s \in sessions : Good(s)
  BY <1>1 DEF IInv, TypeOK, TimesObserved, SessionTimeline
<1>3. ASSUME NEW s \in sessions, IsOpen(s), r = Reconciled(s, o) PROVE Good(r)
  <2>1. s \in Session /\ TimelineHolds(s) /\ s.last < o.at
    BY RowsBeforeObservation DEF IInv, TypeOK, SessionTimeline
  <2>2. r \in Session
    BY <1>3, <2>1, ReconciledType
  <2>3. /\ TimelineHolds(r) /\ r.last \in {s.last, o.at}
        /\ r.absentAt \in {s.absentAt, o.at, NoTime}
    BY <1>3, <2>1, ReconciledTimeline
  <2> QED BY <1>1, <1>2, <2>2, <2>3
<1>4. ASSUME NEW k \in Kinds, NEW p \in Newcomers(k, o), r = NewSession(k, p, o)
      PROVE  Good(r)
  <2>1. r \in Session
    BY <1>1, <1>4, NewSessionType DEF Newcomers, Present, Observation
  <2>2. /\ r.first = o.at /\ r.last = o.at /\ r.absentAt = NoTime /\ r.ended = NoTime
        /\ r.status = "ONLINE" /\ r.absentPolls = 0
    BY <1>4 DEF NewSession
  <2>3. TimelineHolds(r)
    BY <2>2 DEF TimelineHolds, IsOpen, Observation, Time
  <2> QED BY <1>1, <2>1, <2>2, <2>3
<1> QED BY <1>1, <1>2, <1>3, <1>4, RowsAfterApply

\* The step that matters for SessionsDisjoint: a row continues an open row or
\* starts after everything its player had, because a newcomer is a player
\* without an open row or with one that the gap closes.
LEMMA ApplyDisjoint ==
  ASSUME IInv, NEW o \in Observation, \A x \in observed : x.at < o.at,
         ApplyObservation(o)
  PROVE  SessionsDisjoint'
<1> DEFINE Before(s, u) == ~IsOpen(s) /\ s.last < u.first /\ s.ended <= u.first
           Closed(r) == r \in sessions /\ ~IsOpen(r)
           Continues(r, s) == s \in sessions /\ IsOpen(s) /\ r = Reconciled(s, o)
           Starts(r) == \E k \in Kinds : \E p \in Newcomers(k, o) : r = NewSession(k, p, o)
<1> SUFFICES ASSUME NEW r \in sessions', NEW q \in sessions', SameVisitor(r, q), r # q
             PROVE  Before(r, q) \/ Before(q, r)
  BY DEF SessionsDisjoint, IsOpen, SameVisitor
<1>1. \A a, b \in sessions : SameVisitor(a, b) /\ a # b => Before(a, b) \/ Before(b, a)
  BY DEF IInv, SessionsDisjoint
<1>2. sessions \subseteq Session
  BY DEF IInv, TypeOK
<1>3. \A s \in sessions : /\ SameVisitor(Reconciled(s, o), s)
                          /\ Reconciled(s, o).first = s.first
  BY <1>2, ReconciledType
<1>4. ASSUME NEW a, NEW b, Closed(a), NEW s, Continues(b, s), SameVisitor(a, b)
      PROVE  Before(a, b)
  <2>1. SameVisitor(a, s) /\ a # s /\ b.first = s.first
    BY <1>3, <1>4 DEF SameVisitor
  <2>2. Before(a, s)
    BY <1>1, <1>4, <2>1
  <2> QED BY <2>1, <2>2
<1>5. ASSUME NEW a, NEW b, NEW s, NEW u, Continues(a, s), Continues(b, u),
             SameVisitor(a, b)
      PROVE  a = b
  <2>1. SameVisitor(s, u)
    BY <1>3, <1>5 DEF SameVisitor
  <2> QED BY <1>1, <1>5, <2>1
<1>6. ASSUME NEW a, NEW b, Closed(a), Starts(b)
      PROVE  Before(a, b)
  <2>1. b.first = o.at
    BY <1>6 DEF NewSession
  <2>2. a.last < o.at /\ a.ended < o.at
    BY <1>6, RowsBeforeObservation
  <2>3. a.ended \in Int /\ o.at \in Int
    BY <1>2, <1>6 DEF Session, Time, NoTime, Observation
  <2> QED BY <1>6, <2>1, <2>2, <2>3
<1>7. ASSUME NEW a, NEW b, NEW s, Continues(a, s), Starts(b), SameVisitor(a, b)
      PROVE  Before(a, b)
  <2>1. PICK k \in Kinds : \E p \in Newcomers(k, o) : b = NewSession(k, p, o)
    BY <1>7
  <2>2. PICK p \in Newcomers(k, o) : b = NewSession(k, p, o)
    BY <2>1
  <2>3. s.kind = k /\ s.player = p /\ b.first = o.at
    BY <1>3, <1>7, <2>2 DEF SameVisitor, NewSession
  <2>4. GapExpired(s, o.at)
    BY <1>7, <2>3 DEF Newcomers, SeenPlayers, OpenSessions
  <2>5. a = CloseAtGap(s)
    BY <1>7, <2>4, ReconciledCases
  <2>6. s \in Session
    BY <1>2, <1>7
  <2>7. a.last = s.last /\ a.ended = s.last /\ s.last \in Nat
    BY <2>5, <2>6 DEF CloseAtGap, Session, Time
  <2>8. s.last < o.at /\ o.at \in Nat
    BY <1>7, RowsBeforeObservation DEF Observation, Time
  <2> QED BY <2>3, <2>7, <2>8 DEF IsOpen, NoTime
<1>8. ASSUME NEW a, NEW b, Starts(a), Starts(b), SameVisitor(a, b)
      PROVE  a = b
  BY <1>8 DEF SameVisitor, NewSession
<1>9. /\ Closed(r) \/ (\E s : Continues(r, s)) \/ Starts(r)
      /\ Closed(q) \/ (\E s : Continues(q, s)) \/ Starts(q)
  BY RowsAfterApply DEF IInv
<1>10. SameVisitor(q, r)
  BY DEF SameVisitor
<1>11. Closed(r) /\ Closed(q) => Before(r, q) \/ Before(q, r)
  BY <1>1
<1> HIDE DEF Before, Closed, Continues, Starts
<1> QED BY <1>4, <1>5, <1>6, <1>7, <1>8, <1>9, <1>10, <1>11

\* The transaction keeps the whole invariant.
LEMMA ApplyPreserves ==
  ASSUME IInv, phase = "answered", ApplyObservation(obs)
  PROVE  /\ sessions' \subseteq Session /\ events' \subseteq Event
         /\ observed' \subseteq Observation
         /\ IsFiniteSet(sessions')
         /\ TimesObserved' /\ SessionTimeline' /\ SessionsDisjoint'
<1>1. obs \in Observation /\ \A x \in observed : x.at < obs.at
  BY DEF IInv, HistoryOrder
<1>2. TypeOK /\ IsFiniteSet(sessions)
  BY DEF IInv
<1>3. events' \subseteq Event
  BY <1>1, <1>2, ReconcileEventsType DEF ApplyObservation, TypeOK, Kinds
<1>4. observed' \subseteq Observation
  BY <1>1, <1>2 DEF ApplyObservation, TypeOK
<1>5. IsFiniteSet(sessions')
  <2>1. IsFiniteSet(ReconciledRows("presence", obs)) /\ IsFiniteSet(ReconciledRows("queue", obs))
    BY <1>1, <1>2, ReconciledRowsFinite DEF Kinds
  <2>2. IsFiniteSet(ClosedSessions)
    BY <1>2, FS_Subset DEF ClosedSessions
  <2>3. IsFiniteSet(ClosedSessions \cup ReconciledRows("presence", obs))
    BY <2>1, <2>2, FS_Union
  <2>4. IsFiniteSet(ClosedSessions \cup ReconciledRows("presence", obs)
                      \cup ReconciledRows("queue", obs))
    BY <2>1, <2>3, FS_Union
  <2> QED BY <2>4 DEF ApplyObservation
<1> QED BY <1>1, <1>3, <1>4, <1>5, ApplyTimes, ApplyDisjoint

-----------------------------------------------------------------------------
(* The specification *)

\* The steps that leave the tables alone keep every part of the invariant
\* that speaks of the tables only.
LEMMA TablesUnchanged ==
  ASSUME IInv, UNCHANGED <<sessions, events, observed>>
  PROVE  /\ sessions' \subseteq Session /\ events' \subseteq Event
         /\ observed' \subseteq Observation
         /\ IsFiniteSet(sessions')
         /\ TimesObserved' /\ SessionTimeline' /\ SessionsDisjoint'
BY DEF IInv, TypeOK, TimesObserved, SessionTimeline, SessionsDisjoint, TimelineHolds,
       IsOpen, SameVisitor

\* The invariant holds of empty tables.
LEMMA InitIInv == Init => IInv
<1> SUFFICES ASSUME Init PROVE IInv
  OBVIOUS
<1>1. TypeOK
  BY DEF Init, TypeOK, Time
<1>2. IsFiniteSet(sessions)
  BY FS_EmptySet DEF Init
<1>3. HistoryOrder /\ TimesObserved /\ SessionTimeline /\ SessionsDisjoint
  BY DEF Init, HistoryOrder, TimesObserved, SessionTimeline, SessionsDisjoint
<1> QED BY <1>1, <1>2, <1>3 DEF IInv

\* Every step keeps the invariant.
LEMMA NextIInv == IInv /\ [Next]_vars => IInv'
<1> SUFFICES ASSUME IInv, [Next]_vars PROVE IInv'
  OBVIOUS
<1> DEFINE Rest == /\ now' \in Time /\ lastOK' \in Time \cup {NoTime}
                   /\ replayed' \in BOOLEAN
                   /\ phase' \in {"idle", "asked", "answered", "applied"}
                   /\ obs' \in Observation \cup {NoObservation}
                   /\ HistoryOrder'
           Tables == /\ sessions' \subseteq Session /\ events' \subseteq Event
                     /\ observed' \subseteq Observation
                     /\ IsFiniteSet(sessions')
                     /\ TimesObserved' /\ SessionTimeline' /\ SessionsDisjoint'
<1> SUFFICES Rest /\ Tables
  BY DEF IInv, TypeOK
<1>0. TypeOK /\ HistoryOrder
  BY DEF IInv
<1>1. CASE Tick
  <2>1. Rest
    BY <1>0, <1>1 DEF Tick, TypeOK, HistoryOrder, Time, dbVars, pollVars
  <2> QED BY <1>1, <2>1, TablesUnchanged DEF Tick, dbVars
<1>2. CASE StartPoll
  <2>1. Rest
    BY <1>0, <1>2 DEF StartPoll, TypeOK, HistoryOrder, dbVars
  <2> QED BY <1>2, <2>1, TablesUnchanged DEF StartPoll, dbVars
<1>3. CASE ListPlayersAnswers
  <2>1. PICK connected \in SUBSET Players, queue \in SUBSET Players :
          obs' = [at |-> now, connected |-> connected, queue |-> queue]
    BY <1>3 DEF ListPlayersAnswers
  <2>2. obs' \in Observation /\ obs'.at = now
    BY <1>0, <2>1 DEF Observation, TypeOK
  <2>3. Rest
    BY <1>0, <1>3, <2>2 DEF ListPlayersAnswers, TypeOK, HistoryOrder, dbVars
  <2> QED BY <1>3, <2>3, TablesUnchanged DEF ListPlayersAnswers, dbVars
<1>4. CASE PollFails
  <2>1. Rest
    BY <1>0, <1>4 DEF PollFails, TypeOK, HistoryOrder, dbVars
  <2> QED BY <1>4, <2>1, TablesUnchanged DEF PollFails, dbVars
<1>5. CASE ApplyCommits
  <2>1. Rest
    BY <1>0, <1>5 DEF ApplyCommits, TypeOK, HistoryOrder
  <2> QED BY <1>5, <2>1, ApplyPreserves DEF ApplyCommits
<1>6. CASE ApplyRollsBack
  <2>1. Rest
    BY <1>0, <1>6 DEF ApplyRollsBack, TypeOK, HistoryOrder, dbVars
  <2> QED BY <1>6, <2>1, TablesUnchanged DEF ApplyRollsBack, dbVars
<1>7. CASE CommitUnacknowledged
  <2>1. Rest
    BY <1>0, <1>7 DEF CommitUnacknowledged, TypeOK, HistoryOrder
  <2> QED BY <1>7, <2>1, ApplyPreserves DEF CommitUnacknowledged
<1>8. CASE RecordSuccess
  <2>1. Rest
    BY <1>0, <1>8 DEF RecordSuccess, TypeOK, HistoryOrder
  <2> QED BY <1>8, <2>1, TablesUnchanged DEF RecordSuccess
<1>9. CASE RecordFails
  <2>1. Rest
    BY <1>0, <1>9 DEF RecordFails, TypeOK, HistoryOrder, dbVars
  <2> QED BY <1>9, <2>1, TablesUnchanged DEF RecordFails, dbVars
<1>10. CASE Restart
  <2>1. Rest
    BY <1>0, <1>10 DEF Restart, TypeOK, HistoryOrder, dbVars
  <2> QED BY <1>10, <2>1, TablesUnchanged DEF Restart, dbVars
<1>11. CASE UNCHANGED vars
  <2>1. Rest
    BY <1>0, <1>11 DEF vars, TypeOK, HistoryOrder
  <2> QED BY <1>11, <2>1, TablesUnchanged DEF vars
<1> QED BY <1>1, <1>2, <1>3, <1>4, <1>5, <1>6, <1>7, <1>8, <1>9, <1>10, <1>11 DEF Next

\* The inductive invariant holds in every state the tracker of a server and
\* its tables can reach.
THEOREM Invariance == Spec => []IInv
BY InitIInv, NextIInv, PTL DEF Spec

\* Every row, event and timestamp Service.Apply writes is of its table's type,
\* whatever is polled, lost, rolled back or crashed.
THEOREM TypeCorrect == Spec => []TypeOK
<1>1. IInv => TypeOK
  BY DEF IInv
<1> QED BY <1>1, Invariance, PTL

\* No player ever has two open sessions in one table, or two that overlap,
\* although no unique index forbids it.
THEOREM OneSessionAtATime == Spec => []SessionsDisjoint
<1>1. IInv => SessionsDisjoint
  BY DEF IInv
<1> QED BY <1>1, Invariance, PTL

\* The interval of uncertainty of every session is in order and agrees with
\* its status, and CLOSED_LEFT takes exactly AbsentConfirmations absences.
THEOREM TimelinesInOrder == Spec => []SessionTimeline
<1>1. IInv => SessionTimeline
  BY DEF IInv
<1> QED BY <1>1, Invariance, PTL

-----------------------------------------------------------------------------
(* Closed sessions are final *)

\* Each row of before is found again: closed ones as they were, open ones
\* with the same beginning and no earlier last sighting.
LEMMA ApplyKeepsRows ==
  ASSUME IInv, phase = "answered", ApplyObservation(obs), NEW s \in sessions
  PROVE  \E u \in sessions' : /\ SameVisitor(s, u) /\ s.first = u.first /\ s.last <= u.last
                              /\ ~IsOpen(s) => u = s
<1>1. obs \in Observation /\ \A x \in observed : x.at < obs.at
  BY DEF IInv, HistoryOrder
<1>2. s \in Session /\ TimelineHolds(s) /\ s.last < obs.at
  BY <1>1, RowsBeforeObservation DEF IInv, TypeOK, SessionTimeline
<1>3. s.last \in Nat /\ obs.at \in Nat /\ s.kind \in Kinds
  BY <1>1, <1>2 DEF Session, Observation, Time
<1>4. CASE ~IsOpen(s)
  <2>1. s \in sessions'
    BY <1>4 DEF ApplyObservation, ClosedSessions, OpenSessions
  <2> QED BY <1>3, <1>4, <2>1 DEF SameVisitor
<1>5. CASE IsOpen(s)
  <2>1. Reconciled(s, obs) \in sessions'
    BY <1>3, <1>5 DEF ApplyObservation, ReconciledRows, OpenSessions, Kinds
  <2>2. SameVisitor(Reconciled(s, obs), s) /\ Reconciled(s, obs).first = s.first
    BY <1>1, <1>2, ReconciledType
  <2>3. Reconciled(s, obs).last \in {s.last, obs.at}
    BY <1>1, <1>2, <1>5, ReconciledTimeline
  <2> QED BY <1>2, <1>3, <1>5, <2>1, <2>2, <2>3 DEF SameVisitor
<1> QED BY <1>4, <1>5

\* No step drops a session, changes a closed one, or takes back a sighting.
THEOREM ClosedSessionsAreFinal == Spec => ClosedIsFinal
<1> DEFINE Moves == \A s \in sessions : \E u \in sessions' :
                      /\ SameVisitor(s, u) /\ s.first = u.first /\ s.last <= u.last
                      /\ ~IsOpen(s) => u = s
<1>1. IInv /\ [Next]_vars => [Moves]_vars
  <2> SUFFICES ASSUME IInv, Next PROVE Moves
    OBVIOUS
  <2>1. CASE sessions' = sessions
    <3>1. \A s \in sessions : s.last \in Nat
      BY DEF IInv, TypeOK, Session, Time
    <3> QED BY <2>1, <3>1 DEF SameVisitor
  <2>2. CASE phase = "answered" /\ ApplyObservation(obs)
    BY <2>2, ApplyKeepsRows
  <2> QED BY <2>1, <2>2
      DEF Next, Tick, StartPoll, ListPlayersAnswers, PollFails, ApplyCommits, ApplyRollsBack,
          CommitUnacknowledged, RecordSuccess, RecordFails, Restart, dbVars
<1> QED BY <1>1, Invariance, PTL DEF Spec, ClosedIsFinal

-----------------------------------------------------------------------------
(* Sightings and sessions *)

Covers(s, k, p, o) == /\ s.kind = k /\ s.player = p
                      /\ s.first <= o.at /\ o.at <= s.last

\* Each player of each committed observation is in some session of then.
Covered ==
  \A o \in observed : \A k \in Kinds : \A p \in Present(k, o) :
    \E s \in sessions : Covers(s, k, p, o)

SawPlayer(s, t, seen) == \E o \in seen : o.at = t /\ s.player \in Present(s.kind, o)

\* A session begins and ends with sightings.
Witnessed ==
  \A s \in sessions : SawPlayer(s, s.first, observed) /\ SawPlayer(s, s.last, observed)

\* The tables and the history change only when an answer in hand is applied.
LEMMA TableSteps ==
  ASSUME [Next]_vars
  PROVE  \/ UNCHANGED <<sessions, events, observed>>
         \/ phase = "answered" /\ ApplyObservation(obs)
BY DEF Next, vars, Tick, StartPoll, ListPlayersAnswers, PollFails, ApplyCommits, ApplyRollsBack,
       CommitUnacknowledged, RecordSuccess, RecordFails, Restart, dbVars

\* A row and the observation it is reconciled with, as numbers.
LEMMA RowTimes ==
  ASSUME IInv, NEW s \in sessions, NEW o \in Observation, \A x \in observed : x.at < o.at
  PROVE  /\ s \in Session /\ TimelineHolds(s) /\ s.kind \in Kinds
         /\ s.first \in Nat /\ s.last \in Nat /\ o.at \in Nat
         /\ s.first <= s.last /\ s.last < o.at
<1>1. s \in Session /\ TimelineHolds(s) /\ s.last < o.at
  BY RowsBeforeObservation DEF IInv, TypeOK, SessionTimeline
<1> QED BY <1>1 DEF Session, TimelineHolds, Observation, Time

\* An open row reconciled is found in the tables, and the player of an
\* observation without a surviving row gets a new one.
LEMMA RowsWritten ==
  ASSUME NEW o, ApplyObservation(o)
  PROVE  /\ \A s \in sessions : IsOpen(s) /\ s.kind \in Kinds => Reconciled(s, o) \in sessions'
         /\ \A k \in Kinds : \A p \in Newcomers(k, o) : NewSession(k, p, o) \in sessions'
BY DEF ApplyObservation, ReconciledRows, OpenSessions, Kinds

\* Extending sets the last sighting; nothing else moves it.
LEMMA LastSighting ==
  ASSUME NEW s \in Session, NEW o \in Observation, s.last < o.at
  PROVE  /\ Extends(s, o) => Reconciled(s, o).last = o.at
         /\ ~Extends(s, o) => Reconciled(s, o).last = s.last
<1>1. Extend(s, o).last = o.at
  BY DEF Extend, Session
<1>2. CloseAtGap(s).last = s.last /\ CloseLeft(s, o).last = s.last /\ Suspect(s, o).last = s.last
  BY DEF CloseAtGap, CloseLeft, Suspect, Session
<1>3. Extends(s, o) => ~GapExpired(s, o.at) /\ ~Leaves(s, o)
  BY DEF Extends, Leaves
<1> QED BY <1>1, <1>2, <1>3, ReconciledCases

\* Applying an observation covers its own sightings and uncovers none.
LEMMA ApplyCovers ==
  ASSUME IInv, Covered, phase = "answered", ApplyObservation(obs)
  PROVE  Covered'
<1>1. obs \in Observation /\ \A x \in observed : x.at < obs.at
  BY DEF IInv, HistoryOrder
<1>2. observed' = observed \cup {obs}
  BY DEF ApplyObservation
<1>3. ASSUME NEW o \in observed, NEW k \in Kinds, NEW p \in Present(k, o)
      PROVE  \E r \in sessions' : Covers(r, k, p, o)
  <2>1. PICK s \in sessions : Covers(s, k, p, o)
    BY DEF Covered
  <2>2. PICK u \in sessions' : SameVisitor(s, u) /\ s.first = u.first /\ s.last <= u.last
    BY ApplyKeepsRows
  <2>3. o.at \in Nat /\ s.last \in Nat
    BY <1>1, RowTimes DEF IInv, TypeOK, Observation, Time
  <2>4. u.last \in Nat
    BY <2>2, ApplyPreserves DEF Session, Time
  <2> QED BY <2>1, <2>2, <2>3, <2>4 DEF Covers, SameVisitor
<1>4. ASSUME NEW k \in Kinds, NEW p \in Present(k, obs)
      PROVE  \E r \in sessions' : Covers(r, k, p, obs)
  <2>1. CASE p \in Newcomers(k, obs)
    <3> DEFINE r == NewSession(k, p, obs)
    <3>1. r.kind = k /\ r.player = p /\ r.first = obs.at /\ r.last = obs.at
      BY DEF NewSession
    <3>2. obs.at \in Nat
      BY <1>1 DEF Observation, Time
    <3>3. r \in sessions'
      BY <2>1, RowsWritten
    <3> HIDE DEF r
    <3> QED BY <3>1, <3>2, <3>3 DEF Covers
  <2>2. CASE p \notin Newcomers(k, obs)
    <3>1. PICK s \in OpenSessions(k) : ~GapExpired(s, obs.at) /\ s.player = p
      BY <2>2 DEF Newcomers, SeenPlayers
    <3>2. s \in sessions /\ s.kind = k /\ IsOpen(s)
      BY DEF OpenSessions
    <3>3. Extends(s, obs)
      BY <3>1, <3>2 DEF Extends
    <3>4. /\ s \in Session /\ s.first \in Nat /\ s.last \in Nat /\ obs.at \in Nat
          /\ s.first <= s.last /\ s.last < obs.at
      BY <1>1, <3>2, RowTimes
    <3>5. PICK r : r = Reconciled(s, obs)
      OBVIOUS
    <3>6. r \in sessions' /\ SameVisitor(r, s) /\ r.first = s.first /\ r.last = obs.at
      BY <1>1, <3>2, <3>3, <3>4, <3>5, RowsWritten, ReconciledType, LastSighting
    <3> QED BY <3>1, <3>2, <3>4, <3>6 DEF Covers, SameVisitor
  <2> QED BY <2>1, <2>2
<1>5. \A o \in observed' : \A k \in Kinds : \A p \in Present(k, o) :
        \E r \in sessions' : Covers(r, k, p, o)
  BY <1>2, <1>3, <1>4
<1> QED BY <1>5 DEF Covered, Covers, Present

\* Every row the transaction writes begins and ends with sightings.
LEMMA ApplyWitnessed ==
  ASSUME IInv, Witnessed, phase = "answered", ApplyObservation(obs)
  PROVE  Witnessed'
<1>1. obs \in Observation /\ \A x \in observed : x.at < obs.at
  BY DEF IInv, HistoryOrder
<1>2. observed' = observed \cup {obs} /\ TypeOK
  BY DEF ApplyObservation, IInv
<1> DEFINE Good(r) == SawPlayer(r, r.first, observed') /\ SawPlayer(r, r.last, observed')
<1>3. \A s \in sessions : Good(s)
  BY <1>2 DEF Witnessed, SawPlayer
<1>4. ASSUME NEW s \in sessions, IsOpen(s), NEW r, r = Reconciled(s, obs) PROVE Good(r)
  <2>1. SameVisitor(r, s) /\ r.first = s.first
    BY <1>1, <1>4, RowTimes, ReconciledType
  <2>2. r.last = s.last \/ (r.last = obs.at /\ s.player \in Present(s.kind, obs))
    BY <1>1, <1>4, RowTimes, LastSighting DEF Extends
  <2>3. SawPlayer(s, s.first, observed') /\ SawPlayer(s, s.last, observed')
    BY <1>3
  <2> QED BY <1>2, <2>1, <2>2, <2>3 DEF SawPlayer, SameVisitor
<1>5. ASSUME NEW k \in Kinds, NEW p \in Newcomers(k, obs), NEW r, r = NewSession(k, p, obs)
      PROVE  Good(r)
  <2>1. r.kind = k /\ r.player = p /\ r.first = obs.at /\ r.last = obs.at
    BY <1>5 DEF NewSession
  <2>2. p \in Present(k, obs)
    BY DEF Newcomers
  <2> QED BY <1>2, <2>1, <2>2 DEF SawPlayer
<1>6. \A r \in sessions' : Good(r)
  BY <1>1, <1>2, <1>3, <1>4, <1>5, RowsAfterApply
<1> QED BY <1>6 DEF Witnessed, SawPlayer, Present

\* Both facts are invariants.
LEMMA SightingsInvariance == Spec => [](Covered /\ Witnessed)
<1>1. Init => Covered /\ Witnessed
  BY DEF Init, Covered, Witnessed
<1>2. IInv /\ (Covered /\ Witnessed) /\ [Next]_vars => (Covered /\ Witnessed)'
  <2> SUFFICES ASSUME IInv, Covered, Witnessed, [Next]_vars PROVE Covered' /\ Witnessed'
    OBVIOUS
  <2>1. CASE UNCHANGED <<sessions, events, observed>>
    BY <2>1 DEF Covered, Witnessed, Covers, SawPlayer, Present
  <2>2. CASE phase = "answered" /\ ApplyObservation(obs)
    BY <2>2, ApplyCovers, ApplyWitnessed
  <2> QED BY <2>1, <2>2, TableSteps
<1> QED BY <1>1, <1>2, Invariance, PTL DEF Spec

\* Two sessions of one player in one table never cover the same moment.
LEMMA CoveredOnce ==
  ASSUME IInv, NEW o \in observed, NEW k, NEW p,
         NEW s \in sessions, NEW u \in sessions, Covers(s, k, p, o), Covers(u, k, p, o)
  PROVE  s = u
<1>1. s \in Session /\ u \in Session /\ o \in Observation
  BY DEF IInv, TypeOK
<1>2. /\ s.first \in Nat /\ s.last \in Nat /\ u.first \in Nat /\ u.last \in Nat
      /\ o.at \in Nat
  BY <1>1 DEF Session, Observation, Time
<1>3. SameVisitor(s, u) /\ s # u => s.last < u.first \/ u.last < s.first
  BY DEF IInv, SessionsDisjoint
<1> QED BY <1>2, <1>3 DEF Covers, SameVisitor

\* No sighting is lost or counted twice, however polls fail, commits go
\* unacknowledged and the process restarts.
THEOREM EverySightingCounts == Spec => []SightingsAreCovered
<1>1. IInv /\ Covered /\ Witnessed => SightingsAreCovered
  <2> SUFFICES ASSUME IInv, Covered, Witnessed PROVE SightingsAreCovered
    OBVIOUS
  <2>1. ASSUME NEW o \in observed, NEW k \in Kinds, NEW p \in Present(k, o)
        PROVE  Cardinality({s \in sessions : s.kind = k /\ s.player = p
                                      /\ s.first <= o.at /\ o.at <= s.last}) = 1
    <3> DEFINE S == {s \in sessions : s.kind = k /\ s.player = p
                                      /\ s.first <= o.at /\ o.at <= s.last}
    <3>1. PICK s \in sessions : Covers(s, k, p, o)
      BY DEF Covered
    <3>2. S = {s}
      BY <3>1, CoveredOnce DEF Covers
    <3> QED BY <3>2, FS_Singleton
  <2>2. ASSUME NEW s \in sessions, NEW t \in {"first", "last"}
        PROVE  \E o \in observed : o.at = s[t] /\ s.player \in Present(s.kind, o)
    <3>1. SawPlayer(s, s.first, observed) /\ SawPlayer(s, s.last, observed)
      BY DEF Witnessed
    <3> QED BY <3>1 DEF SawPlayer
  <2> QED BY <2>1, <2>2 DEF SightingsAreCovered
<1> QED BY <1>1, Invariance, SightingsInvariance, PTL

-----------------------------------------------------------------------------
(* Absences *)

Since(seen, t) == {o \in seen : o.at > t}

\* Missed(s) of a row last seen at t with n absences.
MissedOf(seen, t, n) ==
  {o \in seen : /\ o.at > t
                /\ Cardinality({x \in seen : t < x.at /\ x.at <= o.at}) <= n}

LEMMA MissedIs ==
  ASSUME NEW s PROVE Missed(s) = MissedOf(observed, s.last, s.absentPolls)
BY DEF Missed, MissedOf

\* Who has missed no more than n observations has missed all there are.
LEMMA FewAreAllMissed ==
  ASSUME NEW seen, seen \subseteq Observation, IsFiniteSet(seen), NEW t \in Nat, NEW n \in Nat,
         Cardinality(Since(seen, t)) <= n
  PROVE  MissedOf(seen, t, n) = Since(seen, t)
<1> SUFFICES ASSUME NEW o \in Since(seen, t)
             PROVE  Cardinality({x \in seen : t < x.at /\ x.at <= o.at}) <= n
  BY DEF MissedOf, Since
<1> DEFINE Earlier == {x \in seen : t < x.at /\ x.at <= o.at}
<1>1. \A x \in seen : x.at \in Nat
  BY DEF Observation, Time
<1>2. Earlier \subseteq Since(seen, t)
  BY <1>1 DEF Since
<1>3. IsFiniteSet(Since(seen, t))
  BY FS_Subset DEF Since
<1>4. /\ Cardinality(Earlier) <= Cardinality(Since(seen, t))
      /\ Cardinality(Earlier) \in Nat /\ Cardinality(Since(seen, t)) \in Nat
  BY <1>2, <1>3, FS_Subset, FS_CardinalityType
<1> HIDE DEF Earlier
<1> QED BY <1>4 DEF Earlier

\* A later observation adds itself to those since any earlier time.
LEMMA OneMoreSince ==
  ASSUME NEW seen, seen \subseteq Observation, IsFiniteSet(seen),
         NEW o \in Observation, \A x \in seen : x.at < o.at, NEW t \in Nat, t < o.at
  PROVE  /\ Since(seen \cup {o}, t) = Since(seen, t) \cup {o}
         /\ Cardinality(Since(seen, t)) \in Nat
         /\ Cardinality(Since(seen \cup {o}, t)) = Cardinality(Since(seen, t)) + 1
<1>1. Since(seen \cup {o}, t) = Since(seen, t) \cup {o}
  BY DEF Since
<1>2. o \notin Since(seen, t)
  BY DEF Since, Observation, Time
<1>3. IsFiniteSet(Since(seen, t))
  BY FS_Subset DEF Since
<1> QED BY <1>1, <1>2, <1>3, FS_AddElement, FS_CardinalityType

\* A row that has counted its absences takes no later one for its own.
LEMMA MissedIsFinal ==
  ASSUME NEW seen, seen \subseteq Observation, IsFiniteSet(seen),
         NEW o \in Observation, \A x \in seen : x.at < o.at,
         NEW t \in Nat, t < o.at, NEW n \in Nat,
         Cardinality(MissedOf(seen, t, n)) = n
  PROVE  MissedOf(seen \cup {o}, t, n) = MissedOf(seen, t, n)
<1> DEFINE Upto(set, y) == {x \in set : t < x.at /\ x.at <= y.at}
<1>1. o.at \in Nat /\ \A x \in seen : x.at \in Nat
  BY DEF Observation, Time
<1>2. \A y \in seen : Upto(seen \cup {o}, y) = Upto(seen, y)
  BY <1>1
<1>3. Cardinality(Upto(seen \cup {o}, o)) > n
  <2>1. Upto(seen \cup {o}, o) = Since(seen \cup {o}, t)
    BY <1>1 DEF Since
  <2>2. Cardinality(Since(seen \cup {o}, t)) = Cardinality(Since(seen, t)) + 1
        /\ Cardinality(Since(seen, t)) \in Nat
    BY OneMoreSince
  <2>3. MissedOf(seen, t, n) \subseteq Since(seen, t)
    BY DEF MissedOf, Since
  <2>4. IsFiniteSet(Since(seen, t))
    BY FS_Subset DEF Since
  <2>5. n <= Cardinality(Since(seen, t))
    BY <2>3, <2>4, FS_Subset
  <2> HIDE DEF Upto
  <2> QED BY <2>1, <2>2, <2>5
<1>4. o \notin MissedOf(seen \cup {o}, t, n)
  <2>1. IsFiniteSet(seen \cup {o})
    BY FS_AddElement
  <2>2. Cardinality(Upto(seen \cup {o}, o)) \in Nat
    BY <2>1, FS_Subset, FS_CardinalityType
  <2> QED BY <1>3, <2>2 DEF MissedOf
<1>5. \A y \in seen : y \in MissedOf(seen \cup {o}, t, n) <=> y \in MissedOf(seen, t, n)
  BY <1>2 DEF MissedOf
<1>6. /\ MissedOf(seen \cup {o}, t, n) \subseteq seen \cup {o}
      /\ MissedOf(seen, t, n) \subseteq seen
  BY DEF MissedOf
<1> QED BY <1>4, <1>5, <1>6

\* What AbsencesAreObserved says of one row, the history being seen.
Counts(s, seen, missed) ==
  /\ Cardinality(missed) = s.absentPolls
  /\ \A o \in missed : s.player \notin Present(s.kind, o)
  /\ missed # {} => /\ \E o \in missed : o.at = s.absentAt
                    /\ \A o \in missed : o.at >= s.absentAt
  /\ IsOpen(s) => missed = Since(seen, s.last)

Accounted(s, seen) == Counts(s, seen, MissedOf(seen, s.last, s.absentPolls))

LEMMA AbsencesAre ==
  AbsencesAreObserved <=> \A s \in sessions : Accounted(s, observed)
BY MissedIs DEF AbsencesAreObserved, Accounted, Counts, Since

\* One more observation leaves the account of a closed row as it is.
LEMMA ClosedAccount ==
  ASSUME NEW s \in Session, NEW r \in Session, NEW seen, seen \subseteq Observation,
         IsFiniteSet(seen), NEW o \in Observation, \A x \in seen : x.at < o.at, s.last < o.at,
         Accounted(s, seen), ~IsOpen(r), SameVisitor(r, s), r.last = s.last,
         r.absentPolls = s.absentPolls, r.absentAt = s.absentAt
  PROVE  Accounted(r, seen \cup {o})
<1>1. s.last \in Nat /\ s.absentPolls \in Nat
  BY DEF Session, Time
<1>2. MissedOf(seen \cup {o}, s.last, s.absentPolls) = MissedOf(seen, s.last, s.absentPolls)
  BY <1>1, MissedIsFinal DEF Accounted, Counts
<1> QED BY <1>2 DEF Accounted, Counts, SameVisitor

\* A row that the newest observation has just seen has missed nothing.
LEMMA FreshAccount ==
  ASSUME NEW r \in Session, NEW seen, seen \subseteq Observation, IsFiniteSet(seen),
         NEW o \in Observation, \A x \in seen : x.at < o.at, r.last = o.at, r.absentPolls = 0
  PROVE  Accounted(r, seen \cup {o})
<1>1. o.at \in Nat /\ \A x \in seen \cup {o} : x.at \in Nat /\ x.at <= o.at
  BY DEF Observation, Time
<1>2. Since(seen \cup {o}, o.at) = {} /\ MissedOf(seen \cup {o}, o.at, 0) = {}
  BY <1>1 DEF Since, MissedOf
<1> QED BY <1>2, FS_EmptySet DEF Accounted, Counts

\* An open row that misses one more observation has missed that one and all
\* it had missed before.
LEMMA OneMoreMissed ==
  ASSUME NEW s \in Session, NEW seen, seen \subseteq Observation,
         IsFiniteSet(seen), NEW o \in Observation, \A x \in seen : x.at < o.at,
         IsOpen(s), s.last < o.at, Accounted(s, seen)
  PROVE  /\ Cardinality(Since(seen \cup {o}, s.last)) = s.absentPolls + 1
         /\ Since(seen \cup {o}, s.last) = Since(seen, s.last) \cup {o}
         /\ MissedOf(seen \cup {o}, s.last, s.absentPolls + 1) = Since(seen, s.last) \cup {o}
<1>1. s.last \in Nat /\ s.absentPolls \in Nat /\ s.absentPolls + 1 \in Nat
  BY DEF Session, Time
<1>2. Cardinality(Since(seen, s.last)) = s.absentPolls
  BY DEF Accounted, Counts
<1>3. /\ Since(seen \cup {o}, s.last) = Since(seen, s.last) \cup {o}
      /\ Cardinality(Since(seen \cup {o}, s.last)) = s.absentPolls + 1
  <2>1. /\ Since(seen \cup {o}, s.last) = Since(seen, s.last) \cup {o}
        /\ Cardinality(Since(seen \cup {o}, s.last)) = Cardinality(Since(seen, s.last)) + 1
    BY <1>1, OneMoreSince
  <2> QED BY <1>2, <2>1
<1>4. IsFiniteSet(seen \cup {o}) /\ seen \cup {o} \subseteq Observation
  BY FS_AddElement
<1>5. Cardinality(Since(seen \cup {o}, s.last)) <= s.absentPolls + 1
  BY <1>1, <1>3
<1>6. MissedOf(seen \cup {o}, s.last, s.absentPolls + 1) = Since(seen \cup {o}, s.last)
  BY <1>1, <1>4, <1>5, FewAreAllMissed
<1> QED BY <1>3, <1>6

\* An absence more is counted, and the first of them is dated.
LEMMA AbsentAccount ==
  ASSUME NEW s \in Session, NEW r \in Session, NEW seen, seen \subseteq Observation,
         IsFiniteSet(seen), NEW o \in Observation, \A x \in seen : x.at < o.at,
         TimelineHolds(s), IsOpen(s), s.last < o.at, Accounted(s, seen),
         s.player \notin Present(s.kind, o), SameVisitor(r, s), r.last = s.last,
         r.absentPolls = s.absentPolls + 1, r.absentAt = AbsentSince(s, o)
  PROVE  Accounted(r, seen \cup {o})
<1> DEFINE old == Since(seen, s.last)
<1>1. /\ s.last \in Nat /\ s.absentPolls \in Nat /\ o.at \in Nat
      /\ \A x \in seen : x.at \in Nat /\ x.at < o.at
  BY DEF Session, Observation, Time
<1>2. /\ Cardinality(old) = s.absentPolls
      /\ \A x \in old : s.player \notin Present(s.kind, x)
      /\ old # {} => /\ \E x \in old : x.at = s.absentAt
                     /\ \A x \in old : x.at >= s.absentAt
  BY DEF Accounted, Counts
<1>3. /\ Since(seen \cup {o}, s.last) = old \cup {o}
      /\ Cardinality(Since(seen \cup {o}, s.last)) = s.absentPolls + 1
  BY OneMoreMissed
<1>4. MissedOf(seen \cup {o}, s.last, s.absentPolls + 1) = old \cup {o}
  BY OneMoreMissed
<1>5. old = {} => s.absentAt = NoTime
  BY <1>2, FS_EmptySet DEF TimelineHolds
<1>6. old # {} => s.absentAt # NoTime
  BY <1>1, <1>2 DEF Since, NoTime
<1>7. r.player = s.player /\ r.kind = s.kind
  BY DEF SameVisitor
<1>8. /\ \E x \in old \cup {o} : x.at = AbsentSince(s, o)
      /\ \A x \in old \cup {o} : x.at >= AbsentSince(s, o)
  <2>1. CASE old = {}
    BY <1>1, <1>5, <2>1 DEF AbsentSince
  <2>2. CASE old # {}
    <3>1. AbsentSince(s, o) = s.absentAt
      BY <1>6, <2>2 DEF AbsentSince
    <3>2. PICK x \in old : x.at = s.absentAt
      BY <1>2, <2>2
    <3>3. o.at >= s.absentAt
      BY <1>1, <3>2 DEF Since
    <3> QED BY <1>2, <2>2, <3>1, <3>2, <3>3
  <2> QED BY <2>1, <2>2
<1>9. \A x \in old \cup {o} : r.player \notin Present(r.kind, x)
  BY <1>2, <1>7
<1> HIDE DEF old
<1> QED BY <1>3, <1>4, <1>8, <1>9 DEF Accounted, Counts

\* Every row of the tables accounts for its absences after the transaction.
LEMMA ApplyAccounts ==
  ASSUME IInv, IsFiniteSet(observed), AbsencesAreObserved,
         phase = "answered", ApplyObservation(obs)
  PROVE  AbsencesAreObserved'
<1>1. obs \in Observation /\ \A x \in observed : x.at < obs.at
  BY DEF IInv, HistoryOrder
<1>2. /\ observed' = observed \cup {obs} /\ TypeOK
      /\ observed \subseteq Observation /\ sessions' \subseteq Session
  BY ApplyPreserves DEF ApplyObservation, IInv, TypeOK
<1>3. ASSUME NEW s \in sessions
      PROVE  /\ Accounted(s, observed) /\ s \in Session /\ TimelineHolds(s)
             /\ s.last < obs.at /\ s.last \in Nat /\ s.absentPolls \in Nat
  BY <1>1, AbsencesAre, RowTimes DEF Session
<1>4. ASSUME NEW s \in sessions, ~IsOpen(s) PROVE Accounted(s, observed')
  BY <1>1, <1>2, <1>3, <1>4, ClosedAccount DEF SameVisitor
<1>5. ASSUME NEW s \in sessions, IsOpen(s), NEW r \in sessions', r = Reconciled(s, obs)
      PROVE  Accounted(r, observed')
  <2>1. SameVisitor(r, s) /\ r \in Session
    BY <1>1, <1>3, <1>5, ReconciledType
  <2>2. CASE GapExpired(s, obs.at)
    <3>1. r = CloseAtGap(s)
      BY <1>5, <2>2, ReconciledCases
    <3>2. /\ r.last = s.last /\ r.absentPolls = s.absentPolls /\ r.absentAt = s.absentAt
          /\ r.ended = s.last
      BY <1>3, <3>1 DEF CloseAtGap, Session
    <3>3. ~IsOpen(r)
      BY <1>3, <3>2 DEF IsOpen, NoTime
    <3> QED BY <1>1, <1>2, <1>3, <2>1, <3>2, <3>3, ClosedAccount
  <2>3. CASE Extends(s, obs)
    <3>1. r = Extend(s, obs)
      BY <1>5, <2>3, ReconciledCases DEF Extends, Leaves
    <3>2. r.last = obs.at /\ r.absentPolls = 0
      BY <1>3, <3>1 DEF Extend, Session
    <3> QED BY <1>1, <1>2, <2>1, <3>2, FreshAccount
  <2>4. CASE ~GapExpired(s, obs.at) /\ ~Extends(s, obs)
    <3>1. s.player \notin Present(s.kind, obs)
      BY <2>4 DEF Extends
    <3>2. r = CloseLeft(s, obs) \/ r = Suspect(s, obs)
      BY <1>5, <2>4, ReconciledCases
    <3>3. /\ r.last = s.last /\ r.absentPolls = s.absentPolls + 1
          /\ r.absentAt = AbsentSince(s, obs)
      BY <1>3, <3>2 DEF CloseLeft, Suspect, Session
    <3> QED BY <1>1, <1>2, <1>3, <1>5, <2>1, <3>1, <3>3, AbsentAccount
  <2> QED BY <2>2, <2>3, <2>4
<1>6. ASSUME NEW k \in Kinds, NEW p \in Newcomers(k, obs), NEW r \in sessions',
             r = NewSession(k, p, obs)
      PROVE  Accounted(r, observed')
  <2>1. r.last = obs.at /\ r.absentPolls = 0
    BY <1>6 DEF NewSession
  <2> QED BY <1>1, <1>2, <2>1, FreshAccount
<1>7. \A r \in sessions' : Accounted(r, observed')
  BY <1>1, <1>2, <1>4, <1>5, <1>6, RowsAfterApply
<1>8. AbsencesAreObserved' <=> \A r \in sessions' : Accounted(r, observed')
  BY DEF AbsencesAreObserved, Missed, Accounted, Counts, MissedOf, Since, IsOpen, Present
<1> QED BY <1>7, <1>8

\* The account holds in every state, of a history that stays finite.
LEMMA AbsenceInvariance == Spec => [](IsFiniteSet(observed) /\ AbsencesAreObserved)
<1>1. Init => IsFiniteSet(observed) /\ AbsencesAreObserved
  BY FS_EmptySet DEF Init, AbsencesAreObserved
<1>2. IInv /\ (IsFiniteSet(observed) /\ AbsencesAreObserved) /\ [Next]_vars
        => (IsFiniteSet(observed) /\ AbsencesAreObserved)'
  <2> SUFFICES ASSUME IInv, IsFiniteSet(observed), AbsencesAreObserved, [Next]_vars
               PROVE  IsFiniteSet(observed') /\ AbsencesAreObserved'
    OBVIOUS
  <2>1. CASE UNCHANGED <<sessions, events, observed>>
    BY <2>1 DEF AbsencesAreObserved, Missed, IsOpen, Present
  <2>2. CASE phase = "answered" /\ ApplyObservation(obs)
    <3>1. observed' = observed \cup {obs}
      BY <2>2 DEF ApplyObservation
    <3> QED BY <2>2, <3>1, ApplyAccounts, FS_AddElement
  <2> QED BY <2>1, <2>2, TableSteps
<1> QED BY <1>1, <1>2, Invariance, PTL DEF Spec

\* A data gap is never taken for a departure: each counted absence is a
\* committed observation without the player, and they follow his last
\* sighting without interruption.
THEOREM AbsencesAreReal == Spec => []AbsencesAreObserved
BY AbsenceInvariance, PTL

-----------------------------------------------------------------------------
(* The results of the queue *)

\* What QueueResultIsOfLastAbsence says of one row, given the absences it
\* counts and the rows of its table of sessions on the server.
ResultIsOf(s, missed, rows) ==
  s.kind = "queue" /\ s.status = "CLOSED_LEFT" =>
    \E o \in missed :
      /\ \A x \in missed : x.at <= o.at
      /\ s.result = IF s.player \in o.connected THEN "JOINED_SERVER" ELSE "LEFT_QUEUE"
      /\ s.result = "JOINED_SERVER" => \E u \in rows : Covers(u, "presence", s.player, o)

\* A row that was closed before counts the same absences, and who covered
\* them covers them still.
LEMMA OldResult ==
  ASSUME IInv, IsFiniteSet(observed), AbsencesAreObserved, phase = "answered",
         ApplyObservation(obs), NEW s \in sessions, s.status = "CLOSED_LEFT",
         ResultIsOf(s, Missed(s), sessions)
  PROVE  ResultIsOf(s, MissedOf(observed', s.last, s.absentPolls), sessions')
<1>1. obs \in Observation /\ \A x \in observed : x.at < obs.at
  BY DEF IInv, HistoryOrder
<1>2. s \in Session /\ s.last \in Nat /\ s.last < obs.at /\ s.absentPolls \in Nat
  BY <1>1, RowTimes DEF Session
<1>3. observed' = observed \cup {obs} /\ observed \subseteq Observation
  BY DEF ApplyObservation, IInv, TypeOK
<1>4. Missed(s) = MissedOf(observed, s.last, s.absentPolls)
  BY MissedIs
<1>5. MissedOf(observed', s.last, s.absentPolls) = Missed(s)
  BY <1>1, <1>2, <1>3, <1>4, MissedIsFinal DEF AbsencesAreObserved
<1>6. ASSUME NEW o \in Missed(s), NEW u \in sessions, Covers(u, "presence", s.player, o)
      PROVE  \E v \in sessions' : Covers(v, "presence", s.player, o)
  <2>1. PICK v \in sessions' : SameVisitor(u, v) /\ u.first = v.first /\ u.last <= v.last
    BY ApplyKeepsRows
  <2>2. u.last \in Nat /\ v.last \in Nat /\ o.at \in Nat
    BY <1>1, <1>3, RowTimes, ApplyPreserves DEF Missed, Session, Observation, Time
  <2> QED BY <1>6, <2>1, <2>2 DEF Covers, SameVisitor
<1> QED BY <1>5, <1>6 DEF ResultIsOf

\* A row the transaction closes takes the result from the answer it applies,
\* which is the last of the absences.
LEMMA NewResult ==
  ASSUME IInv, IsFiniteSet(observed), AbsencesAreObserved, Covered, phase = "answered",
         ApplyObservation(obs), NEW s \in sessions, IsOpen(s), Leaves(s, obs),
         NEW r, r = Reconciled(s, obs)
  PROVE  ResultIsOf(r, MissedOf(observed', r.last, r.absentPolls), sessions')
<1>1. obs \in Observation /\ \A x \in observed : x.at < obs.at
  BY DEF IInv, HistoryOrder
<1>2. s \in Session /\ s.last < obs.at
  BY <1>1, RowTimes
<1>3. observed' = observed \cup {obs} /\ observed \subseteq Observation
  BY DEF ApplyObservation, IInv, TypeOK
<1>4. r = CloseLeft(s, obs)
  BY ReconciledCases DEF Leaves, Extends
<1>5. /\ r.last = s.last /\ r.absentPolls = s.absentPolls + 1
      /\ r.player = s.player /\ r.kind = s.kind
      /\ r.kind = "queue" => r.result = QueueOutcome(s, obs)
  BY <1>2, <1>4 DEF CloseLeft, Session
<1>6. MissedOf(observed', r.last, r.absentPolls) = Since(observed, s.last) \cup {obs}
  <2>1. Accounted(s, observed)
    BY AbsencesAre
  <2>2. MissedOf(observed \cup {obs}, s.last, s.absentPolls + 1)
          = Since(observed, s.last) \cup {obs}
    BY <1>1, <1>2, <1>3, <2>1, OneMoreMissed
  <2> QED BY <1>3, <1>5, <2>2
<1>7. \A x \in Since(observed, s.last) \cup {obs} : x.at <= obs.at
  BY <1>1, <1>3 DEF Since, Observation, Time
<1>8. ASSUME s.player \in obs.connected
      PROVE  \E u \in sessions' : Covers(u, "presence", s.player, obs)
  <2>1. \A o \in observed' : \A k \in Kinds : \A p \in Present(k, o) :
          \E u \in sessions' : Covers(u, k, p, o)
    BY ApplyCovers DEF Covered, Covers, Present
  <2> QED BY <1>3, <1>8, <2>1 DEF Kinds, Present
<1> QED BY <1>5, <1>6, <1>7, <1>8 DEF ResultIsOf, QueueOutcome

\* The transaction keeps the results of the queue honest.
LEMMA ApplyResults ==
  ASSUME IInv, IsFiniteSet(observed), AbsencesAreObserved, Covered,
         QueueResultIsOfLastAbsence, phase = "answered", ApplyObservation(obs)
  PROVE  QueueResultIsOfLastAbsence'
<1>1. obs \in Observation
  BY DEF IInv, HistoryOrder
<1>2. ASSUME NEW r \in sessions', r.status = "CLOSED_LEFT"
      PROVE  ResultIsOf(r, MissedOf(observed', r.last, r.absentPolls), sessions')
  <2>1. CASE r \in sessions /\ ~IsOpen(r)
    <3>1. ResultIsOf(r, Missed(r), sessions)
      BY <2>1 DEF QueueResultIsOfLastAbsence, ResultIsOf, Covers
    <3> QED BY <1>2, <2>1, <3>1, OldResult
  <2>2. ASSUME NEW s \in sessions, IsOpen(s), r = Reconciled(s, obs)
        PROVE  ResultIsOf(r, MissedOf(observed', r.last, r.absentPolls), sessions')
    <3>1. s \in Session
      BY DEF IInv, TypeOK
    <3>2. Leaves(s, obs)
      BY <1>1, <1>2, <2>2, <3>1, ReconciledStatus
    <3> QED BY <2>2, <3>2, NewResult
  <2>3. ASSUME NEW k \in Kinds, NEW p \in Newcomers(k, obs), r = NewSession(k, p, obs)
        PROVE  FALSE
    BY <1>2, <2>3 DEF NewSession
  <2> QED BY <1>1, <2>1, <2>2, <2>3, RowsAfterApply DEF IInv
<1>3. (\A r \in sessions' : r.status = "CLOSED_LEFT" =>
          ResultIsOf(r, MissedOf(observed', r.last, r.absentPolls), sessions'))
        => QueueResultIsOfLastAbsence'
  BY DEF QueueResultIsOfLastAbsence, ResultIsOf, Missed, MissedOf, Covers
<1> QED BY <1>2, <1>3

\* JOINED_SERVER and LEFT_QUEUE are what the confirming poll saw, and who
\* joined has a session on the server that covers it.
THEOREM QueueResultsAreSeen == Spec => []QueueResultIsOfLastAbsence
<1> DEFINE ResultsInv == IsFiniteSet(observed) /\ AbsencesAreObserved
<1>1. Init => QueueResultIsOfLastAbsence
  BY DEF Init, QueueResultIsOfLastAbsence
<1>2. IInv /\ ResultsInv /\ Covered /\ QueueResultIsOfLastAbsence /\ [Next]_vars
        => QueueResultIsOfLastAbsence'
  <2> SUFFICES ASSUME IInv, ResultsInv, Covered, QueueResultIsOfLastAbsence, [Next]_vars
               PROVE  QueueResultIsOfLastAbsence'
    OBVIOUS
  <2>1. CASE UNCHANGED <<sessions, events, observed>>
    BY <2>1 DEF QueueResultIsOfLastAbsence, Missed
  <2>2. CASE phase = "answered" /\ ApplyObservation(obs)
    BY <2>2, ApplyResults
  <2> QED BY <2>1, <2>2, TableSteps
<1> QED BY <1>1, <1>2, Invariance, AbsenceInvariance, SightingsInvariance, PTL DEF Spec

\* The recognition ADR 0005 promises does hold of a tracker that takes one
\* absence for a departure: then the poll that misses the player in the queue
\* is the poll that decides.
THEOREM OneConfirmationRecognisesJoins ==
  ASSUME AbsentConfirmations = 1
  PROVE  Spec => []QueueJoinIsRecognised
<1>1. IInv /\ (IsFiniteSet(observed) /\ AbsencesAreObserved) /\ QueueResultIsOfLastAbsence
        => QueueJoinIsRecognised
  <2> SUFFICES ASSUME IInv, IsFiniteSet(observed), AbsencesAreObserved,
                      QueueResultIsOfLastAbsence,
                      NEW s \in sessions, s.kind = "queue", s.status = "CLOSED_LEFT",
                      NEW o \in Missed(s), s.player \in o.connected
               PROVE  s.result = "JOINED_SERVER"
    BY DEF QueueJoinIsRecognised
  <2>1. PICK x \in Missed(s) :
          s.result = IF s.player \in x.connected THEN "JOINED_SERVER" ELSE "LEFT_QUEUE"
    BY DEF QueueResultIsOfLastAbsence
  <2>2. Cardinality(Missed(s)) = 1
    BY DEF AbsencesAreObserved, IInv, SessionTimeline, TimelineHolds
  <2>3. x = o
    <3>1. IsFiniteSet(Missed(s))
      BY FS_Subset DEF Missed
    <3> QED BY <2>2, <3>1, FS_Singleton
  <2> QED BY <2>1, <2>3
<1> QED BY <1>1, Invariance, AbsenceInvariance, QueueResultsAreSeen, PTL

-----------------------------------------------------------------------------
(* The outbox *)

\* The events of a session in the outbox, as OutboxMatchesSessions has them.
Told(s, outbox, type) ==
  {e \in outbox : e.type = type /\ SameVisitor(e, s) /\ e.session = s.first}

\* One row and the outbox tell the same story.
Agrees(s, outbox) ==
  /\ \E e : Told(s, outbox, "OPENED") = {e}
  /\ s.status = "CLOSED_LEFT" =>
       \E e : Told(s, outbox, "LEFT") = {e} /\ e.at = s.ended
  /\ s.status # "CLOSED_LEFT" => Told(s, outbox, "LEFT") = {}

\* Every event belongs to a session, and an opening is dated as it began.
EventsHaveRows ==
  \A e \in events :
    /\ \E s \in sessions : SameVisitor(s, e) /\ s.first = e.session
    /\ e.type = "OPENED" => e.at = e.session

OutboxInv ==
  /\ \A s \in sessions : Agrees(s, events)
  /\ EventsHaveRows

\* A new event opens the session of a newcomer or ends one that is left.
LEMMA NewEvents ==
  ASSUME NEW o, ApplyObservation(o), NEW e
  PROVE  e \in events' <=>
           \/ e \in events
           \/ \E k \in Kinds : \E p \in Newcomers(k, o) : e = OpenedEvent(k, p, o)
           \/ \E k \in Kinds : \E s \in OpenSessions(k) : Leaves(s, o) /\ e = LeftEvent(s, o)
BY DEF ApplyObservation, ReconcileEvents, Kinds

\* Player, table and beginning name one session.
LEMMA BeginningNamesRow ==
  ASSUME IInv, NEW s \in sessions, NEW u \in sessions, SameVisitor(s, u), s.first = u.first
  PROVE  s = u
<1>1. /\ s.first \in Nat /\ s.last \in Nat /\ u.first \in Nat /\ u.last \in Nat
      /\ s.first <= s.last /\ u.first <= u.last
  BY DEF IInv, TypeOK, SessionTimeline, TimelineHolds, Session, Time
<1>2. s # u => s.last < u.first \/ u.last < s.first
  BY DEF IInv, SessionsDisjoint
<1> QED BY <1>1, <1>2

\* The new events of a session that was there before: none, but for the
\* departure of an open one.
LEMMA OldRowNews ==
  ASSUME IInv, NEW o \in Observation, \A x \in observed : x.at < o.at, ApplyObservation(o),
         NEW s \in sessions, NEW e \in events' \ events,
         SameVisitor(e, s), e.session = s.first
  PROVE  e = LeftEvent(s, o) /\ IsOpen(s) /\ Leaves(s, o)
<1>1. s.first \in Nat /\ o.at \in Nat /\ s.first < o.at
  BY RowTimes
<1>2. ASSUME NEW k \in Kinds, NEW p \in Newcomers(k, o), e = OpenedEvent(k, p, o) PROVE FALSE
  BY <1>1, <1>2 DEF OpenedEvent
<1>3. ASSUME NEW k \in Kinds, NEW u \in OpenSessions(k), Leaves(u, o), e = LeftEvent(u, o)
      PROVE  u = s
  <2>1. SameVisitor(e, u) /\ e.session = u.first
    BY <1>3 DEF LeftEvent, SameVisitor
  <2>2. SameVisitor(u, s) /\ u.first = s.first /\ u \in sessions
    BY <2>1 DEF SameVisitor, OpenSessions
  <2> QED BY <2>2, BeginningNamesRow
<1> QED BY <1>2, <1>3, NewEvents DEF OpenSessions

\* After the transaction the outbox agrees with every row.
LEMMA ApplyAgrees ==
  ASSUME IInv, OutboxInv, phase = "answered", ApplyObservation(obs), NEW r \in sessions'
  PROVE  Agrees(r, events')
<1>1. obs \in Observation /\ (\A x \in observed : x.at < obs.at) /\ events \subseteq events'
  BY DEF IInv, HistoryOrder, ApplyObservation
<1>2. ASSUME NEW s \in sessions
      PROVE  /\ s \in Session /\ s.kind \in Kinds /\ Agrees(s, events)
             /\ s.first \in Nat /\ obs.at \in Nat /\ s.first < obs.at
  BY <1>1, RowTimes DEF OutboxInv
<1>3. ASSUME r \in sessions, ~IsOpen(r) PROVE Agrees(r, events')
  <2>1. \A e \in events' : SameVisitor(e, r) /\ e.session = r.first => e \in events
    BY <1>1, <1>3, OldRowNews
  <2>2. Told(r, events', "OPENED") = Told(r, events, "OPENED")
        /\ Told(r, events', "LEFT") = Told(r, events, "LEFT")
    BY <1>1, <2>1 DEF Told
  <2> QED BY <1>2, <1>3, <2>2 DEF Agrees
<1>4. ASSUME NEW s \in sessions, IsOpen(s), r = Reconciled(s, obs) PROVE Agrees(r, events')
  <2>1. SameVisitor(r, s) /\ r.first = s.first /\ s.status # "CLOSED_LEFT"
    <3>1. TimelineHolds(s)
      BY <1>2 DEF IInv, SessionTimeline
    <3> QED BY <1>1, <1>2, <1>4, <3>1, ReconciledType, OpenRow DEF OpenStatus
  <2>2. LeftEvent(s, obs).type = "LEFT" /\ SameVisitor(LeftEvent(s, obs), r)
        /\ LeftEvent(s, obs).session = r.first /\ LeftEvent(s, obs).at = AbsentSince(s, obs)
    BY <2>1 DEF LeftEvent, SameVisitor
  <2>3. \A e \in events' \ events : SameVisitor(e, r) /\ e.session = r.first
                                      => e = LeftEvent(s, obs) /\ Leaves(s, obs)
    BY <1>1, <1>4, <2>1, OldRowNews DEF SameVisitor
  <2>4. /\ \E e : Told(r, events, "OPENED") = {e}
        /\ Told(r, events, "LEFT") = {}
    <3>1. \A type : Told(r, events, type) = Told(s, events, type)
      BY <2>1 DEF Told, SameVisitor
    <3> QED BY <1>2, <2>1, <3>1 DEF Agrees
  <2>5. Told(r, events', "OPENED") = Told(r, events, "OPENED")
    BY <1>1, <2>2, <2>3 DEF Told
  <2>6. CASE Leaves(s, obs)
    <3>1. LeftEvent(s, obs) \in events'
      BY <1>2, <1>4, <2>6, NewEvents DEF OpenSessions
    <3>2. Told(r, events', "LEFT") = {LeftEvent(s, obs)}
      BY <1>1, <2>2, <2>3, <2>4, <3>1 DEF Told
    <3>3. r.status = "CLOSED_LEFT" /\ r.ended = AbsentSince(s, obs)
      BY <1>1, <1>2, <1>4, <2>6, ReconciledStatus
    <3> QED BY <2>2, <2>4, <2>5, <3>2, <3>3 DEF Agrees
  <2>7. CASE ~Leaves(s, obs)
    <3>1. Told(r, events', "LEFT") = {}
      BY <1>1, <2>3, <2>4, <2>7 DEF Told
    <3>2. r.status # "CLOSED_LEFT"
      BY <1>1, <1>2, <1>4, <2>7, ReconciledStatus
    <3> QED BY <2>4, <2>5, <3>1, <3>2 DEF Agrees
  <2> QED BY <2>6, <2>7
<1>5. ASSUME NEW k \in Kinds, NEW p \in Newcomers(k, obs), r = NewSession(k, p, obs)
      PROVE  Agrees(r, events')
  <2>1. r.kind = k /\ r.player = p /\ r.first = obs.at /\ r.status = "ONLINE"
    BY <1>5 DEF NewSession
  <2>2. \A e \in events : e.session # r.first
    BY <1>2, <2>1 DEF OutboxInv, EventsHaveRows
  <2>3. ASSUME NEW e \in events', SameVisitor(e, r), e.session = r.first
        PROVE  e = OpenedEvent(k, p, obs)
    <3>1. ASSUME NEW l \in Kinds, NEW s \in OpenSessions(l), e = LeftEvent(s, obs) PROVE FALSE
      BY <1>2, <2>1, <2>3, <3>1 DEF LeftEvent, OpenSessions
    <3>2. PICK l \in Kinds : \E q \in Newcomers(l, obs) : e = OpenedEvent(l, q, obs)
      BY <2>2, <2>3, <3>1, NewEvents
    <3>3. PICK q \in Newcomers(l, obs) : e = OpenedEvent(l, q, obs)
      BY <3>2
    <3>4. e.kind = l /\ e.player = q
      BY <3>3 DEF OpenedEvent
    <3> QED BY <2>1, <2>3, <3>3, <3>4 DEF SameVisitor
  <2>4. OpenedEvent(k, p, obs) \in events'
    BY NewEvents
  <2>5. /\ OpenedEvent(k, p, obs).type = "OPENED" /\ SameVisitor(OpenedEvent(k, p, obs), r)
        /\ OpenedEvent(k, p, obs).session = r.first
    BY <2>1 DEF OpenedEvent, SameVisitor
  <2>6. Told(r, events', "OPENED") = {OpenedEvent(k, p, obs)}
    BY <2>3, <2>4, <2>5 DEF Told
  <2>7. Told(r, events', "LEFT") = {}
    BY <2>3, <2>5 DEF Told
  <2> QED BY <2>1, <2>6, <2>7 DEF Agrees
<1> QED BY <1>1, <1>3, <1>4, <1>5, RowsAfterApply DEF IInv

\* After the transaction every event has its row.
LEMMA ApplyEventsHaveRows ==
  ASSUME IInv, OutboxInv, phase = "answered", ApplyObservation(obs)
  PROVE  EventsHaveRows'
<1>1. obs \in Observation /\ \A x \in observed : x.at < obs.at
  BY DEF IInv, HistoryOrder
<1> DEFINE Good(e) == /\ \E r \in sessions' : SameVisitor(r, e) /\ r.first = e.session
                      /\ e.type = "OPENED" => e.at = e.session
<1>2. ASSUME NEW e \in events PROVE Good(e)
  <2>1. PICK s \in sessions : SameVisitor(s, e) /\ s.first = e.session
    BY DEF OutboxInv, EventsHaveRows
  <2>2. PICK u \in sessions' : SameVisitor(s, u) /\ s.first = u.first
    BY ApplyKeepsRows
  <2> QED BY <2>1, <2>2 DEF OutboxInv, EventsHaveRows, SameVisitor
<1>3. ASSUME NEW k \in Kinds, NEW p \in Newcomers(k, obs), NEW e, e = OpenedEvent(k, p, obs)
      PROVE  Good(e)
  <2>1. PICK r : r = NewSession(k, p, obs)
    OBVIOUS
  <2>2. r \in sessions' /\ r.kind = k /\ r.player = p /\ r.first = obs.at
    BY <2>1, RowsWritten DEF NewSession
  <2>3. e.kind = k /\ e.player = p /\ e.session = obs.at /\ e.at = obs.at
    BY <1>3 DEF OpenedEvent
  <2> QED BY <2>2, <2>3 DEF SameVisitor
<1>4. ASSUME NEW k \in Kinds, NEW s \in OpenSessions(k), NEW e, e = LeftEvent(s, obs)
      PROVE  Good(e)
  <2>1. s \in sessions /\ e.type = "LEFT" /\ SameVisitor(s, e) /\ e.session = s.first
    BY <1>4 DEF LeftEvent, SameVisitor, OpenSessions
  <2>2. PICK u \in sessions' : SameVisitor(s, u) /\ s.first = u.first
    BY <2>1, ApplyKeepsRows
  <2> QED BY <2>1, <2>2 DEF SameVisitor
<1>5. \A e \in events' : Good(e)
  BY <1>2, <1>3, <1>4, NewEvents
<1> QED BY <1>5 DEF EventsHaveRows, SameVisitor

\* The outbox and the tables agree in every state.
LEMMA OutboxInvariance == Spec => []OutboxInv
<1>1. Init => OutboxInv
  BY DEF Init, OutboxInv, EventsHaveRows
<1>2. IInv /\ OutboxInv /\ [Next]_vars => OutboxInv'
  <2> SUFFICES ASSUME IInv, OutboxInv, [Next]_vars PROVE OutboxInv'
    OBVIOUS
  <2>1. CASE UNCHANGED <<sessions, events, observed>>
    BY <2>1 DEF OutboxInv, Agrees, Told, EventsHaveRows, SameVisitor
  <2>2. CASE phase = "answered" /\ ApplyObservation(obs)
    <3>1. \A r \in sessions' : Agrees(r, events')
      BY <2>2, ApplyAgrees
    <3>2. EventsHaveRows'
      BY <2>2, ApplyEventsHaveRows
    <3> QED BY <3>1, <3>2 DEF OutboxInv, Agrees, Told, SameVisitor
  <2> QED BY <2>1, <2>2, TableSteps
<1> QED BY <1>1, <1>2, Invariance, PTL DEF Spec

\* The outbox tells the tables' story exactly once, whatever commits go
\* unacknowledged and whatever is repeated after a restart.
THEOREM OutboxIsExact == Spec => []OutboxMatchesSessions
<1>1. OutboxInv => OutboxMatchesSessions
  <2> SUFFICES ASSUME OutboxInv PROVE OutboxMatchesSessions
    OBVIOUS
  <2>1. ASSUME NEW s \in sessions
        PROVE  /\ Cardinality(EventsOf(s, "OPENED")) = 1
               /\ Cardinality(EventsOf(s, "LEFT")) = IF s.status = "CLOSED_LEFT" THEN 1 ELSE 0
               /\ \A e \in EventsOf(s, "LEFT") : e.at = s.ended
    <3>1. EventsOf(s, "OPENED") = Told(s, events, "OPENED")
          /\ EventsOf(s, "LEFT") = Told(s, events, "LEFT")
      BY DEF EventsOf, Told
    <3>2. Agrees(s, events)
      BY DEF OutboxInv
    <3>3. Cardinality(EventsOf(s, "OPENED")) = 1
      BY <3>1, <3>2, FS_Singleton DEF Agrees
    <3>4. CASE s.status = "CLOSED_LEFT"
      <4>1. PICK e : EventsOf(s, "LEFT") = {e} /\ e.at = s.ended
        BY <3>1, <3>2, <3>4 DEF Agrees
      <4> QED BY <3>3, <3>4, <4>1, FS_Singleton
    <3>5. CASE s.status # "CLOSED_LEFT"
      <4>1. EventsOf(s, "LEFT") = {}
        BY <3>1, <3>2, <3>5 DEF Agrees
      <4> QED BY <3>3, <3>5, <4>1, FS_EmptySet
    <3> QED BY <3>4, <3>5
  <2> QED BY <2>1 DEF OutboxMatchesSessions, OutboxInv, EventsHaveRows
<1> QED BY <1>1, OutboxInvariance, PTL

-----------------------------------------------------------------------------
(* Whom the newest observation saw *)

\* A session is closed by a poll that did not extend it: an observation later
\* than its last sighting has been committed.
ClosedLater == \A s \in sessions : ~IsOpen(s) => \E o \in observed : o.at > s.last

\* The transaction closes rows last seen before the answer it applies.
LEMMA ApplyClosesLater ==
  ASSUME IInv, ClosedLater, phase = "answered", ApplyObservation(obs)
  PROVE  ClosedLater'
<1>1. obs \in Observation /\ \A x \in observed : x.at < obs.at
  BY DEF IInv, HistoryOrder
<1>2. observed' = observed \cup {obs}
  BY DEF ApplyObservation
<1>3. ASSUME NEW s \in sessions, IsOpen(s), NEW r, r = Reconciled(s, obs), ~IsOpen(r)
      PROVE  r.last < obs.at
  <2>1. s \in Session /\ s.last < obs.at
    BY <1>1, RowTimes
  <2>2. Extends(s, obs) => r.ended = s.ended
    <3>1. Extend(s, obs).ended = s.ended
      BY <2>1 DEF Extend, Session
    <3> QED BY <1>3, <3>1, ReconciledCases DEF Extends, Leaves
  <2>3. ~Extends(s, obs)
    BY <1>3, <2>2 DEF IsOpen
  <2> QED BY <1>1, <1>3, <2>1, <2>3, LastSighting
<1>4. ASSUME NEW k \in Kinds, NEW p \in Newcomers(k, obs)
      PROVE  IsOpen(NewSession(k, p, obs))
  BY DEF NewSession, IsOpen
<1>5. \A r \in sessions' : ~IsOpen(r) => \E o \in observed' : o.at > r.last
  <2> SUFFICES ASSUME NEW r \in sessions', ~IsOpen(r)
               PROVE  \E o \in observed' : o.at > r.last
    OBVIOUS
  <2>1. CASE r \in sessions
    BY <1>2, <2>1 DEF ClosedLater
  <2>2. CASE \E s \in sessions : IsOpen(s) /\ r = Reconciled(s, obs)
    <3>1. r.last < obs.at
      BY <1>3, <2>2
    <3>2. r.last \in Nat /\ obs.at \in Nat
      BY <1>1, ApplyPreserves DEF Session, Observation, Time
    <3> QED BY <1>2, <3>1, <3>2
  <2> QED BY <1>1, <1>4, <2>1, <2>2, RowsAfterApply DEF IInv
<1> QED BY <1>5 DEF ClosedLater, IsOpen

LEMMA ClosedLaterInvariance == Spec => []ClosedLater
<1>1. Init => ClosedLater
  BY DEF Init, ClosedLater
<1>2. IInv /\ ClosedLater /\ [Next]_vars => ClosedLater'
  <2> SUFFICES ASSUME IInv, ClosedLater, [Next]_vars PROVE ClosedLater'
    OBVIOUS
  <2>1. CASE UNCHANGED <<sessions, events, observed>>
    BY <2>1 DEF ClosedLater, IsOpen
  <2>2. CASE phase = "answered" /\ ApplyObservation(obs)
    BY <2>2, ApplyClosesLater
  <2> QED BY <2>1, <2>2, TableSteps
<1> QED BY <1>1, <1>2, Invariance, PTL DEF Spec

\* Whom the newest observation saw has an open session, last seen by it.
LEMMA NewestSightingIsOpen ==
  ASSUME IInv, Covered, ClosedLater, NEW o \in observed, \A x \in observed : x.at <= o.at,
         NEW k \in Kinds, NEW p \in Present(k, o)
  PROVE  \E s \in OpenSessions(k) : s.player = p /\ s.last = o.at
<1>1. PICK s \in sessions : Covers(s, k, p, o)
  BY DEF Covered
<1>2. \A x \in observed : x.at \in Nat
  BY DEF IInv, TypeOK, Observation, Time
<1>3. s.last = o.at
  <2>1. PICK x \in observed : x.at = s.last
    BY DEF IInv, TimesObserved
  <2> QED BY <1>1, <1>2, <2>1 DEF Covers
<1>4. IsOpen(s)
  BY <1>2, <1>3 DEF ClosedLater
<1> QED BY <1>1, <1>3, <1>4 DEF OpenSessions, Covers

\* Whom the newest poll saw is not announced again unless as after a gap, be
\* it by a process that has just started.
THEOREM SeenRejoinsAreFlagged == Spec => SeenRejoinIsFlagged
<1> DEFINE Flagged ==
      \A e \in events' \ events, o \in observed :
        /\ lastOK # NoTime /\ lastOK <= o.at
        /\ \A x \in observed : x.at <= o.at
        /\ e.type = "OPENED" /\ e.player \in Present(e.kind, o)
        => e.afterGap
<1>1. IInv /\ Covered /\ ClosedLater /\ [Next]_vars => [Flagged]_vars
  <2> SUFFICES ASSUME IInv, Covered, ClosedLater, [Next]_vars,
                      NEW e \in events' \ events, NEW o \in observed,
                      lastOK # NoTime, lastOK <= o.at, \A x \in observed : x.at <= o.at,
                      e.type = "OPENED", e.player \in Present(e.kind, o)
               PROVE  e.afterGap
    OBVIOUS
  <2>1. phase = "answered" /\ ApplyObservation(obs)
    BY TableSteps
  <2>2. PICK k \in Kinds : \E p \in Newcomers(k, obs) : e = OpenedEvent(k, p, obs)
    BY <2>1, NewEvents DEF LeftEvent
  <2>3. PICK p \in Newcomers(k, obs) : e = OpenedEvent(k, p, obs)
    BY <2>2
  <2>4. e.kind = k /\ e.player = p /\ e.afterGap = AfterDataGap(obs.at)
    BY <2>3 DEF OpenedEvent
  <2>5. PICK s \in OpenSessions(k) : s.player = p /\ s.last = o.at
    BY <2>4, NewestSightingIsOpen
  <2>6. GapExpired(s, obs.at)
    BY <2>5 DEF Newcomers, SeenPlayers
  <2>7. lastOK \in Nat /\ o.at \in Nat /\ obs.at \in Nat /\ MaxGap \in Nat
    BY <2>1, ConfigAssumption DEF IInv, TypeOK, HistoryOrder, Observation, Time
  <2>8. AfterDataGap(obs.at)
    BY <2>5, <2>6, <2>7 DEF GapExpired, AfterDataGap
  <2> QED BY <2>4, <2>8
<1> QED BY <1>1, Invariance, SightingsInvariance, ClosedLaterInvariance, PTL
      DEF Spec, SeenRejoinIsFlagged

-----------------------------------------------------------------------------
(* The place in the queue *)

\* Nothing between two sessions: while one is open, its player is absent from
\* every observation since its last sighting.
LEMMA OpenRowMissesSince ==
  ASSUME IInv, Covered, NEW s \in sessions, IsOpen(s), NEW o \in observed, s.last < o.at
  PROVE  s.player \notin Present(s.kind, o)
<1> SUFFICES ASSUME s.player \in Present(s.kind, o) PROVE FALSE
  OBVIOUS
<1>1. s \in Session /\ o \in Observation /\ s.first <= s.last
  BY DEF IInv, TypeOK, SessionTimeline, TimelineHolds
<1>2. s.kind \in Kinds /\ s.first \in Nat /\ s.last \in Nat /\ o.at \in Nat
  BY <1>1 DEF Session, Observation, Time
<1>3. PICK u \in sessions : Covers(u, s.kind, s.player, o)
  BY <1>2 DEF Covered
<1>4. u.first \in Nat /\ u.last \in Nat
  BY DEF IInv, TypeOK, Session, Time
<1>5. SameVisitor(s, u) /\ s # u
  BY <1>2, <1>3, <1>4 DEF Covers, SameVisitor
<1>6. ~IsOpen(u) /\ u.last < s.first
  BY <1>5 DEF IInv, SessionsDisjoint
<1> QED BY <1>1, <1>2, <1>3, <1>4, <1>6 DEF Covers

\* The transaction does not change who was in front of an earlier observation.
LEMMA EarlierFrontStays ==
  ASSUME IInv, Covered, phase = "answered", ApplyObservation(obs), NEW o \in observed
  PROVE  InFront(o)' = InFront(o)
<1> DEFINE Holds(r, p) == r.kind = "queue" /\ r.player = p /\ r.first < o.at /\ o.at <= r.last
<1>1. /\ obs \in Observation /\ (\A x \in observed : x.at < obs.at)
      /\ o.at < obs.at /\ o.at \in Nat /\ obs.at \in Nat
  BY DEF IInv, TypeOK, HistoryOrder, Observation, Time
<1>2. ASSUME NEW s \in sessions
      PROVE  /\ s \in Session /\ s.kind \in Kinds /\ s.first \in Nat /\ s.last \in Nat
             /\ s.last < obs.at
  BY <1>1, RowTimes
<1>3. ASSUME NEW p \in o.queue, NEW s \in sessions, Holds(s, p)
      PROVE  \E r \in sessions' : Holds(r, p)
  <2>1. PICK r \in sessions' : SameVisitor(s, r) /\ s.first = r.first /\ s.last <= r.last
    BY ApplyKeepsRows
  <2>2. r.last \in Nat
    BY ApplyPreserves DEF Session, Time
  <2> QED BY <1>1, <1>2, <1>3, <2>1, <2>2 DEF SameVisitor
<1>4. ASSUME NEW p \in o.queue, NEW r \in sessions', Holds(r, p)
      PROVE  \E s \in sessions : Holds(s, p)
  <2>1. ASSUME NEW s \in sessions, IsOpen(s), r = Reconciled(s, obs) PROVE Holds(s, p)
    <3>1. SameVisitor(r, s) /\ r.first = s.first
      BY <1>1, <1>2, <2>1, ReconciledType
    <3>2. Present(s.kind, o) = o.queue
      BY <1>4, <3>1 DEF Present, SameVisitor
    <3>3. s.player = p
      BY <1>4, <3>1 DEF SameVisitor
    <3>4. o.at <= s.last
      BY <1>1, <1>2, <2>1, <3>2, <3>3, OpenRowMissesSince
    <3> QED BY <1>4, <3>1, <3>4 DEF SameVisitor
  <2>2. ASSUME NEW k \in Kinds, NEW q \in Newcomers(k, obs), r = NewSession(k, q, obs)
        PROVE  FALSE
    BY <1>1, <1>4, <2>2 DEF NewSession
  <2> QED BY <1>1, <1>4, <2>1, <2>2, RowsAfterApply DEF IInv
<1>5. InFront(o) = {p \in o.queue : \E s \in sessions : Holds(s, p)}
  BY DEF InFront
<1>6. InFront(o)' = {p \in o.queue : \E s \in sessions' : Holds(s, p)}
  BY DEF InFront
<1> HIDE DEF Holds
<1> QED BY <1>3, <1>4, <1>5, <1>6

\* Those in front at the observation just applied are the players whose rows
\* it extended.
LEMMA NewFront ==
  ASSUME IInv, NEW o \in Observation, \A x \in observed : x.at < o.at, ApplyObservation(o)
  PROVE  /\ Cardinality(InFront(o)') = Kept("queue", o)
         /\ InFront(o)' \subseteq o.queue
         /\ InFront(o)' \cap Newcomers("queue", o) = {}
<1> DEFINE Rows == {s \in OpenSessions("queue") : Extends(s, o)}
           Front == {s.player : s \in Rows}
           f == [s \in Rows |-> s.player]
<1>1. ASSUME NEW s \in sessions
      PROVE  /\ s \in Session /\ s.kind \in Kinds /\ s.first \in Nat /\ s.last \in Nat
             /\ o.at \in Nat /\ s.first < o.at /\ s.last < o.at
  BY RowTimes
<1>2. IsFiniteSet(Rows)
  BY FS_Subset DEF IInv, OpenSessions
<1>3. Cardinality(Front) = Cardinality(Rows)
  <2>1. ASSUME NEW s \in Rows, NEW u \in Rows, s.player = u.player PROVE s = u
    BY <2>1 DEF IInv, SessionsDisjoint, OpenSessions, SameVisitor
  <2>2. f \in Bijection(Rows, Front)
    BY <2>1 DEF Bijection, Injection, Surjection, IsInjective
  <2> QED BY <1>2, <2>2, FS_Bijection DEF ExistsBijection
<1>4. ASSUME NEW p \in Front
      PROVE  p \in o.queue /\ \E r \in sessions' : /\ r.kind = "queue" /\ r.player = p
                                                     /\ r.first < o.at /\ o.at <= r.last
  <2>1. PICK s \in Rows : s.player = p
    OBVIOUS
  <2>2. s \in sessions /\ IsOpen(s) /\ s.kind = "queue" /\ Extends(s, o)
    BY DEF OpenSessions
  <2>3. PICK r : r = Reconciled(s, o)
    OBVIOUS
  <2>4. r \in sessions' /\ SameVisitor(r, s) /\ r.first = s.first /\ r.last = o.at
    BY <1>1, <2>2, <2>3, RowsWritten, ReconciledType, LastSighting
  <2> QED BY <1>1, <2>1, <2>2, <2>4 DEF Extends, Present, SameVisitor
<1>5. ASSUME NEW p \in o.queue, NEW r \in sessions', r.kind = "queue", r.player = p,
             r.first < o.at, o.at <= r.last
      PROVE  p \in Front
  <2>1. ASSUME NEW s \in sessions, IsOpen(s), r = Reconciled(s, o) PROVE p \in Front
    <3>1. SameVisitor(r, s) /\ r.first = s.first
      BY <1>1, <2>1, ReconciledType
    <3>2. Extends(s, o)
      BY <1>1, <1>5, <2>1, LastSighting
    <3>3. s \in Rows /\ s.player = p
      BY <1>5, <2>1, <3>1, <3>2 DEF OpenSessions, SameVisitor
    <3> QED BY <3>3
  <2>2. ASSUME NEW k \in Kinds, NEW q \in Newcomers(k, o), r = NewSession(k, q, o)
        PROVE  FALSE
    <3>1. r.first = o.at /\ o.at \in Nat
      BY <2>2 DEF NewSession, Observation, Time
    <3> QED BY <1>5, <3>1
  <2>3. CASE r \in sessions
    BY <1>1, <1>5, <2>3
  <2> HIDE DEF Front
  <2> QED BY <2>1, <2>2, <2>3, RowsAfterApply DEF IInv
<1>6. InFront(o)' = {p \in o.queue : \E r \in sessions' :
                       /\ r.kind = "queue" /\ r.player = p
                       /\ r.first < o.at /\ o.at <= r.last}
  BY DEF InFront
<1>7. ASSUME NEW p \in Front PROVE p \notin Newcomers("queue", o)
  <2>1. PICK s \in Rows : s.player = p
    OBVIOUS
  <2>2. s \in OpenSessions("queue") /\ ~GapExpired(s, o.at)
    BY DEF Extends
  <2> QED BY <2>1, <2>2 DEF Newcomers, SeenPlayers
<1>8. Kept("queue", o) = Cardinality(Rows)
  BY DEF Kept
<1> HIDE DEF Front, Rows
<1>9. InFront(o)' = Front
  BY <1>4, <1>5, <1>6
<1>10. Front \subseteq o.queue
  BY <1>4
<1> QED BY <1>3, <1>7, <1>8, <1>9, <1>10

\* The places announced by the transaction, and those announced before, agree
\* with who is in front.
LEMMA ApplyPlaces ==
  ASSUME IInv, Covered, OutboxInv, PlaceCountsEarlierArrivals,
         phase = "answered", ApplyObservation(obs)
  PROVE  PlaceCountsEarlierArrivals'
<1> DEFINE Right(e, o) ==
             /\ e.place.min = Cardinality(InFront(o)') + 1
             /\ e.place.min <= e.place.max
             /\ e.place.max = Cardinality(o.queue)
             /\ e.place.size = Cardinality(o.queue)
<1>1. /\ obs \in Observation /\ (\A x \in observed : x.at < obs.at)
      /\ TypeOK /\ IsFiniteSet(sessions) /\ observed' = observed \cup {obs}
  BY DEF IInv, HistoryOrder, ApplyObservation
<1>2. obs.at \in Nat /\ \A x \in observed : x.at \in Nat
  BY <1>1 DEF TypeOK, Observation, Time
<1>3. ASSUME NEW e \in events', NEW o \in observed',
             e.type = "OPENED", e.kind = "queue", e.at = o.at
      PROVE  Right(e, o)
  <2>1. CASE e \in events /\ o \in observed
    <3>1. InFront(o)' = InFront(o)
      BY <2>1, EarlierFrontStays
    <3> QED BY <1>3, <2>1, <3>1 DEF PlaceCountsEarlierArrivals
  <2>2. CASE e \in events /\ o = obs
    <3>1. PICK s \in sessions : s.first = e.at
      BY <1>3, <2>2 DEF OutboxInv, EventsHaveRows
    <3> QED BY <1>1, <1>2, <1>3, <2>2, <3>1, RowTimes
  <2>3. ASSUME NEW k \in Kinds, NEW p \in Newcomers(k, obs), e = OpenedEvent(k, p, obs)
        PROVE  Right(e, o)
    <3>1. k = "queue" /\ e.at = obs.at /\ e.place = OpenedPlace("queue", obs)
      BY <1>3, <2>3 DEF OpenedEvent
    <3>2. o = obs /\ o \in Observation
      <4>1. o.at = obs.at
        BY <1>3, <3>1
      <4>2. o \notin observed
        <5>1. ASSUME o \in observed PROVE FALSE
          <6>1. o.at < obs.at /\ o.at \in Nat
            BY <1>1, <1>2, <5>1
          <6> QED BY <1>2, <4>1, <6>1
        <5> QED BY <5>1
      <4> QED BY <1>1, <1>3, <4>2
    <3> DEFINE kept == Kept("queue", o)
               size == Cardinality(o.queue)
    <3>3. kept \in Nat /\ size \in Nat /\ Present("queue", o) = o.queue
      BY <1>1, <3>2, ReconciledRowsFinite DEF Kinds, Present
    <3>4. /\ e.place.min = kept + 1 /\ e.place.max = kept + (size - kept)
          /\ e.place.size = size
      BY <3>1, <3>2, <3>3 DEF OpenedPlace, Arrived
    <3>5. PICK front : front = InFront(o)'
      OBVIOUS
    <3>6. Cardinality(front) = kept /\ front \subseteq o.queue /\ p \notin front
      BY <1>1, <2>3, <3>1, <3>2, <3>5, NewFront
    <3>7. kept < size
      <4>1. p \in o.queue
        BY <2>3, <3>1, <3>2, <3>3 DEF Newcomers
      <4>2. IsFiniteSet(o.queue)
        BY <3>2, PlayersAssumption, FS_Subset DEF Observation
      <4> QED BY <3>3, <3>6, <4>1, <4>2, FS_Subset
    <3> HIDE DEF kept, size
    <3>8. e.place.min <= e.place.max /\ e.place.max = size
      BY <3>3, <3>4, <3>7
    <3> QED BY <3>4, <3>5, <3>6, <3>8 DEF size
  <2>4. ASSUME NEW s, e = LeftEvent(s, obs) PROVE FALSE
    BY <1>3, <2>4 DEF LeftEvent
  <2> QED BY <1>1, <1>3, <2>1, <2>2, <2>3, <2>4, NewEvents
<1> QED BY <1>3 DEF PlaceCountsEarlierArrivals

\* The announced range begins behind those who wait and ends at the last of
\* the queue.
THEOREM PlacesAreRight == Spec => []PlaceCountsEarlierArrivals
<1>1. Init => PlaceCountsEarlierArrivals
  BY DEF Init, PlaceCountsEarlierArrivals
<1>2. IInv /\ Covered /\ OutboxInv /\ PlaceCountsEarlierArrivals /\ [Next]_vars
        => PlaceCountsEarlierArrivals'
  <2> SUFFICES ASSUME IInv, Covered, OutboxInv, PlaceCountsEarlierArrivals, [Next]_vars
               PROVE  PlaceCountsEarlierArrivals'
    OBVIOUS
  <2>1. CASE UNCHANGED <<sessions, events, observed>>
    BY <2>1 DEF PlaceCountsEarlierArrivals, InFront
  <2>2. CASE phase = "answered" /\ ApplyObservation(obs)
    BY <2>2, ApplyPlaces
  <2> QED BY <2>1, <2>2, TableSteps
<1> QED BY <1>1, <1>2, Invariance, SightingsInvariance, OutboxInvariance, PTL DEF Spec

-----------------------------------------------------------------------------
(* Presence implements Visits *)

Visitors == Kinds \X Players

\* The rows of a visitor, and the visits they stand for.
Rows(x) == {s \in sessions : s.kind = x[1] /\ s.player = x[2]}
Begun(R) == {s.first : s \in R}
EndedAs(R, status) == {s.first : s \in {r \in R : r.status = status}}

\* What the outbox tells of a visitor is what his rows say.
VisitsAreRows ==
  \A x \in Visitors :
    /\ OpenedVisits[x] = Begun(Rows(x))
    /\ LeftVisits[x] = EndedAs(Rows(x), "CLOSED_LEFT")
    /\ LostVisits[x] = EndedAs(Rows(x), "CLOSED_DATA_GAP")
    /\ \A s \in Rows(x) : IsOpen(s) => MissedPolls[x] = s.absentPolls
    /\ (\A s \in Rows(x) : ~IsOpen(s)) => MissedPolls[x] = 0

\* A visitor has one open row at most.
LEMMA OneOpenRow ==
  ASSUME IInv, NEW x \in Visitors, NEW s \in Rows(x), NEW u \in Rows(x), IsOpen(s), IsOpen(u)
  PROVE  s = u
BY DEF IInv, SessionsDisjoint, SameVisitor, Rows

\* Opened visits are the rows: every row was announced, and every event has a row.
LEMMA OutboxTellsRows ==
  ASSUME IInv, OutboxInv
  PROVE  VisitsAreRows
<1> SUFFICES ASSUME NEW x \in Visitors
             PROVE  /\ OpenedVisits[x] = Begun(Rows(x))
                    /\ LeftVisits[x] = EndedAs(Rows(x), "CLOSED_LEFT")
                    /\ LostVisits[x] = EndedAs(Rows(x), "CLOSED_DATA_GAP")
                    /\ \A s \in Rows(x) : IsOpen(s) => MissedPolls[x] = s.absentPolls
                    /\ (\A s \in Rows(x) : ~IsOpen(s)) => MissedPolls[x] = 0
  BY DEF VisitsAreRows
<1> DEFINE Mine(type) == {d \in events : d.type = type /\ d.kind = x[1] /\ d.player = x[2]}
<1>1. ASSUME NEW s \in Rows(x), NEW type PROVE Told(s, events, type) \subseteq Mine(type)
  BY DEF Told, Rows, SameVisitor
<1>2. ASSUME NEW type, NEW e \in Mine(type)
      PROVE  \E s \in Rows(x) : s.first = e.session /\ e \in Told(s, events, type)
  BY <1>2 DEF OutboxInv, EventsHaveRows, Rows, Told, SameVisitor
<1>3. OpenedVisits[x] = Begun(Rows(x))
  <2>1. OpenedVisits[x] = {e.session : e \in Mine("OPENED")}
    BY DEF OpenedVisits, Visitors
  <2>2. ASSUME NEW e \in Mine("OPENED") PROVE e.session \in Begun(Rows(x))
    BY <1>2, <2>2 DEF Begun
  <2>3. ASSUME NEW s \in Rows(x) PROVE \E e \in Mine("OPENED") : e.session = s.first
    BY <1>1, <2>3 DEF Rows, OutboxInv, Agrees, Told
  <2> QED BY <2>1, <2>2, <2>3 DEF Begun
<1>4. LeftVisits[x] = EndedAs(Rows(x), "CLOSED_LEFT")
  <2>1. LeftVisits[x] = {e.session : e \in Mine("LEFT")}
    BY DEF LeftVisits, Visitors
  <2>2. ASSUME NEW e \in Mine("LEFT") PROVE e.session \in EndedAs(Rows(x), "CLOSED_LEFT")
    <3>1. PICK s \in Rows(x) : s.first = e.session /\ e \in Told(s, events, "LEFT")
      BY <1>2, <2>2
    <3>2. s.status = "CLOSED_LEFT"
      BY <3>1 DEF Rows, OutboxInv, Agrees
    <3> QED BY <3>1, <3>2 DEF EndedAs
  <2>3. ASSUME NEW s \in Rows(x), s.status = "CLOSED_LEFT"
        PROVE  \E e \in Mine("LEFT") : e.session = s.first
    BY <1>1, <2>3 DEF Rows, OutboxInv, Agrees, Told
  <2> QED BY <2>1, <2>2, <2>3 DEF EndedAs
<1>5. LostVisits[x] = EndedAs(Rows(x), "CLOSED_DATA_GAP")
  BY DEF LostVisits, EndedAs, Rows, Visitors
<1>6. PICK open : open = {s \in OpenSessions(x[1]) : s.player = x[2]}
  OBVIOUS
<1>7. MissedPolls[x] = IF open = {} THEN 0 ELSE (CHOOSE s \in open : TRUE).absentPolls
  BY <1>6 DEF MissedPolls, Visitors
<1>8. open = {s \in Rows(x) : IsOpen(s)}
  BY <1>6 DEF OpenSessions, Rows
<1>9. \A s \in Rows(x) : IsOpen(s) => MissedPolls[x] = s.absentPolls
  <2> SUFFICES ASSUME NEW s \in Rows(x), IsOpen(s) PROVE MissedPolls[x] = s.absentPolls
    OBVIOUS
  <2>1. open = {s}
    BY <1>8, OneOpenRow
  <2> QED BY <1>7, <2>1
<1>10. (\A s \in Rows(x) : ~IsOpen(s)) => MissedPolls[x] = 0
  BY <1>7, <1>8
<1> QED BY <1>3, <1>4, <1>5, <1>9, <1>10

\* The current visit is that of the open row.
LEMMA CurrentIsOpen ==
  ASSUME IInv, VisitsAreRows, NEW x \in Visitors
  PROVE  /\ \A s \in Rows(x) : IsOpen(s) => V!Current(x) = {s.first}
         /\ (\A s \in Rows(x) : ~IsOpen(s)) => V!Current(x) = {}
<1>1. ASSUME NEW s \in Rows(x)
      PROVE  IsOpen(s) <=> s.status \notin ClosedStatus
  <2>1. s \in Session /\ TimelineHolds(s)
    BY DEF Rows, IInv, TypeOK, SessionTimeline
  <2>2. IsOpen(s) => s.status \in OpenStatus
    BY <2>1, OpenRow
  <2>3. s.status \in OpenStatus => IsOpen(s)
    BY <2>1 DEF TimelineHolds, OpenStatus
  <2>4. s.status \in OpenStatus \cup ClosedStatus
    BY <2>1 DEF Session
  <2> QED BY <2>2, <2>3, <2>4 DEF OpenStatus, ClosedStatus
<1>2. \A s, u \in Rows(x) : s.first = u.first => s = u
  BY BeginningNamesRow DEF Rows, SameVisitor
<1>3. V!Current(x) = Begun(Rows(x)) \ (EndedAs(Rows(x), "CLOSED_LEFT")
                                         \cup EndedAs(Rows(x), "CLOSED_DATA_GAP"))
  BY DEF V!Current, VisitsAreRows
<1>4. ASSUME NEW t
      PROVE  t \in V!Current(x) <=> \E s \in Rows(x) : IsOpen(s) /\ t = s.first
  BY <1>1, <1>2, <1>3 DEF Begun, EndedAs, ClosedStatus
<1>5. \A s \in Rows(x) : IsOpen(s) => V!Current(x) = {s.first}
  BY <1>4, OneOpenRow
<1> QED BY <1>4, <1>5

\* The visits of the rows when there is one row more.
LEMMA OneMoreRow ==
  ASSUME NEW R, NEW s, NEW Q, Q = R \cup {s}
  PROVE  /\ Begun(Q) = Begun(R) \cup {s.first}
         /\ \A status :
              /\ s.status = status => EndedAs(Q, status) = EndedAs(R, status) \cup {s.first}
              /\ s.status # status => EndedAs(Q, status) = EndedAs(R, status)
<1>1. Begun(Q) = Begun(R) \cup {s.first}
  BY DEF Begun
<1>2. ASSUME NEW status, s.status = status
      PROVE  EndedAs(Q, status) = EndedAs(R, status) \cup {s.first}
  BY <1>2 DEF EndedAs
<1>3. ASSUME NEW status, s.status # status
      PROVE  EndedAs(Q, status) = EndedAs(R, status)
  BY <1>3 DEF EndedAs
<1> QED BY <1>1, <1>2, <1>3

\* What the next state's visits are, given its rows.
LEMMA NextVisits ==
  ASSUME VisitsAreRows', NEW x \in Visitors, NEW R, Rows(x)' = R
  PROVE  /\ OpenedVisits'[x] = Begun(R)
         /\ LeftVisits'[x] = EndedAs(R, "CLOSED_LEFT")
         /\ LostVisits'[x] = EndedAs(R, "CLOSED_DATA_GAP")
         /\ \A s \in R : IsOpen(s) => MissedPolls'[x] = s.absentPolls
         /\ (\A s \in R : ~IsOpen(s)) => MissedPolls'[x] = 0
<1>1. OpenedVisits'[x] = Begun(R)
  BY DEF VisitsAreRows, Begun
<1>2. /\ LeftVisits'[x] = EndedAs(R, "CLOSED_LEFT")
      /\ LostVisits'[x] = EndedAs(R, "CLOSED_DATA_GAP")
  BY DEF VisitsAreRows, EndedAs
<1>3. /\ \A s \in R : IsOpen(s) => MissedPolls'[x] = s.absentPolls
      /\ (\A s \in R : ~IsOpen(s)) => MissedPolls'[x] = 0
  BY DEF VisitsAreRows, IsOpen
<1> QED BY <1>1, <1>2, <1>3

\* The same when its rows are those of R and one row more.
LEMMA NextVisitsWith ==
  ASSUME VisitsAreRows', NEW x \in Visitors, NEW R, NEW u, Rows(x)' = R \cup {u}
  PROVE  /\ OpenedVisits'[x] = Begun(R) \cup {u.first}
         /\ u.status = "CLOSED_LEFT" =>
              LeftVisits'[x] = EndedAs(R, "CLOSED_LEFT") \cup {u.first}
         /\ u.status # "CLOSED_LEFT" => LeftVisits'[x] = EndedAs(R, "CLOSED_LEFT")
         /\ u.status = "CLOSED_DATA_GAP" =>
              LostVisits'[x] = EndedAs(R, "CLOSED_DATA_GAP") \cup {u.first}
         /\ u.status # "CLOSED_DATA_GAP" => LostVisits'[x] = EndedAs(R, "CLOSED_DATA_GAP")
<1>1. PICK Q : Q = R \cup {u}
  OBVIOUS
<1>2. /\ Begun(Q) = Begun(R) \cup {u.first}
      /\ \A status :
           /\ u.status = status => EndedAs(Q, status) = EndedAs(R, status) \cup {u.first}
           /\ u.status # status => EndedAs(Q, status) = EndedAs(R, status)
  BY <1>1, OneMoreRow
<1>3. /\ OpenedVisits'[x] = Begun(Q)
      /\ LeftVisits'[x] = EndedAs(Q, "CLOSED_LEFT")
      /\ LostVisits'[x] = EndedAs(Q, "CLOSED_DATA_GAP")
  BY <1>1, NextVisits
<1> QED BY <1>1, <1>2, <1>3

\* Every visit began before the answer in hand.
LEMMA VisitsBefore ==
  ASSUME IInv, phase = "answered", NEW x \in Visitors, VisitsAreRows
  PROVE  obs.at \in Int /\ \A t \in OpenedVisits[x] : t < obs.at
<1>1. obs \in Observation /\ \A o \in observed : o.at < obs.at
  BY DEF IInv, HistoryOrder
<1>2. \A s \in Rows(x) : s.first < obs.at
  <2> SUFFICES ASSUME NEW s \in Rows(x) PROVE s.first < obs.at
    OBVIOUS
  <2>1. s.first \in Nat /\ s.last \in Nat /\ obs.at \in Nat /\ s.first <= s.last /\ s.last < obs.at
    BY <1>1, RowTimes DEF Rows
  <2> QED BY <2>1
<1> QED BY <1>1, <1>2 DEF VisitsAreRows, Begun, Observation, Time

\* What a committed observation makes of a visitor's rows.
LEMMA RowsMove ==
  ASSUME IInv, phase = "answered", ApplyObservation(obs), NEW x \in Visitors, NEW r
  PROVE  r \in Rows(x)' <=>
           \/ r \in Rows(x) /\ ~IsOpen(r)
           \/ \E s \in Rows(x) : IsOpen(s) /\ r = Reconciled(s, obs)
           \/ x[2] \in Newcomers(x[1], obs) /\ r = NewSession(x[1], x[2], obs)
<1>1. obs \in Observation /\ x[1] \in Kinds /\ x[2] \in Players /\ sessions \subseteq Session
  BY DEF IInv, HistoryOrder, TypeOK, Visitors
<1>2. \A s \in sessions : SameVisitor(Reconciled(s, obs), s)
  BY <1>1, ReconciledType
<1>3. ASSUME r \in Rows(x)'
      PROVE  \/ r \in Rows(x) /\ ~IsOpen(r)
             \/ \E s \in Rows(x) : IsOpen(s) /\ r = Reconciled(s, obs)
             \/ x[2] \in Newcomers(x[1], obs) /\ r = NewSession(x[1], x[2], obs)
  <2>1. r \in sessions' /\ r.kind = x[1] /\ r.player = x[2]
    BY <1>3 DEF Rows
  <2>2. CASE r \in sessions /\ ~IsOpen(r)
    BY <2>1, <2>2 DEF Rows
  <2>3. CASE \E s \in sessions : IsOpen(s) /\ r = Reconciled(s, obs)
    BY <1>2, <2>1, <2>3 DEF Rows, SameVisitor
  <2>4. CASE \E k \in Kinds : \E p \in Newcomers(k, obs) : r = NewSession(k, p, obs)
    <3>1. PICK k \in Kinds : \E p \in Newcomers(k, obs) : r = NewSession(k, p, obs)
      BY <2>4
    <3>2. PICK p \in Newcomers(k, obs) : r = NewSession(k, p, obs)
      BY <3>1
    <3>3. r.kind = k /\ r.player = p
      BY <3>2 DEF NewSession
    <3> QED BY <2>1, <3>2, <3>3
  <2> QED BY <1>1, <2>1, <2>2, <2>3, <2>4, RowsAfterApply DEF IInv
<1>4. ASSUME r \in Rows(x) /\ ~IsOpen(r) PROVE r \in Rows(x)'
  BY <1>4 DEF Rows, ApplyObservation, ClosedSessions, OpenSessions
<1>5. ASSUME NEW s \in Rows(x), IsOpen(s), r = Reconciled(s, obs) PROVE r \in Rows(x)'
  <2>1. s \in sessions /\ s.kind = x[1] /\ s.player = x[2]
    BY DEF Rows
  <2>2. r \in sessions'
    BY <1>1, <1>5, <2>1, RowsWritten
  <2> QED BY <1>2, <1>5, <2>1, <2>2 DEF Rows, SameVisitor
<1>6. ASSUME x[2] \in Newcomers(x[1], obs) /\ r = NewSession(x[1], x[2], obs)
      PROVE  r \in Rows(x)'
  <2>1. r \in sessions'
    BY <1>1, <1>6, RowsWritten
  <2>2. r.kind = x[1] /\ r.player = x[2]
    BY <1>6 DEF NewSession
  <2> QED BY <2>1, <2>2 DEF Rows
<1> QED BY <1>3, <1>4, <1>5, <1>6

\* A visitor without an open row stays away or arrives.
LEMMA AwayOrArrive ==
  ASSUME IInv, phase = "answered", ApplyObservation(obs), NEW x \in Visitors,
         VisitsAreRows, VisitsAreRows', \A s \in Rows(x) : ~IsOpen(s)
  PROVE  V!Move(x)
<1>1. V!Current(x) = {} /\ MissedPolls[x] = 0
  BY CurrentIsOpen DEF VisitsAreRows
<1>2. /\ OpenedVisits[x] = Begun(Rows(x))
      /\ LeftVisits[x] = EndedAs(Rows(x), "CLOSED_LEFT")
      /\ LostVisits[x] = EndedAs(Rows(x), "CLOSED_DATA_GAP")
  BY DEF VisitsAreRows
<1>3. ASSUME NEW r
      PROVE  r \in Rows(x)' <=>
               \/ r \in Rows(x)
               \/ x[2] \in Newcomers(x[1], obs) /\ r = NewSession(x[1], x[2], obs)
  BY RowsMove
<1>4. CASE x[2] \notin Newcomers(x[1], obs)
  <2>1. Rows(x)' = Rows(x)
    BY <1>3, <1>4
  <2>2. /\ OpenedVisits'[x] = OpenedVisits[x] /\ LeftVisits'[x] = LeftVisits[x]
        /\ LostVisits'[x] = LostVisits[x] /\ MissedPolls'[x] = 0
    BY <1>2, <2>1, NextVisits
  <2> QED BY <1>1, <2>2 DEF V!Move, V!Away
<1>5. CASE x[2] \in Newcomers(x[1], obs)
  <2>1. PICK n : n = NewSession(x[1], x[2], obs)
    OBVIOUS
  <2>2. /\ n.first = obs.at /\ n.status = "ONLINE" /\ IsOpen(n) /\ n.absentPolls = 0
    BY <2>1 DEF NewSession, IsOpen
  <2>3. Rows(x)' = Rows(x) \cup {n}
    BY <1>3, <1>5, <2>1
  <2>4. OpenedVisits'[x] = OpenedVisits[x] \cup {obs.at}
    BY <1>2, <2>2, <2>3, NextVisitsWith
  <2>5. LeftVisits'[x] = LeftVisits[x] /\ LostVisits'[x] = LostVisits[x]
    BY <1>2, <2>2, <2>3, NextVisitsWith
  <2>6. MissedPolls'[x] = 0
    BY <2>2, <2>3, NextVisits
  <2>7. obs.at \in Int /\ \A t \in OpenedVisits[x] : t < obs.at
    BY VisitsBefore
  <2> QED BY <1>1, <2>4, <2>5, <2>6, <2>7 DEF V!Move, V!Arrive, V!Opens
<1> QED BY <1>4, <1>5

\* A visitor with an open row remains, misses the observation, leaves, or gets
\* lost at a gap, after which he may arrive anew.
LEMMA CurrentMoves ==
  ASSUME IInv, phase = "answered", ApplyObservation(obs), NEW x \in Visitors,
         VisitsAreRows, VisitsAreRows', NEW s \in Rows(x), IsOpen(s)
  PROVE  V!Move(x)
<1>1. /\ obs \in Observation /\ s \in Session /\ TimelineHolds(s) /\ s.last < obs.at
      /\ s.first \in Nat /\ obs.at \in Nat /\ s.absentPolls \in Nat
      /\ s.kind = x[1] /\ s.player = x[2] /\ x[1] \in Kinds
  BY RowTimes DEF IInv, HistoryOrder, Rows, Session, Visitors
<1>2. V!Current(x) = {s.first} /\ MissedPolls[x] = s.absentPolls
  BY CurrentIsOpen DEF VisitsAreRows
<1>3. PICK u : u = Reconciled(s, obs)
  OBVIOUS
<1>4. u.first = s.first /\ s.status \notin ClosedStatus
  BY <1>1, <1>3, ReconciledType, OpenRow DEF OpenStatus, ClosedStatus
<1>5. PICK rest : rest = Rows(x) \ {s}
  OBVIOUS
<1>6. Rows(x) = rest \cup {s} /\ \A r \in rest : ~IsOpen(r)
  BY <1>5, OneOpenRow
<1>7. /\ OpenedVisits[x] = Begun(rest) \cup {s.first}
      /\ LeftVisits[x] = EndedAs(rest, "CLOSED_LEFT")
      /\ LostVisits[x] = EndedAs(rest, "CLOSED_DATA_GAP")
  <2>1. /\ OpenedVisits[x] = Begun(Rows(x))
        /\ LeftVisits[x] = EndedAs(Rows(x), "CLOSED_LEFT")
        /\ LostVisits[x] = EndedAs(Rows(x), "CLOSED_DATA_GAP")
    BY DEF VisitsAreRows
  <2>2. /\ Begun(Rows(x)) = Begun(rest) \cup {s.first}
        /\ \A status :
             /\ s.status = status =>
                  EndedAs(Rows(x), status) = EndedAs(rest, status) \cup {s.first}
             /\ s.status # status => EndedAs(Rows(x), status) = EndedAs(rest, status)
    <3>1. PICK all : all = Rows(x)
      OBVIOUS
    <3>2. all = rest \cup {s}
      BY <1>6, <3>1
    <3>3. /\ Begun(all) = Begun(rest) \cup {s.first}
          /\ \A status :
               /\ s.status = status => EndedAs(all, status) = EndedAs(rest, status) \cup {s.first}
               /\ s.status # status => EndedAs(all, status) = EndedAs(rest, status)
      BY <3>2, OneMoreRow
    <3> QED BY <3>1, <3>3
  <2> QED BY <1>4, <2>1, <2>2 DEF ClosedStatus
<1>8. ASSUME NEW r
      PROVE  r \in Rows(x)' <=>
               \/ r \in rest \cup {u}
               \/ x[2] \in Newcomers(x[1], obs) /\ r = NewSession(x[1], x[2], obs)
  BY <1>3, <1>5, <1>6, RowsMove
<1>9. x[2] \in Newcomers(x[1], obs) <=>
        x[2] \in Present(x[1], obs) /\ GapExpired(s, obs.at)
  <2>1. x[2] \in SeenPlayers(x[1], obs) <=> ~GapExpired(s, obs.at)
    <3>1. \A r \in OpenSessions(x[1]) : r.player = x[2] => r = s
      BY OneOpenRow DEF Rows, OpenSessions
    <3>2. s \in OpenSessions(x[1])
      BY DEF Rows, OpenSessions
    <3> QED BY <1>1, <3>1, <3>2 DEF SeenPlayers
  <2>2. GapExpired(s, obs.at) \in BOOLEAN
    BY DEF GapExpired
  <2> QED BY <2>1, <2>2 DEF Newcomers
<1>10. CASE ~GapExpired(s, obs.at)
  <2>1. Rows(x)' = rest \cup {u}
    BY <1>8, <1>9, <1>10
  <2>2. OpenedVisits'[x] = OpenedVisits[x]
    BY <1>7, <1>4, <2>1, NextVisitsWith
  <2>3. IsOpen(u) => MissedPolls'[x] = u.absentPolls
    BY <2>1, NextVisits
  <2>4. ~IsOpen(u) => MissedPolls'[x] = 0
    BY <1>6, <2>1, NextVisits
  <2>5. ASSUME u.status # "CLOSED_DATA_GAP" PROVE LostVisits'[x] = LostVisits[x]
    BY <1>7, <2>1, <2>5, NextVisitsWith
  <2>6. ASSUME u.status # "CLOSED_LEFT" PROVE LeftVisits'[x] = LeftVisits[x]
    BY <1>7, <2>1, <2>6, NextVisitsWith
  <2>7. CASE u = Extend(s, obs)
    <3>1. u.status = "ONLINE" /\ IsOpen(u) /\ u.absentPolls = 0
      BY <1>1, <2>7 DEF Extend, Session, IsOpen, TimelineHolds, NoTime
    <3>2. MissedPolls'[x] = 0
      BY <2>3, <3>1
    <3> QED BY <1>2, <2>2, <2>5, <2>6, <3>1, <3>2 DEF V!Move, V!Remain
  <2>8. CASE Confirmed(s) /\ u = CloseLeft(s, obs)
    <3>1. u.status = "CLOSED_LEFT" /\ u.ended = AbsentSince(s, obs)
      BY <1>1, <2>8 DEF CloseLeft, Session
    <3>2. ~IsOpen(u)
      BY <1>1, <3>1 DEF AbsentSince, IsOpen, NoTime
    <3>3. LeftVisits'[x] = LeftVisits[x] \cup {s.first}
      BY <1>7, <1>4, <2>1, <3>1, NextVisitsWith
    <3>4. MissedPolls[x] + 1 >= AbsentConfirmations
      BY <1>2, <2>8 DEF Confirmed
    <3> QED BY <1>2, <2>2, <2>4, <2>5, <3>1, <3>2, <3>3, <3>4 DEF V!Move, V!Leave, V!Ends
  <2>9. CASE ~Confirmed(s) /\ u = Suspect(s, obs)
    <3>1. u.status = "SUSPECTED_GONE" /\ IsOpen(u) /\ u.absentPolls = s.absentPolls + 1
      BY <1>1, <2>9 DEF Suspect, Session, IsOpen
    <3>2. MissedPolls'[x] = MissedPolls[x] + 1
      BY <1>2, <2>3, <3>1
    <3>3. MissedPolls[x] + 1 < AbsentConfirmations
      BY <1>1, <1>2, <2>9, ConfigAssumption DEF Confirmed
    <3> QED BY <1>2, <2>2, <2>5, <2>6, <3>1, <3>2, <3>3 DEF V!Move, V!Miss
  <2> QED BY <1>3, <1>10, <2>7, <2>8, <2>9, ReconciledCases
<1>11. CASE GapExpired(s, obs.at)
  <2>1. u = CloseAtGap(s)
    BY <1>3, <1>11, ReconciledCases
  <2>2. u.status = "CLOSED_DATA_GAP" /\ ~IsOpen(u)
    BY <1>1, <2>1 DEF CloseAtGap, Session, IsOpen, NoTime, TimelineHolds
  <2>3. CASE x[2] \notin Newcomers(x[1], obs)
    <3>1. Rows(x)' = rest \cup {u}
      BY <1>8, <2>3
    <3>2. OpenedVisits'[x] = OpenedVisits[x]
      BY <1>7, <1>4, <3>1, NextVisitsWith
    <3>3. LeftVisits'[x] = LeftVisits[x] /\ LostVisits'[x] = LostVisits[x] \cup {s.first}
      BY <1>7, <1>4, <2>2, <3>1, NextVisitsWith
    <3>4. MissedPolls'[x] = 0
      BY <1>6, <2>2, <3>1, NextVisits
    <3> QED BY <1>2, <3>2, <3>3, <3>4 DEF V!Move, V!Lose, V!Ends
  <2>4. CASE x[2] \in Newcomers(x[1], obs)
    <3>1. PICK n : n = NewSession(x[1], x[2], obs)
      OBVIOUS
    <3>2. n.first = obs.at /\ n.status = "ONLINE" /\ IsOpen(n) /\ n.absentPolls = 0
      BY <3>1 DEF NewSession, IsOpen
    <3>3. PICK both : both = rest \cup {u}
      OBVIOUS
    <3>4. Rows(x)' = both \cup {n}
      BY <1>8, <2>4, <3>1, <3>3
    <3>5. /\ Begun(both) = Begun(rest) \cup {s.first}
          /\ EndedAs(both, "CLOSED_LEFT") = EndedAs(rest, "CLOSED_LEFT")
          /\ EndedAs(both, "CLOSED_DATA_GAP") =
               EndedAs(rest, "CLOSED_DATA_GAP") \cup {s.first}
      <4>1. /\ Begun(both) = Begun(rest) \cup {u.first}
            /\ \A status :
                 /\ u.status = status =>
                      EndedAs(both, status) = EndedAs(rest, status) \cup {u.first}
                 /\ u.status # status => EndedAs(both, status) = EndedAs(rest, status)
        BY <3>3, OneMoreRow
      <4> QED BY <1>4, <2>2, <4>1
    <3>6. OpenedVisits'[x] = OpenedVisits[x] \cup {obs.at}
      BY <1>7, <3>2, <3>4, <3>5, NextVisitsWith
    <3>7. LeftVisits'[x] = LeftVisits[x] /\ LostVisits'[x] = LostVisits[x] \cup {s.first}
      BY <1>7, <3>2, <3>4, <3>5, NextVisitsWith
    <3>8. MissedPolls'[x] = 0
      BY <3>2, <3>4, NextVisits
    <3>9. obs.at \in Int /\ \A t \in OpenedVisits[x] : t < obs.at
      BY VisitsBefore
    <3> QED BY <1>2, <3>6, <3>7, <3>8, <3>9 DEF V!Move, V!Lose, V!Opens
  <2> QED BY <2>3, <2>4
<1> QED BY <1>10, <1>11

\* Outbox and tables implement the visits: whatever polls are lost, rolled back,
\* left unacknowledged or repeated after a restart, every visitor only makes
\* the moves of Visits.
THEOREM PresenceImplementsVisits == Spec => ImplementsVisits
<1>1. Init => V!Init
  BY DEF Init, V!Init, OpenedVisits, LeftVisits, LostVisits, MissedPolls, OpenSessions
<1>2. IInv /\ VisitsAreRows /\ VisitsAreRows' /\ [Next]_vars => [V!Next]_V!vars
  <2> SUFFICES ASSUME IInv, VisitsAreRows, VisitsAreRows', [Next]_vars
               PROVE  [V!Next]_V!vars
    OBVIOUS
  <2>1. CASE UNCHANGED <<sessions, events, observed>>
    <3>1. OpenedVisits' = OpenedVisits /\ LeftVisits' = LeftVisits
      BY <2>1 DEF OpenedVisits, LeftVisits
    <3>2. LostVisits' = LostVisits /\ MissedPolls' = MissedPolls
      BY <2>1 DEF LostVisits, MissedPolls, OpenSessions, IsOpen
    <3> QED BY <3>1, <3>2 DEF V!vars
  <2>2. CASE phase = "answered" /\ ApplyObservation(obs)
    <3>1. \A x \in Visitors : V!Move(x)
      BY <2>2, AwayOrArrive, CurrentMoves
    <3> QED BY <3>1 DEF V!Next, Visitors
  <2> QED BY <2>1, <2>2, TableSteps
<1>3. IInv /\ OutboxInv => VisitsAreRows
  BY OutboxTellsRows
<1> QED BY <1>1, <1>2, <1>3, Invariance, OutboxInvariance, PTL DEF Spec, ImplementsVisits, V!Spec

-----------------------------------------------------------------------------
(* A server that leaves tracking and comes back *)

\* Every step of Untracking is one of Presence or changes the list only.
LEMMA TrackedSteps ==
  ASSUME [UNext]_uvars
  PROVE  /\ [Next]_vars
         /\ \/ UNCHANGED trackingVars
            \/ UNCHANGED vars /\ tracked /\ ~tracked' /\ before' = observed
            \/ UNCHANGED vars /\ tracked'
BY DEF UNext, uvars, trackingVars, PollTracked, Untrack, Track, Answer, Apply, Record, Next

\* The composition implements Presence: whatever is proved of a server that is
\* polled for ever holds of one that is dropped and taken back at any moment.
THEOREM UntrackingImplementsPresence == USpec => Spec
<1>1. UInit => Init
  BY DEF UInit
<1>2. [UNext]_uvars => [Next]_vars
  BY TrackedSteps
<1> QED BY <1>1, <1>2, PTL DEF USpec, Spec

\* A server off the list is asked only by the round that had read the list
\* before, and that round has not answered since.
DropInv ==
  /\ ~tracked /\ phase \in {"asked", "answered"} => observed \subseteq before
  /\ OneAnswerAfterDrop

\* Steps that start no poll and commit nothing.
LEMMA QuietKeepsDropInv ==
  ASSUME DropInv, UNCHANGED <<observed, tracked, before>>,
         phase' \in {"idle", "applied"} \/ phase' = phase \/ phase = "asked"
  PROVE  DropInv'
BY DEF DropInv, OneAnswerAfterDrop

LEMMA NextDropInv ==
  ASSUME DropInv, [UNext]_uvars
  PROVE  DropInv'
<1>1. CASE PollTracked
  BY <1>1 DEF PollTracked, StartPoll, trackingVars, dbVars, DropInv, OneAnswerAfterDrop
<1>2. CASE Untrack \/ Track
  BY <1>2 DEF Untrack, Track, vars, DropInv, OneAnswerAfterDrop
<1>3. CASE (ApplyCommits \/ CommitUnacknowledged) /\ UNCHANGED trackingVars
  <2>1. /\ phase = "answered" /\ observed' = observed \cup {obs}
        /\ phase' \in {"idle", "applied"} /\ tracked' = tracked /\ before' = before
    BY <1>3 DEF ApplyCommits, CommitUnacknowledged, ApplyObservation, trackingVars
  <2>2. ~tracked => \A x \in observed' \ before' : x = obs
    BY <2>1 DEF DropInv
  <2> QED BY <2>1, <2>2 DEF DropInv, OneAnswerAfterDrop
<1>4. CASE /\ Tick \/ Answer \/ ApplyRollsBack \/ Record \/ Restart
           /\ UNCHANGED trackingVars
  BY <1>4, QuietKeepsDropInv
     DEF Tick, Answer, ListPlayersAnswers, PollFails, ApplyRollsBack, Record, RecordSuccess,
         RecordFails, Restart, trackingVars, dbVars, pollVars
<1>5. CASE UNCHANGED uvars
  BY <1>5, QuietKeepsDropInv DEF uvars, vars, trackingVars
<1> QED BY <1>1, <1>2, <1>3, <1>4, <1>5 DEF UNext, Apply

\* However the process crashes and the rules change, a server that was dropped
\* is answered for at most once more.
THEOREM DroppedServersAnswerOnce == USpec => []OneAnswerAfterDrop
<1>1. UInit => DropInv
  BY DEF UInit, Init, DropInv, OneAnswerAfterDrop
<1>2. DropInv /\ [UNext]_uvars => DropInv'
  BY NextDropInv
<1>3. DropInv => OneAnswerAfterDrop
  BY DEF DropInv
<1> QED BY <1>1, <1>2, <1>3, PTL DEF USpec

=============================================================================
