------------------------------ MODULE Presence ------------------------------
(***************************************************************************)
(* The diff engine of internal/presence as one tracked server sees it: a   *)
(* poll of the server is asked, answered or lost, the answer is applied to *)
(* the session tables and the event outbox in one transaction, and the     *)
(* SUCCESS row of poll_run is written afterwards, by a statement of its    *)
(* own.  The process may crash between any two of these steps.             *)
(*                                                                         *)
(* tracking.PollAll waits for every poll of a round before it starts the   *)
(* next one, so at most one poll of a server is in flight and one record   *)
(* describes it.  Polls of other servers touch other rows of the session   *)
(* tables; what they share (player_identity, domain_event ids) is the      *)
(* subject of the modules PlayerIdentity and EventFeed.                    *)
(***************************************************************************)
EXTENDS Integers, FiniteSets

CONSTANTS
  Players,              \* players the Bohemia API may report
  AbsentConfirmations,  \* Config.AbsentConfirmations: absences that prove a departure
  MaxGap,               \* Config.MaxGap, in units of the clock
  MaxTime               \* bound of the clock, for model checking only

ASSUME PlayersAssumption == IsFiniteSet(Players)
ASSUME ConfigAssumption ==
  /\ AbsentConfirmations \in Nat \ {0}
  /\ MaxGap \in Nat \ {0}
  /\ MaxTime \in Nat

VARIABLES
  now,       \* the wall clock
  sessions,  \* rows of player_server_session and player_queue_session
  events,    \* rows of domain_event
  lastOK,    \* newest finished_at among the SUCCESS LIST_PLAYERS rows of poll_run
  replayed,  \* Tracker.replayed of this server: lost with the process
  phase,     \* where the poll of this server is
  obs,       \* the answer the poll holds in phase "answered"
  observed   \* history: every observation whose transaction committed

vars == <<now, sessions, events, lastOK, replayed, phase, obs, observed>>
pollVars == <<replayed, phase, obs>>
dbVars == <<sessions, events, lastOK, observed>>

-----------------------------------------------------------------------------
(* Types *)

NoTime == -1              \* a NULL timestamp
Time == Nat
Kinds == {"presence", "queue"}
OpenStatus == {"ONLINE", "SUSPECTED_GONE"}
ClosedStatus == {"CLOSED_LEFT", "CLOSED_DATA_GAP"}
QueueResults == {"JOINED_SERVER", "LEFT_QUEUE", "UNKNOWN"}

Session ==
  [kind: Kinds, player: Players, first: Time, last: Time,
   absentAt: Time \cup {NoTime}, ended: Time \cup {NoTime},
   status: OpenStatus \cup ClosedStatus, absentPolls: Nat,
   replay: BOOLEAN, result: QueueResults \cup {"NULL"}]

\* The place in the queue a PLAYER_ENTERED_QUEUE payload announces.
Place == [min: Int, max: Int, size: Int]
NoPlace == [min |-> 0, max |-> 0, size |-> 0]

\* `session` is the first_seen_at of the row session_id points to: with the
\* kind and the player it names one row, see SessionsDisjoint.
Event ==
  [type: {"OPENED", "LEFT"}, kind: Kinds, player: Players, session: Time,
   at: Time, by: Time, replay: BOOLEAN, afterGap: BOOLEAN, place: Place]

Observation == [at: Time, connected: SUBSET Players, queue: SUBSET Players]
NoObservation == [at |-> NoTime, connected |-> {}, queue |-> {}]

TypeOK ==
  /\ now \in Time
  /\ sessions \subseteq Session
  /\ events \subseteq Event
  /\ lastOK \in Time \cup {NoTime}
  /\ replayed \in BOOLEAN
  /\ phase \in {"idle", "asked", "answered", "applied"}
  /\ obs \in Observation \cup {NoObservation}
  /\ observed \subseteq Observation

Init ==
  /\ now = 0
  /\ sessions = {}
  /\ events = {}
  /\ lastOK = NoTime
  /\ replayed = FALSE
  /\ phase = "idle"
  /\ obs = NoObservation
  /\ observed = {}

-----------------------------------------------------------------------------
(* One observation against the tables: Service.apply and Service.reconcile *)

Present(k, o) == IF k = "presence" THEN o.connected ELSE o.queue

IsOpen(s) == s.ended = NoTime
\* Faulty variant: the query tells open rows by their status and forgets one.
OpenSessionsByStatus(k) ==
  {s \in sessions : s.kind = k /\ s.status # "CLOSED_DATA_GAP"}

OpenSessions(k) == {s \in sessions : s.kind = k /\ IsOpen(s)}

\* The observation comes too late to say anything about this session.
GapExpired(s, t) == t - s.last > MaxGap

\* Faulty variant: a process that has just started knows of no earlier poll.
AfterDataGapOfProcess(t) == replayed /\ lastOK # NoTime /\ t - lastOK > MaxGap

AfterDataGap(t) == lastOK # NoTime /\ t - lastOK > MaxGap

\* Faulty variant: two columns swapped.
QueueOutcomeOfStatus(s, o) == IF s.player \in o.connected THEN s.status ELSE "LEFT_QUEUE"

\* Faulty variant: the open sessions of the server stand for the list of the poll.
QueueOutcomeOfTables(s, o) ==
  IF \E u \in OpenSessions("presence") : u.player = s.player
  THEN "JOINED_SERVER" ELSE "LEFT_QUEUE"

\* queueOps.onClose looks at the connected list of the closing poll alone.
QueueOutcome(s, o) ==
  IF s.player \in o.connected THEN "JOINED_SERVER" ELSE "LEFT_QUEUE"

CloseAtGap(s) ==
  [s EXCEPT !.status = "CLOSED_DATA_GAP", !.ended = s.last,
            !.result = IF s.kind = "queue" THEN "UNKNOWN" ELSE "NULL"]

\* Faulty variant: the counter of absences survives a return.
ExtendKeepingAbsences(s, o) ==
  [s EXCEPT !.status = "ONLINE", !.last = o.at, !.absentAt = NoTime]

Extend(s, o) ==
  [s EXCEPT !.status = "ONLINE", !.last = o.at, !.absentPolls = 0,
            !.absentAt = NoTime]

AbsentSince(s, o) == IF s.absentAt = NoTime THEN o.at ELSE s.absentAt

Confirmed(s) == s.absentPolls + 1 >= AbsentConfirmations

Suspect(s, o) ==
  [s EXCEPT !.status = "SUSPECTED_GONE", !.absentPolls = s.absentPolls + 1,
            !.absentAt = AbsentSince(s, o)]

CloseLeft(s, o) ==
  [s EXCEPT !.status = "CLOSED_LEFT", !.absentPolls = s.absentPolls + 1,
            !.absentAt = AbsentSince(s, o), !.ended = AbsentSince(s, o),
            !.result = IF s.kind = "queue" THEN QueueOutcome(s, o) ELSE "NULL"]

Extends(s, o) == ~GapExpired(s, o.at) /\ s.player \in Present(s.kind, o)

\* Faulty variant: an overdue session is announced as a departure too.
LeavesOrExpires(s, o) ==
  s.player \notin Present(s.kind, o) /\ (GapExpired(s, o.at) \/ Confirmed(s))

Leaves(s, o) ==
  ~GapExpired(s, o.at) /\ s.player \notin Present(s.kind, o) /\ Confirmed(s)

Reconciled(s, o) ==
  CASE GapExpired(s, o.at) -> CloseAtGap(s)
    [] Extends(s, o)       -> Extend(s, o)
    [] Leaves(s, o)        -> CloseLeft(s, o)
    [] OTHER               -> Suspect(s, o)

\* Faulty variant: no delete(seen, ...) after a close at the gap.
SeenWithoutDelete(k, o) == {s.player : s \in OpenSessions(k)}

\* Faulty variant: only players who are online count as seen.
SeenOnline(k, o) ==
  {s.player : s \in {x \in OpenSessions(k) : ~GapExpired(x, o.at) /\ x.status = "ONLINE"}}

\* `seen` of reconcile: the players whose open session survived or was left;
\* a session closed by the gap does not count, its player gets a new one.
SeenPlayers(k, o) ==
  {s.player : s \in {x \in OpenSessions(k) : ~GapExpired(x, o.at)}}

Newcomers(k, o) == Present(k, o) \ SeenPlayers(k, o)

NewSession(k, p, o) ==
  [kind |-> k, player |-> p, first |-> o.at, last |-> o.at,
   absentAt |-> NoTime, ended |-> NoTime, status |-> "ONLINE",
   absentPolls |-> 0, replay |-> k = "presence" /\ ~replayed,
   result |-> "NULL"]

-----------------------------------------------------------------------------
(* The events of the same transaction *)

\* Faulty variant: sessions the gap closes are counted as kept.
KeptAcrossGap(k, o) ==
  Cardinality({s \in OpenSessions(k) : s.player \in Present(k, o)})

Kept(k, o) == Cardinality({s \in OpenSessions(k) : Extends(s, o)})
Arrived(k, o) == Cardinality(Present(k, o)) - Kept(k, o)

OpenedPlace(k, o) ==
  IF k = "queue"
  THEN [min |-> Kept(k, o) + 1, max |-> Kept(k, o) + Arrived(k, o),
        size |-> Cardinality(Present(k, o))]
  ELSE NoPlace

OpenedEvent(k, p, o) ==
  [type |-> "OPENED", kind |-> k, player |-> p, session |-> o.at,
   at |-> o.at, by |-> o.at, replay |-> ~replayed,
   afterGap |-> AfterDataGap(o.at), place |-> OpenedPlace(k, o)]

LeftEvent(s, o) ==
  [type |-> "LEFT", kind |-> s.kind, player |-> s.player,
   session |-> s.first, at |-> AbsentSince(s, o), by |-> o.at,
   replay |-> FALSE, afterGap |-> FALSE, place |-> NoPlace]

ReconciledRows(k, o) ==
  {Reconciled(s, o) : s \in OpenSessions(k)}
    \cup {NewSession(k, p, o) : p \in Newcomers(k, o)}

ReconcileEvents(k, o) ==
  {LeftEvent(s, o) : s \in {x \in OpenSessions(k) : Leaves(x, o)}}
    \cup {OpenedEvent(k, p, o) : p \in Newcomers(k, o)}

\* The rows the transaction does not select, and so does not update.
ClosedSessions == {s \in sessions : \A k \in Kinds : s \notin OpenSessions(k)}

\* Everything Service.Apply commits: both tables, then the outbox.
ApplyObservation(o) ==
  /\ sessions' = ClosedSessions
                   \cup ReconciledRows("presence", o)
                   \cup ReconciledRows("queue", o)
  /\ events' = events \cup ReconcileEvents("presence", o)
                      \cup ReconcileEvents("queue", o)
  /\ observed' = observed \cup {o}

-----------------------------------------------------------------------------
(* The poll: Tracker.pollServer *)

Tick ==
  /\ now < MaxTime
  /\ now' = now + 1
  /\ UNCHANGED <<dbVars, pollVars>>

StartPoll ==
  /\ phase = "idle"
  /\ phase' = "asked"
  /\ UNCHANGED <<now, dbVars, replayed, obs>>

\* listPlayers answered.  Polls of one server follow each other, so every
\* answer is later than the ones applied before.
ListPlayersAnswers ==
  /\ phase = "asked"
  /\ \A o \in observed : o.at < now
  /\ \E connected, queue \in SUBSET Players :
       obs' = [at |-> now, connected |-> connected, queue |-> queue]
  /\ phase' = "answered"
  /\ UNCHANGED <<now, dbVars, replayed>>

\* No token, no room, an error of the API: the poll ends, nothing is applied.
PollFails ==
  /\ phase = "asked"
  /\ phase' = "idle"
  /\ UNCHANGED <<now, dbVars, replayed, obs>>

ApplyCommits ==
  /\ phase = "answered"
  /\ ApplyObservation(obs)
  /\ replayed' = TRUE
  /\ phase' = "applied"
  /\ obs' = NoObservation
  /\ UNCHANGED <<now, lastOK>>

\* The transaction was rolled back: the observation is lost.
ApplyRollsBack ==
  /\ phase = "answered"
  /\ phase' = "idle"
  /\ obs' = NoObservation
  /\ UNCHANGED <<now, dbVars, replayed>>

\* The commit took effect but its acknowledgement did not arrive: Apply
\* returns an error, the server is not marked replayed, no SUCCESS is recorded.
CommitUnacknowledged ==
  /\ phase = "answered"
  /\ ApplyObservation(obs)
  /\ phase' = "idle"
  /\ obs' = NoObservation
  /\ UNCHANGED <<now, lastOK, replayed>>

RecordSuccess ==
  /\ phase = "applied"
  /\ lastOK' = now
  /\ phase' = "idle"
  /\ UNCHANGED <<now, sessions, events, observed, replayed, obs>>

\* The insert into poll_run failed: the error is logged and dropped.
RecordFails ==
  /\ phase = "applied"
  /\ phase' = "idle"
  /\ UNCHANGED <<now, dbVars, replayed, obs>>

\* The process dies and starts again; the database keeps what was committed.
Restart ==
  /\ replayed' = FALSE
  /\ phase' = "idle"
  /\ obs' = NoObservation
  /\ UNCHANGED <<now, dbVars>>

Next ==
  \/ Tick
  \/ StartPoll
  \/ ListPlayersAnswers
  \/ PollFails
  \/ ApplyCommits
  \/ ApplyRollsBack
  \/ CommitUnacknowledged
  \/ RecordSuccess
  \/ RecordFails
  \/ Restart

Spec == Init /\ [][Next]_vars

-----------------------------------------------------------------------------
(* Safety *)

SameVisitor(s, u) == s.kind = u.kind /\ s.player = u.player

\* The sessions of one player in one table never overlap: of two different
\* rows the one that began first is closed, and it was last extended before
\* the other began.  No unique index backs this: it rests on the
\* bookkeeping of `seen` in reconcile and on polls of a server not overlapping.
SessionsDisjoint ==
  \A s, u \in sessions :
    SameVisitor(s, u) /\ s # u =>
      \/ ~IsOpen(s) /\ s.last < u.first /\ s.ended <= u.first
      \/ ~IsOpen(u) /\ u.last < s.first /\ u.ended <= s.first

TimelineHolds(s) ==
  /\ s.first <= s.last
  /\ s.absentAt # NoTime => s.last < s.absentAt
  /\ s.absentAt = NoTime <=> s.absentPolls = 0
  /\ s.status = "ONLINE" => IsOpen(s) /\ s.absentPolls = 0
  /\ s.status = "SUSPECTED_GONE" =>
       IsOpen(s) /\ s.absentPolls \in 1 .. AbsentConfirmations - 1
  /\ s.status = "CLOSED_LEFT" =>
       s.ended = s.absentAt /\ s.absentPolls = AbsentConfirmations
  /\ s.status = "CLOSED_DATA_GAP" =>
       s.ended = s.last /\ s.absentPolls < AbsentConfirmations

\* What the session claims about itself hangs together: the interval of
\* uncertainty (last_seen_at, first_known_absent_at] is in order, and the
\* status says which end the row has.
SessionTimeline == \A s \in sessions : TimelineHolds(s)

\* The observations that were counted as absences of a session: the earliest
\* absent_polls of those committed after it was last extended.
Missed(s) ==
  {o \in observed :
     /\ o.at > s.last
     /\ Cardinality({x \in observed : s.last < x.at /\ x.at <= o.at})
          <= s.absentPolls}

\* ``We stopped getting data'' is never taken for ``the player left'': every
\* absence a session counts is a committed observation without the player,
\* they follow its last sighting without interruption, the first of them is
\* first_known_absent_at, and an open session has missed none.
AbsencesAreObserved ==
  \A s \in sessions :
    /\ Cardinality(Missed(s)) = s.absentPolls
    /\ \A o \in Missed(s) : s.player \notin Present(s.kind, o)
    /\ Missed(s) # {} =>
         /\ \E o \in Missed(s) : o.at = s.absentAt
         /\ \A o \in Missed(s) : o.at >= s.absentAt
    /\ IsOpen(s) => Missed(s) = {o \in observed : o.at > s.last}

\* No sighting is lost or counted twice: each player of each committed
\* observation falls into exactly one session of that table, and a session
\* begins and was last extended at an observation that saw its player.
SightingsAreCovered ==
  /\ \A o \in observed, k \in Kinds : \A p \in Present(k, o) :
       Cardinality({s \in sessions : s.kind = k /\ s.player = p
                                      /\ s.first <= o.at /\ o.at <= s.last}) = 1
  /\ \A s \in sessions, t \in {"first", "last"} :
       \E o \in observed : o.at = s[t] /\ s.player \in Present(s.kind, o)

EventsOf(s, type) ==
  {e \in events : e.type = type /\ SameVisitor(e, s) /\ e.session = s.first}

\* The outbox tells the tables' story exactly once: one opening per session,
\* one departure, dated first_known_absent_at, per session that closed as
\* CLOSED_LEFT and none for the others, and no event without its session.
OutboxMatchesSessions ==
  /\ \A s \in sessions :
       /\ Cardinality(EventsOf(s, "OPENED")) = 1
       /\ Cardinality(EventsOf(s, "LEFT")) = IF s.status = "CLOSED_LEFT" THEN 1 ELSE 0
       /\ \A e \in EventsOf(s, "LEFT") : e.at = s.ended
  /\ \A e \in events :
       \E s \in sessions : SameVisitor(s, e) /\ s.first = e.session

\* Those of the queue of o that a session has held in it since before o.
InFront(o) ==
  {p \in o.queue : \E s \in sessions : /\ s.kind = "queue" /\ s.player = p
                                      /\ s.first < o.at /\ o.at <= s.last}

\* The place announced to a player entering the queue: the players in front
\* are those that the observation found in the queue and the tables hold there
\* since an earlier one, and the range ends at the size of the queue.
PlaceCountsEarlierArrivals ==
  \A e \in events, o \in observed :
    e.type = "OPENED" /\ e.kind = "queue" /\ e.at = o.at =>
      /\ e.place.min = Cardinality(InFront(o)) + 1
      /\ e.place.min <= e.place.max
      /\ e.place.max = Cardinality(o.queue)
      /\ e.place.size = Cardinality(o.queue)

\* The result of a queue session is the word of the poll that confirmed its
\* end: the last of the absences it counts saw the player connected if the
\* result is JOINED_SERVER and did not if it is LEFT_QUEUE, and who joined has
\* a session on the server that covers that poll.
QueueResultIsOfLastAbsence ==
  \A s \in sessions :
    s.kind = "queue" /\ s.status = "CLOSED_LEFT" =>
      \E o \in Missed(s) :
        /\ \A x \in Missed(s) : x.at <= o.at
        /\ s.result = IF s.player \in o.connected THEN "JOINED_SERVER" ELSE "LEFT_QUEUE"
        /\ s.result = "JOINED_SERVER" =>
             \E u \in sessions : /\ u.kind = "presence" /\ u.player = s.player
                                /\ u.first <= o.at /\ o.at <= u.last

-----------------------------------------------------------------------------
(* Action properties *)

\* A closed session is final, and an open one only moves forward: no step
\* drops a row, reopens it, rewrites its end or its beginning, or takes back
\* a sighting.
ClosedIsFinal ==
  [][\A s \in sessions : \E u \in sessions' :
       /\ SameVisitor(s, u) /\ s.first = u.first /\ s.last <= u.last
       /\ ~IsOpen(s) => u = s]_vars

\* Whom the newest committed observation saw is announced again only as
\* coming after a data gap: his session is extended, or so much time has
\* passed that the event says so, also in a process that has just started.
\* poll_run must know of a success and of none dated after that observation.
SeenRejoinIsFlagged ==
  [][\A e \in events' \ events, o \in observed :
       /\ lastOK # NoTime /\ lastOK <= o.at
       /\ \A x \in observed : x.at <= o.at
       /\ e.type = "OPENED" /\ e.player \in Present(e.kind, o)
       => e.afterGap]_vars

-----------------------------------------------------------------------------
(* What the documentation says and the code does not do *)

\* ADR 0005: a player who comes back after CLOSED_DATA_GAP gets a new session
\* whose PLAYER_JOINED_SERVER is marked after_data_gap.  Stated for the
\* observation that closes the old session and opens the new one, and only
\* while poll_run is exact, its newest success dated as the newest committed
\* observation: the session measures the gap from its own last_seen_at, the
\* mark from the last successful poll, which may have missed the player.
GapRejoinIsFlagged ==
  [][\A s \in sessions, u \in sessions', e \in events' \ events :
       /\ \E o \in observed : o.at = lastOK /\ \A x \in observed : x.at <= o.at
       /\ IsOpen(s) /\ u.status = "CLOSED_DATA_GAP"
       /\ SameVisitor(s, u) /\ s.first = u.first
       /\ e.type = "OPENED" /\ SameVisitor(s, e)
       => e.afterGap]_vars

\* ADR 0005: the result is JOINED_SERVER when the player vanished from the
\* queue and appeared among the connected, with no data gap between the two.
QueueJoinIsRecognised ==
  \A s \in sessions :
    /\ s.kind = "queue" /\ s.status = "CLOSED_LEFT"
    /\ \E o \in Missed(s) : s.player \in o.connected
    => s.result = "JOINED_SERVER"

=============================================================================
