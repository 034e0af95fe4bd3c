----------------------------- MODULE EventFeed -----------------------------
(***************************************************************************)
(* The event outbox and its feed: the transactions of Service.Apply append *)
(* rows to domain_event, GET /events pages through them by a cursor, and   *)
(* the consumer (the bot of docs/bot.md, a project of its own) notifies    *)
(* its subscribers and then saves the cursor.                              *)
(*                                                                         *)
(* The id of a row is taken from a sequence when the row is inserted, not  *)
(* when its transaction commits, and the polls of a round run their        *)
(* transactions side by side: ids may become visible out of order.         *)
(***************************************************************************)
EXTENDS Integers, FiniteSets

CONSTANTS
  Servers,     \* servers polled side by side, one transaction each
  Players,     \* players events are about
  Limit,       \* rows of a page
  MaxEvents,   \* bound of the sequence, for model checking only
  MaxCrashes   \* how often the consumer dies, for model checking only

ASSUME FeedAssumption ==
  /\ Limit \in Nat \ {0}
  /\ MaxEvents \in Nat
  /\ MaxCrashes \in Nat
  /\ IsFiniteSet(Players)

VARIABLES
  seq,        \* the sequence of domain_event.id
  pending,    \* rows the open transaction of each server has inserted
  table,      \* rows of domain_event that other connections see
  cursor,     \* the cursor the consumer has saved
  subs,       \* players somebody subscribed to
  page,       \* rows of the response in hand that are still to be handled
  next,       \* next_after of the response in hand
  phase,      \* "idle" or "sending"
  crashes,    \* crashes of the consumer so far
  sent,       \* history: how often each event was notified
  committed,  \* history: every row that was ever visible
  owed,       \* history: visible rows a subscriber has a claim to
  overtaken,  \* history: rows that became visible after a higher id had
  start       \* history: the head the consumer began at

feedVars == <<seq, pending, table>>
botVars == <<cursor, page, next, phase, crashes, sent>>
vars == <<seq, pending, table, cursor, subs, page, next, phase, crashes, sent,
          committed, owed, overtaken, start>>

-----------------------------------------------------------------------------
Ids == 1 .. MaxEvents
None == -1  \* no cursor saved yet

Event == [id: Ids, player: Players, replay: BOOLEAN]

TypeOK ==
  /\ seq \in 0 .. MaxEvents
  /\ pending \in [Servers -> SUBSET Event]
  /\ table \subseteq Event
  /\ cursor \in 0 .. MaxEvents \cup {None}
  /\ subs \subseteq Players
  /\ page \subseteq Event
  /\ next \in 0 .. MaxEvents
  /\ phase \in {"idle", "sending"}
  /\ crashes \in 0 .. MaxCrashes
  /\ sent \in [Ids -> Nat]
  /\ committed \subseteq Event
  /\ owed \subseteq committed
  /\ overtaken \subseteq committed
  /\ start \in 0 .. MaxEvents \cup {None}

Init ==
  /\ seq = 0
  /\ pending = [s \in Servers |-> {}]
  /\ table = {}
  /\ cursor = None
  /\ subs \in SUBSET Players
  /\ page = {}
  /\ next = 0
  /\ phase = "idle"
  /\ crashes = 0
  /\ sent = [i \in Ids |-> 0]
  /\ committed = {}
  /\ owed = {}
  /\ overtaken = {}
  /\ start = None

-----------------------------------------------------------------------------
(* The observer's transactions *)

\* presenceTx.AppendEvent: the row takes the next id of the sequence at once.
AppendEvent(s) ==
  /\ seq < MaxEvents
  /\ seq' = seq + 1
  /\ \E p \in Players, r \in BOOLEAN :
       pending' = [pending EXCEPT ![s] = @ \cup {[id |-> seq + 1, player |-> p, replay |-> r]}]
  /\ UNCHANGED <<table, subs, botVars, committed, owed, overtaken, start>>

\* An event is owed when it becomes visible for a player somebody follows;
\* startup replays are not news, nor is what precedes the consumer's start.
Commit(s) ==
  /\ pending[s] # {}
  /\ table' = table \cup pending[s]
  /\ pending' = [pending EXCEPT ![s] = {}]
  /\ committed' = committed \cup pending[s]
  /\ owed' = owed \cup {e \in pending[s] : e.player \in subs /\ ~e.replay /\ cursor # None}
  /\ overtaken' = overtaken \cup {e \in pending[s] : \E d \in committed : d.id > e.id}
  /\ UNCHANGED <<seq, subs, botVars, start>>

\* The ids of a transaction that is rolled back are never used again.
Rollback(s) ==
  /\ pending[s] # {}
  /\ pending' = [pending EXCEPT ![s] = {}]
  /\ UNCHANGED <<seq, table, subs, botVars, committed, owed, overtaken, start>>

\* The retention pass removes a row that outlived EVENT_RETENTION.
Expire ==
  /\ \E e \in table : /\ table' = table \ {e}
                      /\ owed' = owed \ {e}
  /\ UNCHANGED <<seq, pending, subs, botVars, committed, overtaken, start>>

-----------------------------------------------------------------------------
(* The feed: APIRepo.Events, APIRepo.EventsHead and their handlers *)

\* COALESCE(max(id), 0) of the rows the query sees.
IsHead(n) ==
  IF table = {} THEN n = 0
  ELSE \E e \in table : n = e.id /\ \A d \in table : d.id <= n

\* The consumer leaves player_ids out when nobody subscribed to anything.
Wanted(e) == subs = {} \/ e.player \in subs

\* Faulty variant: startup replays are not filtered.
MatchingReplays(after) == {e \in table : e.id > after /\ Wanted(e)}

\* The WHERE of the query; include_replay is off unless it is asked for.
Matching(after) == {e \in table : e.id > after /\ Wanted(e) /\ ~e.replay}

\* Faulty variant: any rows, the ORDER BY is forgotten.
AnyOf(rows) ==
  {e \in rows : Cardinality({d \in rows : d.id >= e.id}) <= Limit}

\* ORDER BY e.id LIMIT: the rows with fewer than Limit rows before them.
FirstOf(rows) ==
  {e \in rows : Cardinality({d \in rows : d.id <= e.id}) <= Limit}

\* next_after: the id of the last row, or `after` as it came.
IsNextAfter(rows, after, n) ==
  IF rows = {} THEN n = after
  ELSE \E e \in rows : n = e.id /\ \A d \in rows : d.id <= n

-----------------------------------------------------------------------------
(* The consumer, as docs/bot.md lays it out *)

\* GET /events/head, once.
TakeHead ==
  /\ cursor = None
  /\ \E n \in 0 .. MaxEvents : IsHead(n) /\ cursor' = n /\ start' = n
  /\ UNCHANGED <<feedVars, subs, page, next, phase, crashes, sent, committed, owed, overtaken>>

\* GET /events?after=cursor&player_ids=subs.
Fetch ==
  /\ phase = "idle"
  /\ cursor # None
  /\ page' = FirstOf(Matching(cursor))
  /\ \E n \in 0 .. MaxEvents : IsNextAfter(page', cursor, n) /\ next' = n
  /\ phase' = "sending"
  /\ UNCHANGED <<feedVars, cursor, subs, crashes, sent, committed, owed, overtaken, start>>

\* One event of the page goes to the subscribers its player has by now.
Send ==
  /\ phase = "sending"
  /\ \E e \in page :
       /\ \A d \in page : e.id <= d.id
       /\ page' = page \ {e}
       /\ sent' = IF e.player \in subs THEN [sent EXCEPT ![e.id] = @ + 1] ELSE sent
  /\ UNCHANGED <<feedVars, cursor, subs, next, phase, crashes, committed, owed, overtaken,
                 start>>

\* Faulty variant: the cursor is saved past the last event.
SaveCursorInclusive ==
  /\ phase = "sending"
  /\ page = {}
  /\ cursor' = next + 1
  /\ next' = 0
  /\ phase' = "idle"
  /\ UNCHANGED <<feedVars, subs, page, crashes, sent, committed, owed, overtaken, start>>

\* Faulty variant: the cursor is saved before the page has been handled.
SaveCursorEarly ==
  /\ phase = "sending"
  /\ cursor' = next
  /\ next' = IF page = {} THEN 0 ELSE next
  /\ phase' = IF page = {} THEN "idle" ELSE phase
  /\ UNCHANGED <<feedVars, subs, page, crashes, sent, committed, owed, overtaken, start>>

\* The cursor is saved when the whole page has been handled.
SaveCursor ==
  /\ phase = "sending"
  /\ page = {}
  /\ cursor' = next
  /\ next' = 0
  /\ phase' = "idle"
  /\ UNCHANGED <<feedVars, subs, page, crashes, sent, committed, owed, overtaken, start>>

\* The consumer dies with the page; its cursor and subscriptions are stored.
CrashConsumer ==
  /\ phase = "sending"
  /\ crashes < MaxCrashes
  /\ crashes' = crashes + 1
  /\ phase' = "idle"
  /\ page' = {}
  /\ next' = 0
  /\ UNCHANGED <<feedVars, cursor, subs, sent, committed, owed, overtaken, start>>

Subscribe(p) ==
  /\ p \notin subs
  /\ subs' = subs \cup {p}
  /\ UNCHANGED <<feedVars, botVars, committed, owed, overtaken, start>>

Unsubscribe(p) ==
  /\ p \in subs
  /\ subs' = subs \ {p}
  /\ owed' = {e \in owed : e.player # p}
  /\ UNCHANGED <<feedVars, botVars, committed, overtaken, start>>

Next ==
  \/ \E s \in Servers : AppendEvent(s) \/ Commit(s) \/ Rollback(s)
  \/ Expire
  \/ TakeHead
  \/ Fetch
  \/ Send
  \/ SaveCursor
  \/ CrashConsumer
  \/ \E p \in Players : Subscribe(p) \/ Unsubscribe(p)

Spec == Init /\ [][Next]_vars

\* The consumer keeps polling and gets through its pages; the observer owes
\* nothing.
Fairness == WF_vars(TakeHead) /\ WF_vars(Fetch) /\ WF_vars(Send) /\ WF_vars(SaveCursor)
FairSpec == Spec /\ Fairness

-----------------------------------------------------------------------------
(* Safety *)

\* The one way an event is lost on a subscriber: by the time the cursor has
\* passed its id it was notified, or it became visible after a higher id.
\* Crashes, pages cut by the limit, subscriptions made or dropped while a
\* page is in hand, expired rows: none of them loses an event.
SkipsAreLateCommits ==
  \A e \in owed : e.id <= cursor => sent[e.id] > 0 \/ e \in overtaken

\* Nobody is told of an event that was rolled back or of a startup replay.
NotificationsAreNews ==
  \A i \in Ids : sent[i] > 0 => \E e \in committed : e.id = i /\ ~e.replay

\* An event is notified again only when the consumer died with it in hand.
RepeatsNeedCrashes == \A i \in Ids : sent[i] <= crashes + 1

\* The next_after of a response never lets the cursor fall back.
CursorNeverFallsBack == [][cursor' >= cursor]_cursor

-----------------------------------------------------------------------------
(* The feed and its consumer as a log that is read in order *)

\* Everything up to here the consumer has handled: the last page, and of the
\* page in hand what comes before its first row.
Position ==
  IF phase = "idle" THEN cursor
  ELSE IF page = {} THEN next
  ELSE (CHOOSE e \in page : \A d \in page : e.id <= d.id).id - 1

\* The places of the log; claims are what is owed in the order of the ids.
Published == {e.id : e \in committed}
Claims == {e.id : e \in owed \ overtaken}

D == INSTANCE Delivery WITH
       published <- Published, claims <- Claims,
       told <- sent, position <- Position, saved <- cursor

\* Table, query, response and cursor make a log: the events of a subscription
\* are told one by one in the order of their ids, from wherever the consumer
\* starts again, and he gets past none of them without telling it then.
DeliversInOrder == D!Spec

-----------------------------------------------------------------------------
(* Liveness *)

Due(i) == \E e \in owed : e.id = i /\ e \notin overtaken

\* An event that became visible in the order of its id is notified as long
\* as its subscriber stays and it does not expire.
DueIsNotified == \A i \in Ids : Due(i) ~> (sent[i] > 0 \/ ~Due(i))

-----------------------------------------------------------------------------
(* What the documentation says and the code does not do *)

\* docs/bot.md: what precedes the first head is not delivered, but after it no
\* event is lost when the cursor is saved once its page was handled.
\* Beyond the head only such a page moves the cursor, so an event between the two
\* that was never notified was stepped over by a page.
NoEventSkipped ==
  \A e \in owed : start < e.id /\ e.id <= cursor => sent[e.id] > 0

=============================================================================
