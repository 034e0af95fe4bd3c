---------------------------- MODULE PlayerIdentity ----------------------------
(***************************************************************************)
(* The players the observer knows: rows of player_identity and of          *)
(* player_alias, and the PLAYER_NICKNAME_CHANGED events.  Every            *)
(* observation upserts its players one after the other, in the order of    *)
(* the API's answer and in the transaction of Service.Apply.  The tables   *)
(* belong to no server: a player who plays on one server and queues for    *)
(* another is upserted by two transactions at once.                        *)
(*                                                                         *)
(* The transactions are READ COMMITTED.  The first SELECT reads what is    *)
(* committed and locks nothing; INSERT ... ON CONFLICT waits for whoever   *)
(* holds the row and then judges its newest version, and holds the row     *)
(* until the end of its transaction even when its WHERE is false.  So the  *)
(* row of player_identity protects the player's aliases too, and the two   *)
(* upserts are one step.  player_platform_identity has the shape of        *)
(* player_alias and is left out.                                           *)
(***************************************************************************)
EXTENDS Integers

CONSTANTS
  Servers,   \* servers polled side by side, one transaction each
  Players,   \* bohemia_user_id
  Nicks,     \* nicknames
  Touch,     \* touchInterval
  MaxTime,   \* bound of the clock, for model checking only
  MaxRenames \* bound of the renamings, for model checking only

ASSUME IdentityAssumption ==
  /\ Touch \in Nat
  /\ MaxTime \in Nat
  /\ MaxRenames \in Nat
  /\ Nicks # {}

VARIABLES
  now,       \* the wall clock
  names,     \* names[p]: what player p calls himself
  renames,
  identity,  \* rows of player_identity
  alias,     \* alias[p][n]: last_seen_at of nickname n of p in player_alias
  events,    \* PLAYER_NICKNAME_CHANGED rows of domain_event
  tx,        \* tx[s]: the transaction of the observation of server s
  sighted    \* history: sighted[p][n] is the newest committed sighting of p as n

vars == <<now, names, renames, identity, alias, events, tx, sighted>>
tables == <<identity, alias, events, sighted>>
world == <<now, names, renames>>

-----------------------------------------------------------------------------
Time == 0 .. MaxTime
Never == -1          \* no such alias

\* An id is named by the transaction that inserted the row.
Id == Servers \X Time
NoId == <<>>

Row == [id: Id, nick: Nicks, seen: Time]
NoRow == [id |-> NoId, nick |-> "", seen |-> Never]
Event == [player: Players, old: Nicks, new: Nicks]

\* `todo' are the players still to be upserted, `turn' the one whose SELECT was
\* made and `read' what it returned; rows, marks and refs are kept by player.
Transaction ==
  [open: {TRUE}, at: Time, names: UNION {[some -> Nicks] : some \in SUBSET Players},
   todo: SUBSET Players, turn: SUBSET Players, read: Row \cup {NoRow},
   rows: [Players -> Row \cup {NoRow}],
   marks: [Players -> Time \cup {Never}],
   refs: [Players -> Id \cup {NoId}],
   events: SUBSET Event,
   crossed: SUBSET Players]

NoTransaction == [open |-> FALSE]
Open(s) == tx[s].open

TypeOK ==
  /\ now \in Time
  /\ names \in [Players -> Nicks]
  /\ renames \in 0 .. MaxRenames
  /\ identity \in [Players -> Row \cup {NoRow}]
  /\ alias \in [Players -> [Nicks -> Time \cup {Never}]]
  /\ events \subseteq Event
  /\ tx \in [Servers -> Transaction \cup {NoTransaction}]
  /\ sighted \in [Players -> [Nicks -> Time \cup {Never}]]

Init ==
  /\ now = 0
  /\ names \in [Players -> Nicks]
  /\ renames = 0
  /\ identity = [p \in Players |-> NoRow]
  /\ alias = [p \in Players |-> [n \in Nicks |-> Never]]
  /\ events = {}
  /\ tx = [s \in Servers |-> NoTransaction]
  /\ sighted = alias

-----------------------------------------------------------------------------
(* Row locks *)

Holds(s, p) == Open(s) /\ tx[s].rows[p] # NoRow
Free(p) == \A s \in Servers : ~Holds(s, p)

-----------------------------------------------------------------------------
(* presenceTx.UpsertPlayer *)

\* The mark is older than touchInterval.
Outdated(mark, t) == mark < t - Touch

\* Faulty variant: the time of the observation, whatever the row says.
Newest(mark, t) == t

\* GREATEST
Later(mark, t) == IF mark > t THEN mark ELSE t

\* The WHERE of ON CONFLICT DO UPDATE; a missing row is inserted.
Written(row, nick, t) == row = NoRow \/ row.nick # nick \/ Outdated(row.seen, t)

Upserted(row, nick, t, id) ==
  IF row = NoRow THEN [id |-> id, nick |-> nick, seen |-> t]
  ELSE IF Written(row, nick, t)
       THEN [row EXCEPT !.nick = nick, !.seen = Later(row.seen, t)]
       ELSE row

\* Faulty variant: nicknames are registered together with the player.
MarkedOnce(p, nick, t) == IF identity[p] = NoRow THEN t ELSE alias[p][nick]

AliasMark(p, nick, t) ==
  IF alias[p][nick] = Never \/ Outdated(alias[p][nick], t) THEN t ELSE alias[p][nick]

\* Faulty variant: no second SELECT when the row appeared in between.
RefWithoutReread(read, row, nick, t, id) ==
  IF Written(row, nick, t) THEN Upserted(row, nick, t, id).id ELSE read.id

\* RETURNING id, or the id of the first SELECT, or that of a second one.
RefOf(read, row, nick, t, id) ==
  IF Written(row, nick, t) THEN Upserted(row, nick, t, id).id
  ELSE IF read # NoRow THEN read.id
  ELSE row.id

\* Faulty variant: the previous nickname is the alias that was seen last.
LastAlias(p) ==
  IF identity[p] = NoRow THEN NoRow
  ELSE [identity[p] EXCEPT !.nick =
          CHOOSE n \in Nicks : \A m \in Nicks : alias[p][m] <= alias[p][n]]

Looked(p) == identity[p]

\* Faulty variant: the columns of the SELECT are scanned in the wrong order.
EventsOfIds(p, read, nick) ==
  IF read # NoRow THEN {[player |-> p, old |-> read.id, new |-> nick]} ELSE {}

\* The nickname is not the one of the first SELECT.
NicknameEvents(p, read, nick) ==
  IF read # NoRow /\ read.nick # nick
  THEN {[player |-> p, old |-> read.nick, new |-> nick]}
  ELSE {}

-----------------------------------------------------------------------------
(* The players and the clock *)

Tick ==
  /\ now < MaxTime
  /\ now' = now + 1
  /\ UNCHANGED <<names, renames, tables, tx>>

Rename ==
  /\ renames < MaxRenames
  /\ renames' = renames + 1
  /\ \E p \in Players, n \in Nicks : n # names[p] /\ names' = [names EXCEPT ![p] = n]
  /\ UNCHANGED <<now, tables, tx>>

-----------------------------------------------------------------------------
(* Service.apply and PresenceStore.WithTx *)

\* listPlayers has answered and the transaction begins; `refs' sees to it
\* that nobody is upserted twice.
Begin(s) ==
  /\ ~Open(s)
  /\ \E some \in SUBSET Players \ {{}} :
       tx' = [tx EXCEPT ![s] =
         [open |-> TRUE, at |-> now, names |-> [p \in some |-> names[p]],
          todo |-> some, turn |-> {}, read |-> NoRow,
          rows |-> [p \in Players |-> NoRow],
          marks |-> [p \in Players |-> Never],
          refs |-> [p \in Players |-> NoId],
          events |-> {}, crossed |-> {}]]
  /\ UNCHANGED <<world, tables>>

\* SELECT id, current_nickname
Lookup(s) ==
  /\ Open(s)
  /\ tx[s].turn = {}
  /\ \E p \in tx[s].todo :
       tx' = [tx EXCEPT ![s].todo = @ \ {p}, ![s].turn = {p}, ![s].read = Looked(p)]
  /\ UNCHANGED <<world, tables>>

\* The upserts and the event.
Upsert(s) ==
  /\ Open(s)
  /\ \E p \in tx[s].turn :
       LET row  == identity[p]
           read == tx[s].read
           nick == tx[s].names[p]
           at   == tx[s].at
       IN /\ Free(p)
          /\ tx' = [tx EXCEPT ![s] = [tx[s] EXCEPT
               !.turn = {},
               !.read = NoRow,
               !.rows[p] = Upserted(row, nick, at, <<s, at>>),
               !.marks[p] = AliasMark(p, nick, at),
               !.refs[p] = RefOf(read, row, nick, at, <<s, at>>),
               !.events = @ \cup NicknameEvents(p, read, nick)]]
  /\ UNCHANGED <<world, tables>>

\* Who waits for one of the rows finds it changed.
Crossed(t, s) ==
  IF Open(t) /\ t # s
  THEN [tx[t] EXCEPT !.crossed = @ \cup {p \in tx[t].turn : Holds(s, p)}]
  ELSE tx[t]

Commit(s) ==
  /\ Open(s)
  /\ tx[s].todo = {} /\ tx[s].turn = {}
  /\ identity' = [p \in Players |-> IF Holds(s, p) THEN tx[s].rows[p] ELSE identity[p]]
  /\ alias' = [p \in Players |-> IF Holds(s, p)
                                 THEN [alias[p] EXCEPT ![tx[s].names[p]] = tx[s].marks[p]]
                                 ELSE alias[p]]
  /\ events' = events \cup tx[s].events
  /\ sighted' = [p \in Players |-> IF Holds(s, p)
                                   THEN [sighted[p] EXCEPT ![tx[s].names[p]] = Later(@, tx[s].at)]
                                   ELSE sighted[p]]
  /\ tx' = [t \in Servers |-> IF t = s THEN NoTransaction ELSE Crossed(t, s)]
  /\ UNCHANGED world

\* A statement or the commit fails, the process dies, or PostgreSQL finds
\* transactions that wait for each other's players and lets one of them fail:
\* the deferred Rollback frees the rows, and the observation is lost.
Fail(s) ==
  /\ Open(s)
  /\ tx' = [tx EXCEPT ![s] = NoTransaction]
  /\ UNCHANGED <<world, tables>>

Next ==
  \/ Tick
  \/ Rename
  \/ \E s \in Servers :
       Begin(s) \/ Lookup(s) \/ Upsert(s) \/ Commit(s) \/ Fail(s)

Spec == Init /\ [][Next]_vars

-----------------------------------------------------------------------------
(* Safety *)

LastSighted(p) ==
  CHOOSE t \in Time \cup {Never} :
    /\ \E n \in Nicks : sighted[p][n] = t
    /\ \A n \in Nicks : sighted[p][n] <= t

IsMark(mark, newest) == newest - Touch <= mark /\ mark <= newest

\* The coarse marks of players and nicknames are never behind by more than
\* touchInterval: not behind any observation that was committed, however
\* late, and in whatever order two servers commit theirs.  And they are not
\* ahead of what was observed.
MarksAreRecent ==
  \A p \in Players : identity[p] # NoRow =>
    /\ IsMark(identity[p].seen, LastSighted(p))
    /\ \A n \in Nicks : alias[p][n] # Never \/ sighted[p][n] # Never =>
         IsMark(alias[p][n], sighted[p][n])

\* Sessions and events refer to the player's row: the id UpsertPlayer returns
\* is that of the committed row or, if there is none, of the row inserted by
\* the same transaction; also when another transaction inserted the row
\* between the SELECT and the INSERT.
RefsAreRows ==
  \A s \in Servers, p \in Players :
    Holds(s, p) =>
      /\ tx[s].refs[p] = tx[s].rows[p].id
      /\ identity[p] # NoRow => tx[s].refs[p] = identity[p].id

\* The history of nicknames is complete: it has the current nickname of every
\* player and both nicknames of every change that was announced.
NicknamesAreKept ==
  /\ \A p \in Players : identity[p] # NoRow => alias[p][identity[p].nick] # Never
  /\ \A e \in events : alias[e.player][e.old] # Never /\ alias[e.player][e.new] # Never

-----------------------------------------------------------------------------
(* Action properties *)

\* A change of the current nickname and its event are committed together, and
\* the event tells the two nicknames: none is announced twice, forgotten, or
\* announced without being one.  The exception are players whom another
\* transaction committed between the SELECT and the upsert of this one.
ChangesAreAnnounced ==
  [][\A s \in Servers : Commit(s) =>
       \A p \in {q \in Players : Holds(s, q)} \ tx[s].crossed :
         {e \in tx[s].events : e.player = p} =
           NicknameEvents(p, identity[p], identity'[p].nick)]_vars

=============================================================================
