# armaplayers: a TLA+ model of the observer

The observer polls the Bohemia API about the Arma Reforger servers it tracks,
keeps who plays and queues where in PostgreSQL, and publishes domain events
through an HTTP feed. This directory holds TLA+ modules of its components, TLC
configurations that check them on small instances, and TLAPS proofs of the
properties that matter most for every value of the constants. Paths below are
relative to `src/`; `PROJECT.json` maps every definition to its lines.

To run a check: `tlc -config MCPresence.cfg MCPresence.tla`; to check a proof:
`tlapm PresenceProofs.tla`.

## 1. The system

One process (`cmd/observer`) runs an errgroup of loops over one PostgreSQL
database. The loops share nothing in memory but the token provider; everything
else they share is rows.

```
 arma-reforger-hz --token--> token.Provider <---Get/Invalidate--- tracking, catalog
 Bohemia API <---searchRooms, listPlayers--- bohemia.Client <---- tracking, catalog
 tracking.Tracker --Observation--> presence.Service --one transaction--> sessions,
      |                                                     player_identity, domain_event
      +--SaveRoomObservation--> server, server_identity_key <--- catalog.Scanner
 retention.Service: detailed rows --> rollups, then deletes the old rows
 steam.Service: gateway arma-reforger-hz --answers--> snapshot, profile, friend_edge
      ^--- its loop over the watchlist, and GET /steam/.../dossier (httpapi)
 httpapi: GET /events  <--- the bot (a project of its own, docs/bot.md)
```

| component | state it keeps | operations | what is hard | what makes it correct |
|---|---|---|---|---|
| presence diff engine (`internal/presence`, `storage/postgres/presence_store.go`) | `presence_session`, `queue_session`, `domain_event` | `Service.Apply`: reconcile the open sessions with one observation, upsert players, append events, in one transaction | lost polls, rollbacks, commits whose acknowledgement is lost, crashes; two definitions of the data gap; no unique index on open sessions | one session of a player at a time, every committed sighting in exactly one session, absences only from observations, the outbox tells the tables' story once |
| tracking (`internal/tracking`) | `replayed`, the semaphore, the round | `RunLoop`, `PollAll`, `pollServer`, `record` | polls longer than a round, leaked slots, error paths, shutdown | polls of a server never overlap, every server is polled again and again, cancellation stops the loop |
| access token (`internal/token`) | cached token, `valid`, mutex | `Get`, `Fetch`, `Invalidate` | clients that fail with a token that has been replaced meanwhile; the mutex is held over an HTTP call | a rejected token does not come back; rejections end once the service has a good token |
| catalog (`internal/catalog`, `catalog_repo.go`, `tracking_repo.go`) | `server`, `server_identity_key` | scan pages, deactivate, merge, tracking rules; the tracker's `SaveRoomObservation` | two writers, steps that fail half-way, reused addresses, one statement that merges several records | merges lead to older records, a room has one record of its own, a scan deactivates what it saw only if an older answer came in after it, the number of polls is bounded |
| player identity (`presence_store.go: UpsertPlayer`) | `player_identity`, `player_alias`, nickname events | upsert of each player of an observation | READ COMMITTED transactions of several servers on the same rows, marks that are only touched now and then | ids refer to rows, announced changes are changes, nicknames are kept, marks are recent |
| event feed (`api_repo.go`, `httpapi/handlers.go`) | `domain_event`; the consumer's cursor | `GET /events`, expiry; the bot's cycle | ids are allocated in one order and committed in another; the consumer crashes between sending and saving | an event is lost only if it became visible after a higher id; the rest is delivered |
| retention and rollups (`internal/retention`, `rollup_repo.go`) | aggregates and detailed rows | rollups, batched deletes | passes that fail half-way, late rows, recounts that overwrite, outages | what is deleted has been counted, for good |
| Steam (`internal/steam`, `steam_repo.go`) | `steam.snapshot`, `profile`, `friend_edge`, `watchlist` | `Enrich`, `RunLoop`, the dossier's read, collection and registration | the loop and any number of dossiers collect one account side by side, every statement commits by itself, sources are hidden or missing, a deadline ends a collection half-way | a collection that ran alone leaves what its answer said, the graph claims only what a list said, nothing known is forgotten, the journal repeats itself only by an overlap |
| Bohemia client, other routes of the API, status, mods, wiring and configuration, probe | none of their own, or rows nobody else reads | requests and queries | | not modelled, see section 8 |

## 2. Modules and plan

The order is that of importance: what the observer says about players comes
first, then how it is delivered, then what it rests on.

| module | models | proofs | run |
|---|---|---|---|
| `Presence` | one server's polls, the session automaton, the outbox, crashes | `PresenceProofs` | `presence`, `presence_rejoin`, `presence_queue` |
| `Visits` | abstract: what the presence engine promises about one visitor | `VisitsProofs` | implemented by `Presence`: `presence`, and a theorem of `PresenceProofs` |
| `Untracking` | `Presence` with a list of tracked servers that changes | `PresenceProofs` | `presence`, for `MCPresence` extends it |
| `EventFeed` | sequence and commits, pages, cursor, consumer, expiry | `EventFeedProofs` | `feed`, `feed_skip` |
| `Delivery` | abstract: a log that is read in order, what the feed promises a consumer | `EventFeedProofs` | implemented by `EventFeed`: `feed`, and a theorem |
| `Retention` | rollups and cleanup of any tables and periods | `RetentionProofs` | `retention` |
| `Catalog` | scans, merges, rules, and the tracker's writes | `CatalogProofs` | `catalog`, `catalog_chain` |
| `PlayerIdentity` | concurrent upserts at the level of row locks | `PlayerIdentityProofs` | `identity` |
| `Tracker` | rounds, slots, the scan and the token provider | `TrackerProofs` | `tracker` |
| `TokenCache` | abstract: a token provider whose lookups are indivisible | `TrackerProofs` | implemented by `Tracker`: `tracker`, and a theorem |
| `Steam` | the collection of accounts by the loop and by dossiers | `SteamProofs` | `steam`, `steam_late` |

`Tracker` establishes what `Presence` assumes of its environment (one poll of a
server at a time: `PollsDoNotOverlap`), and `PlayerIdentity` and `EventFeed`
cover what transactions of different servers share, so `Presence` can follow one
server. `Untracking` composes `Presence` with what the catalog's rules and merges do to the
list of tracked servers. `Catalog` composes two components, the scan and the tracking poll, that
write to the same rows; `Steam` composes the loop, the handlers and the server's
write timeout.

What the plan has left, in this order:

1. the pages of `SearchAllRooms` over a list that changes (`bohemia/client.go:169`), as an
   abstract scan that `Catalog`'s pages implement;
2. the mods of a server, as part of what `SaveRoomObservation` and `SavePage` write;
3. an abstract player, whose nicknames and marks `PlayerIdentity` implements.

## 3. How the modules correspond to the code

Each action is one handler or one statement that takes effect at once: a
transaction is one step where nothing outside can see it half done, and several
steps where other transactions can. Names follow the source. Variables marked
*history* exist for the properties only and guard nothing.

**Presence** follows one tracked server. `sessions` are the rows of both session
tables (`kind` says which), `events` those of `domain_event`, `lastOK` is what
`LastSuccessfulPoll` reads from `poll_run`, `replayed` the tracker's mark for the
server, `phase` and `obs` the poll in flight. `StartPoll`, `ListPlayersAnswers`
and `PollFails` are the first half of `pollServer`. `Service.Apply` ends in one of
three ways: `ApplyCommits`, `ApplyRollsBack`, or `CommitUnacknowledged`, where
PostgreSQL has committed and the caller gets an error. `RecordSuccess` and
`RecordFails` are the separate statement that writes `poll_run`. `Restart` may
happen anywhere. `Reconciled` is one row's passage through `reconcile`, split into
`CloseAtGap`, `Extend`, `CloseLeft` and `Suspect`; `OpenedEvent` computes the
announced place in the queue the way `queueOps` does, over the sessions kept and
the players present.

**Visits** is the promise, without tables, events or polls: a visitor (a player in
one of the two tables) arrives, remains, misses observations, leaves after
`Confirmations` misses in a row, or gets lost at a gap. `MCPresence` maps the
tables and the outbox of `Presence` to it: the visits opened and left are those the
events name, the visits lost the rows that closed as `CLOSED_DATA_GAP`.

**Untracking** adds the list to it. `PollTracked` is the round that reads the list and finds
the server on it: here the phase `asked` begins with the list, and so covers the wait for the
server's turn and for a slot. `Untrack` is rule 3 of `ApplyTrackingRules` or a merge that
makes the server a victim, `Track` rules 1 and 2; neither looks at the session tables.
`before` is *history*.

**EventFeed** separates what one transaction does at two moments: `AppendEvent`
takes the id from the sequence, `Commit` makes the rows visible. `Matching`,
`FirstOf` and `IsNextAfter` are the WHERE, the ORDER BY with LIMIT, and the
`next_after` of the handler. The consumer is external; `TakeHead`, `Fetch`, `Send`,
`SaveCursor` and `CrashConsumer` are the cycle that docs/bot.md asks of it.
`start`, the head the consumer began at, is *history*.

**Delivery** is the promise of the feed without pages, filters, tables or transactions: a log
whose reader goes from one position to the next and tells, one by one, every claim on his
way. `EventFeed` maps to it: `Position` is the saved cursor or, with a page in hand, the
place before the page's first row; `Published` are the ids that became visible, and `Claims` what
is owed of them, less what was overtaken.

**Retention** is parameterised by the tables, rollups, periods and overlaps, so one
`RollUp` stands for the three statements of `rollup_repo.go`. An aggregate is the
set of rows it counted: sums and maxima are functions of that set. A pass is a
sequence of steps, any of which may fail (`PassFails`); the cleanup deletes row by
row as the batches do.

**Catalog** has a row per record, `keySeen` for the identity keys, the step of the
scan (`phase`) and the tracker's polls in flight (`round`, `found`). `SavePage`
resolves a room to a record (by ROOM_ID, then HOST_ADDRESS, one hop over
`merged_into_server_id`) or creates one. `MergeDuplicateRooms` keeps a freedom of
PostgreSQL: a row that both updates of the statement would change is changed by
one of them, which one is not determined. `BeginRules` and `ApplyTrackingRules`
bracket the transaction of the rules, because rule 3 compares `updated_at` with
the start of the transaction while the tracker writes. *History*: `founder` is the room a record was
created for, `saw` what was found since the scan began, by a page or by a poll, and `waiting` the
records that a poll had found by then with its answer still to be saved.

**PlayerIdentity** works at the level of row locks: `Lookup` is the SELECT that
locks nothing, `Upsert` the INSERT ... ON CONFLICT that waits for the holder of
the row and then judges its newest version, `Commit` and `Fail` release the locks.

**Tracker** has a client per tracked server and one for the lobby scan. `StartPoll`
takes a slot before the goroutine exists, `End` is the deferred release, `EndRound`
is `wg.Wait`. `GetCached`, `BeginFetch`, `FetchReturns`, `FetchFails` and
`Invalidate` are the provider; `mutex` is held across the request to the token
service and nowhere else, so that the other two critical sections are single
steps. `CallRejected` is the AUTH_ERROR of `record` and `RunLobbyScan`, the only
kind of error that drops the token.

**TokenCache** is the provider without the mutex: one step finds a token in the cache or
replaces it by the newest of the service, and only a client whose token was rejected
empties the cache. `Tracker` maps `cached` to the cached token while it is valid.

**Steam** follows `Enrich` statement by statement, in the loop (`Loop`) and in any
number of dossiers (`Callers`). `FetchAnswers` is the request to the gateway,
`CompareSnapshot` and `InsertSnapshot` the SELECT and the INSERT of `SaveSnapshot`,
`SaveProfile` the upsert with its COALESCEs, `UpsertFriends` and `MarkLostFriends` the
two statements of `SaveFriends`, whose rows stay locked between them (`Holders`), and
`MarkTry` the mark in the watchlist. `StepFails` ends a run where it stands;
`CollectTimesOut` is the deadline of a dossier, after which not even the mark is made, for
it is given the expired context. `Alive` says that no statement succeeds after
that. An `Answer` is what the parser finds in one source: absent, the JSON null,
unreadable, hidden or shown, with the value of its fields and the list of
friends. The gateway stamps its answers, so they have a clock of their own (`answers`),
apart from the deadlines' (`now`). The fields of a source come and go together and
are one value. *History*: `alone` says that no other run of the account overlapped this
one, `fetched` which lists were shown. `ReadWatchlist` and `Due` are the query of the loop,
`AddToWatchlist`, `ReadProfile` and `SendDossier` the handler; `InTime` is the
`WriteTimeout` of the HTTP server.

## 4. What each run checks

| run | question | instance |
|---|---|---|
| `presence` | are sessions, queue sessions and outbox consistent through lost polls, rollbacks, unacknowledged commits, restarts and changes of the list of tracked servers, and do they implement `Visits`? does the place announced in the queue count those who waited before, and its result say what the last poll saw? is a return marked when it has to be? how often is a server answered for after it was dropped? | 1 player, 2 confirmations, gap 2, clock to 4, drops until 3 |
| `presence_rejoin` (violation) | is a return after `CLOSED_DATA_GAP` always marked `after_data_gap`? | as `presence` |
| `presence_queue` (violation) | is a queue that ended in a join always recorded as `JOINED_SERVER`? | as `presence` |
| `feed` | do table, query, pages and cursor implement `Delivery`, is nobody told what is no news, and does everything that is due arrive? | 2 servers, 2 players, pages of 1, 2 events, 2 crashes |
| `feed_skip` (violation) | does a cursor that is saved after sending lose no event after the first head? | 2 servers, 1 player, pages of 2, 3 events, 1 crash |
| `retention` | do aggregates keep what the cleanup deletes, while rows keep coming? | periods 2 and 4, overlaps 2 and 4, retention 9, delay 1, silence 2, clock to 10 |
| `catalog` | do scans that fail half-way, merges, rules, restarts and stale polls keep the catalog in order? | 2 rooms, 2 addresses, 2 records, clock to 1, 2 moves, 1 restart, 1 AUTO place, symmetry |
| `catalog_chain` (violation) | does a merge always point at a canonical record? | 3 rooms, addresses and records, nothing moves |
| `identity` | do transactions that upsert one player together keep one row, its aliases, marks and announcements? | 2 transactions, 1 player, 2 nicknames, touch 1, clock to 3, 2 renames, symmetry |
| `tracker` | do rounds, slots and token survive every failure, does the provider implement `TokenCache`, and does the observer stop when told to? | 3 servers, 2 slots, the scan, 2 tokens |
| `steam` | what do collections leave behind that overlap, fail half-way or run out of time? | 1 account, 1 friend, the loop and 1 dossier, games and friends, 4 replies, 3 answers, clock to 1 |
| `steam_late` (violation) | does a dossier that was collected within its limit reach the person? | the same, 2 answers, limit 2, write timeout 1, clock to 2 |

Every property of a passing run has a mutant in `PROJECT.json`: a definition of the
code replaced by one with a plausible bug (the operators marked "Faulty variant"),
under which the run finds the property violated.

Five invariants are theorems (section 6) that no run repeats, for a property that the runs do
check says as much or more: `SkipsAreLateCommits` and `RepeatsNeedCrashes` follow from
`DeliversInOrder` by `DeliveryTellsClaims`; `CleanupFindsRowsCounted` from `RollupsOutliveRows`,
which the cleanup would break; `SessionTimeline` says of a row's fields what `AbsencesAreObserved`
says of them and the observations; `ConcurrencyIsKept` is the semaphore's bookkeeping, whose
leaks `PollsRecur` finds.

**Why the bounds suffice.** Apart from the periods of `Retention`, nothing in the modules
depends on absolute times, only on differences with a threshold, so a clock needs to reach a little beyond each of
them.

- `presence`: with a gap of 2 and a clock of 4 a session can be extended, suspected,
  rejoined or confirmed gone, and lost at a gap, and another one can follow; two
  confirmations are the least number with a state between present and gone. One
  player is enough for the sessions, because `reconcile` treats every player of an
  observation on his own. Only the place in the queue relates players: one of them is
  enough to mistake a session closed by the gap for one that was kept, and that the
  count is right for any number of players is proved (`PlacesAreRight`). With two
  players and a clock of 3 `Presence` alone has 4.5 million states and the run finds nothing more.
  The list of tracked servers changes as often as it likes, but the server is not dropped at the
  last tick, after which only the poll under way could answer (`MaxDrop`).
- `feed`: two transactions are what it takes to commit against the order of ids, a
  page of one row the smallest that the next page has to continue, and a second
  crash is one after a repeat. Pages of several rows are in `feed_skip` and, for any
  limit, in the theorems.
- `retention`: the retention of 9 is the tight one: `MaxSilence + Overlap + Period - 1`
  with the day's figures 2, 4 and 4. With 8 the run fails. The clock lets a row be
  counted, expire and have its day recounted. `RetentionSuffices` states the
  condition; `MCRetention` asserts that the instance meets it.
- `catalog`: duplicates arise between two records, when rooms exchange addresses
  while a poll is on its way, and two rooms and addresses allow that; restarts change the list of manual
  servers. The three records of `catalog_chain` are the least a chain needs.
- `identity`: conflicts need two transactions. Players meet only in transactions that
  wait for each other's rows, and these end by `Fail`, which is always allowed.
- `tracker`: three servers and two slots make a poll wait for a slot; the scan is a
  client that is in no round; two tokens let one replace the other.
- `steam`: two runs that overlap need two answers, and a third is that of a run that
  has to repair what they left. One account and one friend suffice: runs of different
  accounts share no rows. The replies are both sources shown, the games hidden with
  no friends left, no source (once as null, once absent), and sources without the
  fields that are read. The loop is given both its periods, of 0 and 1. `steam_late` has the limits
  in the order of 20 s and 15 s.

**Deadlock** is checked in every run. `Tracker` has a stuttering disjunct, `Done`, for
the observer that has stopped; in the other modules a poll, a pass, a scan, a fetch, a failure or
a restart remains possible when the bounded clocks and counters have run out.

## 5. Fairness

Only `feed` and `tracker` state liveness.

- `EventFeed.FairSpec`: weak fairness of the consumer's four steps. docs/bot.md has it
  poll for ever, handle the page in hand and save the cursor. The observer's
  transactions, subscriptions and crashes are not fair. `DueIsNotified` promises
  nothing about events that expire or lose their subscriber first.
- `Tracker.FairSpec`: weak fairness of the tracker's loop (`LoopStep`: its ticker
  fires, the list of servers can be read in the end), of the end of every HTTP call
  (the token client has a timeout of 5 s, `http_source.go:20`, Bohemia's of 15 s,
  `bohemia/client.go:30`), and of the scan's return once its context is cancelled.
  `Get` and `Invalidate` wait for a `sync.Mutex` that others keep taking: it is strongly
  fair, because Go's mutex hands itself over to a waiter that has starved for a
  millisecond. The scan need never start; nothing need fail, and nothing need
  succeed: `PollsRecur` speaks of polls that are made, not of polls that are answered.
  `RejectionsEnd` assumes that the service has a living token from some time on.

`Steam` has no fairness: the loop skips a pass that fails, a dossier may be abandoned, and
nothing of it has to happen.

## 6. Proofs

`tlapm` checks every proof; no step is left open. Assumptions are those the modules
name (`ConfigAssumption`, `FeedAssumption`, `CatalogAssumption`,
`FirstRecordsAssumption`, `PlayersAssumption`, `TrackerAssumption`, `IdentityAssumption`,
`RetentionAssumption`, `SteamAssumption`): sets are finite where they are counted,
thresholds are natural numbers, constants that play different parts differ. The
bounds of the clocks and counters are arbitrary in all of them. Every invariant,
every action property and every refinement that a passing run checks is a theorem; those of
`Retention` but for its types carry the condition `RetentionSuffices`. Three more theorems
carry a condition because they say when a promise that a run finds broken does hold
(section 7): `OneConfirmationRecognisesJoins`, `SerialCommitsSkipNothing` and
`OwnAddressesBoundPolls`.

- **PresenceProofs**: `TypeCorrect`, `OneSessionAtATime`, `TimelinesInOrder`,
  `ClosedSessionsAreFinal`. `SessionsDisjoint` is not inductive: nothing in it says
  that the next observation is later than every session. `IInv` adds that the answer
  in flight is later than all that was committed (`HistoryOrder`), that every time
  in a session is that of a committed observation (`TimesObserved`), and the
  timeline of each row, which tells an open row from a closed one. The lemmas go
  from one row (`ReconciledCases`, `ReconciledTimeline`) to both tables
  (`ApplyDisjoint`, `ApplyPreserves`). On top of it, with invariants of their own:
  - `EverySightingCounts`: every sighting is in a session (`Covered`), its ends are
    sightings (`Witnessed`), and that there is only one follows from `SessionsDisjoint`;
  - `AbsencesAreReal`: the absences of a row are counted against the set of
    observations since its last sighting, which each observation extends by itself,
    the newest (`OneMoreSince`), and which is final once the row is closed
    (`MissedIsFinal`);
  - `OutboxIsExact`: each row agrees with its events and each event has its row
    (`OutboxInv`); the beginning of a session names it (`BeginningNamesRow`);
  - `PlacesAreRight`: the sessions `queueOps` counts as kept are, one to one, the
    players in front (`NewFront`), and later observations do not change who was;
  - `PresenceImplementsVisits`: the refinement of `Visits`. The mapping reads events and
    rows; `VisitsAreRows`, which `OutboxInv` implies, says that it may as well read
    the rows alone, and then each way `reconcile` treats a row is a move of its visitor
    (`AwayOrArrive`, `CurrentMoves`).
  - `QueueResultsAreSeen`: the result of a queue session that closed is the word of the
    newest of its absences (`ResultIsOf`), which is the poll that closed it (`NewResult`)
    and stays the newest, since a closed row's absences are final (`OldResult`). Who joined was
    connected in that poll, so `Covered` gives him a session on the server.
    `OneConfirmationRecognisesJoins` follows: with `AbsentConfirmations = 1` a session has one
    absence, so that the poll that decides is the poll that first missed the player;
  - `SeenRejoinsAreFlagged`: a session is closed only after an observation later than its last
    sighting (`ClosedLater`), so whom the newest observation saw has an open session that
    it extended (`NewestSightingIsOpen`). Another one can begin only when that one closes at
    the gap, and then the gap since the last successful poll is at least as long;
  - `UntrackingImplementsPresence`: each step of `Untracking` is one of `Presence` or
    changes the list alone (`TrackedSteps`), so all of the above holds of a server that is
    dropped and taken back at any moment, which is what the run checks;
  - `DroppedServersAnswerOnce`: while a server off the list is being asked, nothing has been
    committed since it was dropped (`DropInv`).
- **VisitsProofs**: `VisitsFollowEachOther`, the invariant of the abstract
  specification, which by the refinement holds of outbox and tables too.
- **EventFeedProofs**: `FeedTypeCorrect`, `OnlyLateCommitsAreSkipped`,
  `OnlyNewsIsNotified`, `RepeatsAreCrashes`, `CursorIsMonotone`. A cursor passes a whole page
  at once, so `IInv` has to say while the page is being sent that whatever it will pass
  has been handled or is still in hand (`PageIsComplete`); this rests on pages being closed
  downwards (`PageIsDownwardClosed`), on ids being unique, and on every cursor
  being the id of an event that was visible, so that what becomes visible below it
  counts as overtaken. For the repeats, an event that is still ahead of the consumer has been
  sent at most once per crash (`Ration`). Then
  - `FeedImplementsDelivery`: each step of feed and consumer is a step of the log. What has a
    claim and lies between the consumer and `next_after` is in the page unless it is behind
    the page's first row (`ClaimsInHand`), so neither a row that is sent nor a page that is
    empty carries `Position` past a claim; and what is committed below the head of
    the log is overtaken and makes no claim;
  - `DeliveryTellsClaims`: in the abstract specification all claims behind the consumer were told, and
    nothing more often than once and once per crash (`LogInv`);
  - `SerialCommitsSkipNothing`: with one transaction under way at a time (one member of
    `Servers`, as with `POLL_CONCURRENCY = 1`) a row still to be committed has the highest id
    (`PendingIsNewest`), so nothing is ever overtaken and no event after the
    first head is skipped.
- **CatalogProofs**: `CatalogTypeCorrect`, `MergesHaveNoCycles`, `RoomsFoundOneRecord`,
  `ScanKeepsWhatItSaw`, `TrackingIsBounded`. `IInv` adds that a record keeps the ROOM_ID key it was
  created with (`FoundersAreKeys`), so that its room always resolves to something; that what
  was found since a scan began is marked no older than the scan, unless an answer from before it is
  among those that were `waiting` (`SawIsFresh`); and that polls belong to
  records (`PollsAreKnown`). `OutcomesOfMerge` handles the merge for every choice
  PostgreSQL may make. What the rules choose (`RulesChoose`) bounds the servers tracked, and
  `OwnAddressesBoundPolls` turns that into the bound of ADR 0008 where no two canonical
  records share an address (`AddressesAreOwn`) and no poll ran beside the rules.
- **TrackerProofs**: `TypeCorrect`, `SlotsCountPolls`, `RejectedTokensAreGone`,
  `OnePollPerServer`. `IInv` adds that whoever is in `Fetch` holds the mutex and that no
  token was dropped since it began (`FetchHoldsMutex`), that a server still to be
  polled has no poll and that none runs between rounds (`RoundIsIdle`). `ProviderIsAtomic` maps
  `Get` to the moment it takes effect: a hit where the mutex is taken, a refill where
  the service's answer is cached, and nothing in between. It needs `HandsAreHonest`: whoever
  waits holds no token, whoever is about to drop the cache saw his rejected, and while one is in
  `Fetch` the cache stays of no use, so that no other client can be served in between.
- **RetentionProofs**: `RetentionIsTyped`, and, where `RetentionSuffices`,
  `DeletedRowsStayCounted`, `CleanupIsSafe`, `RecountsAdd`. The condition: the
  retention of a table is at least the longest silence, the overlap of each of its
  rollups and one period (two for a rollup of closed periods only), less one; overlaps
  are whole periods and cover what arrives late; all rollups of a pass come before
  its cleanups. The invariant says that a row older than what the next recount can reach is
  counted (`PastIsCounted`) and that only such rows are deleted or overdue
  (`DeletedIsPast`, `OverdueIsPast`); `SilencesAreShort` keeps the newest aggregate, from which
  the recount goes back, close to the clock.
- **PlayerIdentityProofs**: `IdentityIsTyped`, `MarksKeepUp`, `IdsReferToRows`,
  `NoNicknameIsLost`, `AnnouncementsAreExact`. `IInv` adds that two transactions never hold one row
  (`LocksAreExclusive`), so that what a holder has written is what will be
  committed; that what a transaction read is a row or was none (`ReadsAreRows`); and that
  the changes it is going to commit are those its events announce (`EventsAreKept`,
  `ChangesAreDue`).
- **SteamProofs**: `SteamIsTyped`, `LoneRunsRepair`, `GraphIsWitnessed`,
  `NothingIsForgotten`, `JournalRepeatsNeedOverlap`. `IInv` adds that the stamps tell answers
  apart and are later than all that is stored (`AnswersAreOwn`, `RowsArePast`), that a run which
  is alone shares its account with no one (`AloneIsAlone`), and what a lone run has
  established so far at each of its steps (`CallFollows`).

**Only model-checked**: liveness (`DueIsNotified`, `RejectionsEnd`,
`PollsRecur`, `CancelStops`), which is beyond the prover, as are ENABLED and induction
over data; no module has a RECURSIVE operator.

## 7. Findings

Five runs end in a counterexample on purpose: the code does not do what its
documentation says.

1. `presence_rejoin`: a session closes at a gap since its own last sighting, but the
   event of the new one is marked by the gap since the server's last successful
   poll. A player missed by one successful poll returns unmarked.
2. `presence_queue`: whether a queue ended in a join is read off the one poll that
   confirms the absence. Connected in the poll before it and gone again: `LEFT_QUEUE`.
   The window that ADR 0005 speaks of does not exist. With one confirmation the promise
   holds (`OneConfirmationRecognisesJoins`); the default is two.
3. `feed_skip`: ids are taken at the INSERT and become visible at the commit. A page
   fetched between two commits is sent and its `next_after` saved, and with that the cursor
   passes a row of a lower id that has become visible meanwhile: no one is ever told of
   it, although its id is beyond the head the consumer began at and nothing crashed. That is the only way to lose one
   (`OnlyLateCommitsAreSkipped`), and one transaction at a time rules it out
   (`SerialCommitsSkipNothing`); the default of `POLL_CONCURRENCY` is 4.
4. `steam_late`: a dossier may collect for 20 s, but the HTTP server writes nothing once
   15 s have passed since the request. The limit of the collection is there so that
   the person gets an answer; between the two he gets a closed connection.
5. `catalog_chain`: one merge over two rooms that share a record points the third
   record at the second while the second is merged into the first; the room then
   resolves to a merged record.

More facts that the models show and no run is spent on. Three of them are at odds with a
document, the fourth with a comment:

- ADR 0008:26 expects a change of AUTO to close the sessions of the servers that fell out, by the data
  gap. Nothing but an observation closes a session (`presence/service.go:163`), so they stay open
  for as long as their server stays out. `Untrack` leaves them alone, and what
  `DroppedServersAnswerOnce` allows is the answer of a round that had begun.
- ADR 0008:24 bounds the polled servers by `len(MANUAL) + MAX`. Rule 1 tracks every
  canonical record with a listed address (`catalog_repo.go:285`), and a room that left the lobby
  keeps the address its successor gets. `OwnAddressesBoundPolls` shows that nothing else breaks the
  bound, apart from polls beside the rules.
- The comment on `last_try_at` (`00011_steam_schema.sql:28`) includes failed attempts. The one that
  ends with the dossier's deadline is not dated, for `MarkTry` is given the context that has expired
  (`steam/service.go:57`).
- The comments on `DeactivateUnseen` (`catalog_repo.go:215`, `catalog/catalog.go:51`) speak of servers
  not met since the scan began. The statement compares `last_seen_at`, and the answer of a poll that
  found the server before the scan began sets it back when it is saved after the scan's own page:
  the server that was met is deactivated. `SeenSurvivesScan` confines this to the answers that were
  under way when the scan began (`waiting`); without that exception the run finds it violated.

No document promises the contrary of the other two. `RetentionSuffices` fails after
an outage about as long as the retention: with the defaults, seven days of detailed
rows and an overlap of two days, an outage of more than four days lets the recount reach back to
days whose rows are partly gone and overwrite their counts. And `ROLLUP_OVERLAP` is not aligned to
the buckets of ten minutes: the default of 3 hours is a multiple of them, but a value that is none
would recount the first bucket from its middle.

## 8. Abstractions, and what is not modelled

- Clocks are coarse and all parts of a module share one; two steps may have the same
  time. `Presence` lets an observation be dated later than all applied before it,
  which `OnePollPerServer` justifies.
- A page of the lobby is a sequence of single rooms; a scan may miss any room
  (`bohemia/client.go:169` pages by offset through a list that changes), so no property
  relies on a complete one. Which servers have the highest peaks is a free choice of
  at most `AutoMax` of them.
- `CallRejected` of `Tracker` needs a dead token. `bohemia/errors.go:76` makes an AUTH_ERROR of any
  401 or 403, so that Bohemia answers a living token with neither is an assumption on the
  environment; `RejectionsEnd` and `ServesAtomically` rest on it.
- The order of the servers in a round, the pauses between polls and the times of the
  scans are free. A round or a pass whose first read fails does nothing and is
  not a step. The tracked servers do not change in `Tracker`; `Catalog` and `Untracking` change
  them.
- A transaction whose connection was lost does not outlive it: after `CommitUnacknowledged` or
  `ApplyRollsBack` its fate is settled when the next one of the server begins.
- `Retention` assumes that some row comes every `MaxSilence` ticks (`RowsKeepComing`)
  and that a row is inserted at most `MaxDelay` after its date.
- That PostgreSQL ends a cycle of waiting transactions is an assumption of
  `PlayerIdentity` (`Fail`). `player_platform_identity` has the shape of `player_alias`
  and is left out.
- `max(bucket)`, from which a recount goes back, is taken over all servers at once; `Retention`
  has one sequence of rows for them, so a server that is silent while others are not counts as
  no silence.
- `Steam` stores the sources of an answer in some fixed order; a body of null is stored as a
  row, because `service.go:63` looks at its length and not at `types.go:48`'s test. The
  queries of the other fields, `last_ok_at` and `last_error` are left out: nothing reads them.
  `MarkTry` may move `last_try_at` back, and a source that fails overwrites
  `games_visible` and `friends_visible`: both are in the model, and no property
  denies them. Two `SaveFriends` that deadlock are a `StepFails` of one of them. After a failed
  collection the dossier is sent with the profile the handler read before; what it
  contains is not modelled.
- `SameAsLast` compares the answers as values. The hash of `steam_repo.go:30` is that of the raw
  bytes, so a gateway that orders or spaces the same JSON differently would repeat itself in
  the journal without an overlap; the column stores `jsonb`, which forgets both. `Merged` takes
  the fields of a source together, although `steam_repo.go:81` keeps each by a COALESCE of its own.
- `InTime` counts from the start of `Enrich`; the write timeout of `server.go:88` counts from the
  request's header, which is earlier. So the model gives the dossier more time than it has.
- Not modelled: the Bohemia client, whose errors
  appear as the ways a call ends; the routes of the API but for the feed and the dossier, and
  the status, which change nothing; server mods, raw payloads and their expiry, which no other
  step reads; wiring, configuration, logging and the probe, which hold no state.

The hazards of the code, at their lines and with the properties that cover them, are
listed in `PROJECT.json`. Those without a property say why.
