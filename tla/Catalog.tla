------------------------------- MODULE Catalog -------------------------------
(***************************************************************************)
(* The catalog of servers (internal/catalog, catalog_repo.go) and the part *)
(* of the tracking poll that writes to it (tracking_repo.go).  A lobby     *)
(* scan saves the pages it is given, each room under the record its keys   *)
(* resolve to, and then deactivates what it has not seen, merges records   *)
(* that share a ROOM_ID and chooses the servers to track; every step is a  *)
(* transaction of its own and any of them may fail.  Meanwhile the tracker *)
(* polls the addresses it read at the start of its round and saves the     *)
(* rooms it finds there.                                                   *)
(*                                                                         *)
(* A page of several rooms is a sequence of SavePage steps: a transaction  *)
(* cut in between differs from a scan that failed there only in the rooms  *)
(* the next scan has to save again.  Player counts are left out: which     *)
(* servers have the highest peaks is a choice.                             *)
(***************************************************************************)
EXTENDS Integers, FiniteSets

CONSTANTS
  Rooms,        \* values of roomId: a UUID, never reused
  Addresses,    \* values of hostAddress: hosters do reuse them
  Nowhere,      \* where a room is that the lobby does not list
  AutoMax,      \* TRACK_AUTO_MAX_SERVERS
  FirstRecords, \* records of the first scan: FirstRecords[i] = <<room, address>>
  MaxServers,   \* bound of the sequence of server.id, for model checking only
  MaxTime,      \* bound of the clock, for model checking only
  MaxMoves,     \* bound of the changes in the lobby, for model checking only
  MaxRestarts   \* bound of the restarts, for model checking only

ASSUME CatalogAssumption ==
  /\ Nowhere \notin Addresses
  /\ Rooms \cap Addresses = {}
  /\ AutoMax \in Nat
  /\ MaxServers \in Nat
  /\ MaxTime \in Nat
  /\ MaxMoves \in Nat
  /\ MaxRestarts \in Nat

ASSUME FirstRecordsAssumption ==
  \E n \in 0 .. MaxServers :
    /\ FirstRecords \in [1 .. n -> Rooms \X Addresses]
    /\ \A i, j \in 1 .. n : FirstRecords[i][1] = FirstRecords[j][1] => i = j

VARIABLES
  now,       \* the wall clock
  lobby,     \* lobby[r]: the address room r is listed under
  server,    \* rows of server
  keySeen,   \* keySeen[s][v]: last_seen_at of key v of server s in server_identity_key
  manual,    \* TrackingRules.ManualHosts
  phase,     \* the step of the scan to be taken next
  started,   \* when the scan started
  spared,    \* rows polled since the transaction of the rules began
  round,     \* polls of the tracker's round that are still to be made
  found,     \* polls that found a room and have not saved it yet
  saw,       \* history: records found since this scan began, by a page or a poll
  waiting,   \* history: records whose answer was still to be saved when it began
  founder,   \* history: founder[s] is the room record s was created for
  moves, restarts

scanVars == <<phase, started, spared, saw, waiting>>
pollVars == <<round, found>>
tables == <<server, keySeen, founder>>
bounds == <<moves, restarts>>
vars == <<now, lobby, server, keySeen, manual, phase, started, spared, round, found,
          saw, waiting, founder, moves, restarts>>

-----------------------------------------------------------------------------
Ids == 1 .. MaxServers
Time == 0 .. MaxTime
Never == -1          \* no such key
None == 0            \* merged_into_server_id IS NULL

\* addr is current_host_address, room current_room_id, seen last_seen_at, into
\* merged_into_server_id, source tracking_source: tracking_enabled is set with
\* it, so it says `source # "NULL"'.
Server ==
  [addr: Addresses, room: Rooms, seen: Time, active: BOOLEAN, into: Ids \cup {None},
   source: {"NULL", "MANUAL", "AUTO"}]

Blank == [addr |-> Nowhere, room |-> Nowhere, seen |-> 0, active |-> FALSE,
          into |-> None, source |-> "NULL"]

Records == {s \in Ids : server[s] # Blank}
Canonical == {s \in Records : server[s].into = None}

Poll == [id: Ids, addr: Addresses]
Answer == [id: Ids, addr: Addresses, room: Rooms, at: Time]

TypeOK ==
  /\ now \in Time
  /\ lobby \in [Rooms -> Addresses \cup {Nowhere}]
  /\ server \in [Ids -> Server \cup {Blank}]
  /\ keySeen \in [Ids -> [Rooms \cup Addresses -> Time \cup {Never}]]
  /\ manual \subseteq Addresses
  /\ phase \in {"startup", "idle", "pages", "merge", "rules", "choose"}
  /\ started \in Time
  /\ spared \subseteq Records
  /\ round \subseteq Poll
  /\ found \subseteq Answer
  /\ saw \subseteq Records
  /\ waiting \subseteq Records
  /\ founder \in [Ids -> Rooms \cup {Nowhere}]
  /\ moves \in 0 .. MaxMoves
  /\ restarts \in 0 .. MaxRestarts

-----------------------------------------------------------------------------
(* Resolution of a room: resolveOrCreateServer *)

NewRecord(r, a, t) ==
  [addr |-> a, room |-> r, seen |-> t, active |-> TRUE, into |-> None, source |-> "NULL"]

\* COALESCE(merged_into_server_id, id): one hop.
Canon(s) == IF server[s].into = None THEN s ELSE server[s].into

Holders(v) == {s \in Records : keySeen[s][v] # Never}
Latest(v) == {s \in Holders(v) : \A u \in Holders(v) : keySeen[u][v] <= keySeen[s][v]}

\* Faulty variant: by HOST_ADDRESS alone, as before the revision of ADR 0004.
KnownByAddress(r, a) == Holders(a) # {}

\* Some key of the room is known: the query finds a row.
Known(r, a) == Holders(r) # {} \/ Holders(a) # {}

\* ROOM_ID first, then HOST_ADDRESS, then the key seen last; of equals any.
Resolved(r, a) ==
  {Canon(s) : s \in IF Holders(r) # {} THEN Latest(r) ELSE Latest(a)}

\* upsertIdentityKeys: last_seen_at is taken from the observation.
KeysUpserted(s, r, a, t) == [keySeen EXCEPT ![s][r] = t, ![s][a] = t]

-----------------------------------------------------------------------------
(* The lobby and the clock *)

\* The records of the first scan, before any server was chosen.
Init ==
  LET known == DOMAIN FirstRecords
  IN /\ now = 0
     /\ lobby \in {l \in [Rooms -> Addresses \cup {Nowhere}] :
                     \A r, q \in Rooms : r # q /\ l[r] = l[q] => l[r] = Nowhere}
     /\ server = [s \in Ids |->
          IF s \in known THEN NewRecord(FirstRecords[s][1], FirstRecords[s][2], 0) ELSE Blank]
     /\ keySeen = [s \in Ids |-> [v \in Rooms \cup Addresses |->
          IF s \in known /\ v \in {FirstRecords[s][1], FirstRecords[s][2]} THEN 0 ELSE Never]]
     /\ founder = [s \in Ids |-> IF s \in known THEN FirstRecords[s][1] ELSE Nowhere]
     /\ manual \in SUBSET Addresses
     /\ phase = "startup"
     /\ started = 0
     /\ spared = {}
     /\ round = {}
     /\ found = {}
     /\ saw = {}
     /\ waiting = {}
     /\ moves = 0
     /\ restarts = 0

Tick ==
  /\ now < MaxTime
  /\ now' = now + 1
  /\ UNCHANGED <<lobby, tables, manual, scanVars, pollVars, bounds>>

\* A game server appears, goes away, or moves to a free address and keeps its
\* roomId.
Relist ==
  /\ moves < MaxMoves
  /\ moves' = moves + 1
  /\ \E r \in Rooms, a \in Addresses \cup {Nowhere} :
       /\ a # lobby[r]
       /\ a # Nowhere => \A q \in Rooms : lobby[q] # a
       /\ lobby' = [lobby EXCEPT ![r] = a]
  /\ UNCHANGED <<now, tables, manual, scanVars, pollVars, restarts>>

\* The process starts again, maybe with another TRACK_HOST_ADDRESSES.
Restart ==
  /\ restarts < MaxRestarts
  /\ restarts' = restarts + 1
  /\ manual' \in SUBSET Addresses
  /\ phase' = "startup"
  /\ started' = 0
  /\ spared' = {}
  /\ saw' = {}
  /\ waiting' = {}
  /\ round' = {}
  /\ found' = {}
  /\ UNCHANGED <<now, lobby, tables, moves>>

-----------------------------------------------------------------------------
(* The scan: Scanner.RunLobbyScan *)

\* RunLobbyScan returns, and its locals are gone.
ScanEnds ==
  /\ phase' = "idle"
  /\ started' = 0
  /\ spared' = {}
  /\ saw' = {}
  /\ waiting' = {}

StartScan ==
  /\ phase = "idle"
  /\ phase' = "pages"
  /\ started' = now
  /\ saw' = {}
  /\ waiting' = {f.id : f \in found}
  /\ UNCHANGED <<now, lobby, tables, manual, spared, pollVars, bounds>>

CreateServer(r, a) ==
  /\ ~Known(r, a)
  /\ \E s \in Ids :
       /\ s \notin Records
       /\ \A u \in Ids : u < s => u \in Records
       /\ server' = [server EXCEPT ![s] = NewRecord(r, a, now)]
       /\ keySeen' = KeysUpserted(s, r, a, now)
       /\ founder' = [founder EXCEPT ![s] = r]
       /\ saw' = saw \cup {s}

UpdateServer(r, a) ==
  \E s \in Resolved(r, a) :
    /\ server' = [server EXCEPT ![s].addr = a, ![s].room = r, ![s].seen = now,
                                ![s].active = TRUE]
    /\ keySeen' = KeysUpserted(s, r, a, now)
    /\ saw' = saw \cup {s}
    /\ UNCHANGED founder

\* SaveLobbyPage, one room of it.  The list is read page by page while rooms
\* come, go and change places in it, so a scan may miss any of them.
SavePage ==
  /\ phase = "pages"
  /\ \E r \in Rooms :
       /\ lobby[r] # Nowhere
       /\ CreateServer(r, lobby[r]) \/ UpdateServer(r, lobby[r])
  /\ UNCHANGED <<now, lobby, manual, phase, started, spared, waiting, pollVars, bounds>>

\* Faulty variant: what was seen when the scan started counts as unseen.
UnseenAt(s) == server[s].seen <= started

Unseen(s) == server[s].seen < started

\* The last page was short or empty.
DeactivateUnseen ==
  /\ phase = "pages"
  /\ phase' = "merge"
  /\ server' = [s \in Ids |-> IF s \in Canonical /\ server[s].active /\ Unseen(s)
                              THEN [server[s] EXCEPT !.active = FALSE] ELSE server[s]]
  /\ started' = 0
  /\ saw' = {}
  /\ waiting' = {}
  /\ UNCHANGED <<now, lobby, keySeen, founder, manual, spared, pollVars, bounds>>

\* Whatever step fails, the steps before it stay done.
ScanFails ==
  /\ phase # "idle"
  /\ ScanEnds
  /\ UNCHANGED <<now, lobby, tables, manual, pollVars, bounds>>

-----------------------------------------------------------------------------
(* MergeDuplicateRooms: one statement *)

OwnersOf(r) == {Canon(s) : s \in Holders(r)}

\* Faulty variant: the newest record survives.
IsNewestOwner(k, r) == k \in OwnersOf(r) /\ \A s \in OwnersOf(r) : s <= k

\* keep_id, the oldest of the canonical records.
IsKept(k, r) == k \in OwnersOf(r) /\ \A s \in OwnersOf(r) : k <= s

Victims(k) ==
  {v \in Canonical : v # k /\ \E r \in Rooms : IsKept(k, r) /\ v \in OwnersOf(r)}

\* The victims a surviving record may take its fields from.
Donors(k) == {v \in Victims(k) : server[v].seen >= server[k].seen}

\* `merged': the victim ends in one of the records it is a victim of.
MergedInto(v, k) ==
  [server[v] EXCEPT !.into = k, !.source = "NULL", !.active = FALSE]

\* Faulty variant: the two `current' columns swapped.
MovedSwapped(k, v) ==
  [server[k] EXCEPT
     !.addr = server[v].room, !.room = server[v].addr, !.seen = server[v].seen]

\* `moved': the surviving record takes over where the server is now.
Moved(k, v) ==
  [server[k] EXCEPT
     !.addr = server[v].addr, !.room = server[v].room,
     !.seen = IF server[k].seen > server[v].seen THEN server[k].seen ELSE server[v].seen,
     !.active = server[k].active \/ server[v].active,
     !.source = IF server[k].source # "NULL" THEN server[k].source ELSE server[v].source]

MergedRows(v) == {MergedInto(v, k) : k \in {x \in Records : v \in Victims(x)}}
MovedRows(k) == {Moved(k, v) : v \in Donors(k)}

\* The rows an update of the statement may leave behind.  Of several joined
\* rows PostgreSQL takes any, and of the two updates of a row that both
\* survives one room and is the victim of another only one takes place.
Outcomes(s) ==
  IF MergedRows(s) \cup MovedRows(s) = {} THEN {server[s]}
  ELSE MergedRows(s) \cup MovedRows(s)

MergeDuplicateRooms ==
  /\ phase = "merge"
  /\ phase' = "rules"
  /\ server' \in [Ids -> UNION {Outcomes(s) : s \in Ids}]
  /\ \A s \in Ids : server'[s] \in Outcomes(s)
  /\ UNCHANGED <<now, lobby, keySeen, founder, manual, started, spared, saw, waiting,
                 pollVars, bounds>>

-----------------------------------------------------------------------------
(* ApplyTrackingRules: one transaction of three updates *)

\* now() of the transaction is fixed.
BeginRules ==
  /\ phase = "rules"
  /\ phase' = "choose"
  /\ spared' = {}
  /\ UNCHANGED <<now, lobby, tables, manual, started, saw, waiting, pollVars, bounds>>

Listed == {s \in Canonical : server[s].addr \in manual}

\* Who may be chosen by peak: a record that was MANUAL has to wait.
Eligible ==
  {s \in Canonical : /\ server[s].active
                     /\ server[s].source # "MANUAL"
                     /\ server[s].addr \notin manual}

\* Faulty variant: the third update is forgotten.
RuleForKeeping(s, auto) ==
  IF s \in auto THEN "AUTO" ELSE IF s \in Listed THEN "MANUAL" ELSE server[s].source

\* The third update: `updated_at < now()' spares what this transaction updated
\* and what the tracker has touched since it began.
RuleFor(s, auto) ==
  IF s \in auto THEN "AUTO"
  ELSE IF s \in Listed THEN "MANUAL"
  ELSE IF s \in spared THEN server[s].source ELSE "NULL"

ApplyTrackingRules ==
  /\ phase \in {"choose", "startup"}
  /\ \E auto \in SUBSET Eligible :
       /\ Cardinality(auto) <= AutoMax
       /\ server' = [s \in Ids |-> IF s \in Records
                                   THEN [server[s] EXCEPT !.source = RuleFor(s, auto)]
                                   ELSE server[s]]
  /\ ScanEnds
  /\ UNCHANGED <<now, lobby, keySeen, founder, manual, pollVars, bounds>>

-----------------------------------------------------------------------------
(* The tracker: PollAll, pollServer, SaveRoomObservation *)

Tracked == {s \in Canonical : server[s].source # "NULL"}

StartRound ==
  /\ phase # "startup"
  /\ round = {} /\ found = {}
  /\ round' = {[id |-> s, addr |-> server[s].addr] : s \in Tracked}
  /\ UNCHANGED <<now, lobby, tables, manual, scanVars, found, bounds>>

\* SearchRooms by the address of the round, which may have changed hands.
FindRoom ==
  /\ \E b \in round :
       /\ round' = round \ {b}
       /\ found' = found \cup
            {[id |-> b.id, addr |-> b.addr, room |-> r, at |-> now] :
               r \in {q \in Rooms : lobby[q] = b.addr}}
  /\ UNCHANGED <<now, lobby, tables, manual, scanVars, bounds>>

\* The answer is saved under the record of the round, merged or not.
SaveRoomObservation ==
  /\ \E f \in found :
       /\ found' = found \ {f}
       /\ server' = [server EXCEPT ![f.id].room = f.room, ![f.id].seen = f.at,
                                   ![f.id].active = TRUE]
       /\ keySeen' = KeysUpserted(f.id, f.room, f.addr, f.at)
       /\ spared' = IF phase = "choose" THEN spared \cup {f.id} ELSE spared
       /\ saw' = IF phase = "pages" /\ f.at >= started THEN saw \cup {f.id} ELSE saw
  /\ UNCHANGED <<now, lobby, founder, manual, phase, started, waiting, round, bounds>>

\* No token, an error of the API or of the database: the poll leaves nothing.
PollFails ==
  /\ \/ \E b \in round : round' = round \ {b} /\ UNCHANGED found
     \/ \E f \in found : found' = found \ {f} /\ UNCHANGED round
  /\ UNCHANGED <<now, lobby, tables, manual, scanVars, bounds>>

Next ==
  \/ Tick
  \/ Relist
  \/ Restart
  \/ StartScan
  \/ SavePage
  \/ DeactivateUnseen
  \/ MergeDuplicateRooms
  \/ BeginRules
  \/ ApplyTrackingRules
  \/ ScanFails
  \/ StartRound
  \/ FindRoom
  \/ SaveRoomObservation
  \/ PollFails

Spec == Init /\ [][Next]_vars

-----------------------------------------------------------------------------
(* Safety *)

\* A record is merged into an older one.  So whatever merges pile up, in one
\* statement or over many scans, the pointers never form a cycle, and from
\* every record they lead to a canonical one.
MergesLeadToOlder ==
  \A s \in Records :
    server[s].into # None => server[s].into < s /\ server[s].into \in Records

\* A room gets at most one record of its own, however it moves, whatever
\* pages and polls save it and in which order: resolveOrCreateServer never
\* creates a second one.  Duplicates come from polls that find a known room
\* at another record's address.
OneRecordPerRoom ==
  \A s, u \in Records : founder[s] = founder[u] => s = u

-----------------------------------------------------------------------------
(* Action properties *)

\* DeactivateUnseen compares last_seen_at with the start of the scan while the
\* tracker writes it from clock readings of its own.  What was found since the
\* scan began, by one of its pages or by a poll although the pages missed it,
\* this scan does not deactivate, unless a poll had found the record before
\* the scan began and its answer was still to be saved then: only such an
\* answer can move last_seen_at back behind the start.
SeenSurvivesScan ==
  [][\A s \in saw \ waiting :
       server[s].active /\ server'[s].into = None => server'[s].active]_vars

\* ADR 0008 bounds the number of polls: once the rules are applied, the
\* servers tracked beyond the list are at most TRACK_AUTO_MAX_SERVERS, but
\* for those polled while the rules ran; and every listed server is tracked.
RulesBoundTracking ==
  [][ApplyTrackingRules =>
       /\ Cardinality({s \in Tracked' : server[s].addr \notin manual})
            <= AutoMax + Cardinality(spared)
       /\ Listed \subseteq Tracked']_vars

-----------------------------------------------------------------------------
(* What the documentation says and the code does not do *)

\* ADR 0004 and the comment on server.merged_into_server_id: there are no
\* chains, a merge points at a canonical record.
NoChains ==
  \A s \in Records :
    server[s].into # None => server[server[s].into].into = None

=============================================================================
