---------------------------- MODULE CatalogProofs ----------------------------
(***************************************************************************)
(* What the catalog keeps for any rooms, addresses and bounds: rows are    *)
(* well typed, merges lead to older records, a room is the founder of one  *)
(* record at most, a scan deactivates what was found since it began only   *)
(* if an earlier answer was on its way, and the rules bound the number of  *)
(* servers that are tracked.                                               *)
(***************************************************************************)
EXTENDS Catalog, FiniteSetTheorems, TLAPS

-----------------------------------------------------------------------------
(* The inductive invariant *)

\* A record still has the ROOM_ID key it was created with.
FoundersAreKeys ==
  \A s \in Records : founder[s] \in Rooms /\ keySeen[s][founder[s]] # Never

\* The scan runs inside the life of the clock.  An answer from before it was
\* under way when it began, so a record without one that was found since is
\* marked no older than the scan.
SawIsFresh ==
  /\ started <= now
  /\ phase # "pages" => saw = {}
  /\ phase = "pages" => \A f \in found : f.at < started => f.id \in waiting
  /\ \A s \in saw \ waiting : server[s].seen >= started

\* A poll knows the record it polls for; its answer is not from the future.
PollsAreKnown ==
  /\ \A b \in round : b.id \in Records
  /\ \A f \in found : f.id \in Records /\ f.at <= now

IInv ==
  /\ TypeOK
  /\ MergesLeadToOlder
  /\ FoundersAreKeys
  /\ OneRecordPerRoom
  /\ SawIsFresh
  /\ PollsAreKnown

-----------------------------------------------------------------------------
(* Rows *)

\* A row that was never written is not a record.
LEMMA BlankIsNoServer == Blank \notin Server
  BY CatalogAssumption DEF Blank, Server

\* A row is a record exactly when it is of the type of records.
LEMMA RecordRow ==
  ASSUME TypeOK, NEW s \in Ids
  PROVE  s \in Records <=> server[s] \in Server
  BY BlankIsNoServer DEF TypeOK, Records

\* The record a key resolves to is a record.
LEMMA CanonIsRecord ==
  ASSUME TypeOK, MergesLeadToOlder, NEW s \in Records
  PROVE  Canon(s) \in Records /\ Canon(s) <= s
<1>1. s \in Int
  BY CatalogAssumption DEF Records, Ids
<1>2. CASE server[s].into = None
  BY <1>1, <1>2 DEF Canon
<1>3. CASE server[s].into # None
  <2>1. server[s].into < s /\ server[s].into \in Records
    BY <1>3 DEF MergesLeadToOlder
  <2>2. server[s].into \in Int
    BY <2>1, CatalogAssumption DEF Records, Ids
  <2> QED BY <1>1, <1>3, <2>1, <2>2 DEF Canon
<1> QED BY <1>2, <1>3

\* Rewriting records by records leaves the set of records as it is.
LEMMA SameRecords ==
  ASSUME TypeOK, server' \in [Ids -> Server \cup {Blank}],
         \A s \in Ids : server'[s] \in Server <=> server[s] \in Server
  PROVE  Records' = Records
  BY BlankIsNoServer DEF TypeOK, Records

\* The first records satisfy the invariant.
LEMMA InitIInv == Init => IInv
<1> SUFFICES ASSUME Init PROVE IInv
  OBVIOUS
<1> USE CatalogAssumption, FirstRecordsAssumption
<1>1. PICK n \in 0 .. MaxServers :
        /\ FirstRecords \in [1 .. n -> Rooms \X Addresses]
        /\ \A i, j \in 1 .. n : FirstRecords[i][1] = FirstRecords[j][1] => i = j
  OBVIOUS
<1>2. DOMAIN FirstRecords = 1 .. n /\ 1 .. n \subseteq Ids
  BY <1>1 DEF Ids
<1>3. \A s \in 1 .. n : FirstRecords[s][1] \in Rooms /\ FirstRecords[s][2] \in Addresses
  BY <1>1
<1>4. \A s \in 1 .. n : NewRecord(FirstRecords[s][1], FirstRecords[s][2], 0) \in Server
  BY <1>3 DEF NewRecord, Server, Time, None
<1>5. server \in [Ids -> Server \cup {Blank}] /\ Records = 1 .. n
  <2>1. server = [s \in Ids |-> IF s \in 1 .. n
                    THEN NewRecord(FirstRecords[s][1], FirstRecords[s][2], 0) ELSE Blank]
    BY <1>2 DEF Init
  <2> QED BY <1>2, <1>4, <2>1, BlankIsNoServer DEF Records
<1>6. \A s \in Records : server[s].into = None /\ founder[s] = FirstRecords[s][1]
  BY <1>2, <1>5 DEF Init, NewRecord
<1>7. keySeen \in [Ids -> [Rooms \cup Addresses -> Time \cup {Never}]]
  BY DEF Init, Time, Never
<1>8. founder \in [Ids -> Rooms \cup {Nowhere}]
  BY <1>2, <1>3 DEF Init
<1>9. TypeOK
  <2>1. 0 \in Time /\ 0 \in 0 .. MaxMoves /\ 0 \in 0 .. MaxRestarts
    BY DEF Time
  <2>2. lobby \in [Rooms -> Addresses \cup {Nowhere}] /\ manual \subseteq Addresses
    BY DEF Init
  <2> QED BY <1>5, <1>7, <1>8, <2>1, <2>2 DEF Init, TypeOK
<1>10. MergesLeadToOlder /\ SawIsFresh /\ PollsAreKnown
  <2>1. MergesLeadToOlder
    BY <1>6 DEF MergesLeadToOlder
  <2>2. SawIsFresh /\ PollsAreKnown
    BY DEF SawIsFresh, PollsAreKnown, Init
  <2> QED BY <2>1, <2>2
<1>11. FoundersAreKeys
  <2> SUFFICES ASSUME NEW s \in 1 .. n
               PROVE  founder[s] \in Rooms /\ keySeen[s][founder[s]] # Never
    BY <1>5 DEF FoundersAreKeys
  <2>1. founder[s] = FirstRecords[s][1] /\ founder[s] \in Rooms /\ s \in Ids
    BY <1>2, <1>3, <1>5, <1>6
  <2>2. keySeen[s][founder[s]] = 0
    BY <1>2, <2>1 DEF Init
  <2> QED BY <2>1, <2>2 DEF Never
<1>12. OneRecordPerRoom
  BY <1>1, <1>5, <1>6 DEF OneRecordPerRoom
<1> QED BY <1>9, <1>10, <1>11, <1>12 DEF IInv

-----------------------------------------------------------------------------
(* What the steps share *)

\* Records that keep their pointers, founders and keys keep what is said of them.
LEMMA RecordsRewritten ==
  ASSUME IInv, Records' = Records,
         \A s \in Records : server'[s].into = server[s].into /\ founder'[s] = founder[s],
         \A s \in Records, r \in Rooms : keySeen[s][r] # Never => keySeen'[s][r] # Never
  PROVE  MergesLeadToOlder' /\ FoundersAreKeys' /\ OneRecordPerRoom'
<1>1. MergesLeadToOlder'
  BY DEF IInv, MergesLeadToOlder
<1>2. FoundersAreKeys'
  BY DEF IInv, FoundersAreKeys
<1>3. OneRecordPerRoom'
  BY DEF IInv, OneRecordPerRoom
<1> QED BY <1>1, <1>2, <1>3

\* Steps that do not write the tables.
LEMMA TablesUnchanged ==
  ASSUME IInv, UNCHANGED tables
  PROVE  Records' = Records /\ MergesLeadToOlder' /\ FoundersAreKeys' /\ OneRecordPerRoom'
<1>1. Records' = Records
  BY DEF tables, Records
<1> QED BY <1>1, RecordsRewritten DEF tables

\* An upsert of keys sets two of them and forgets none.
LEMMA UpsertedKeys ==
  ASSUME TypeOK, NEW s \in Ids, NEW r \in Rooms, NEW a \in Addresses, NEW t \in Time
  PROVE  /\ KeysUpserted(s, r, a, t) \in [Ids -> [Rooms \cup Addresses -> Time \cup {Never}]]
         /\ KeysUpserted(s, r, a, t)[s][r] # Never
         /\ \A u \in Ids, v \in Rooms \cup Addresses :
              keySeen[u][v] # Never => KeysUpserted(s, r, a, t)[u][v] # Never
<1> DEFINE K == KeysUpserted(s, r, a, t)
<1>1. K = [u \in Ids |-> [v \in Rooms \cup Addresses |->
             IF u = s /\ v \in {r, a} THEN t ELSE keySeen[u][v]]]
  BY DEF KeysUpserted, TypeOK
<1>2. t # Never
  BY CatalogAssumption DEF Time, Never
<1> HIDE DEF K
<1>3. K \in [Ids -> [Rooms \cup Addresses -> Time \cup {Never}]]
  BY <1>1 DEF TypeOK
<1>4. K[s][r] # Never
  BY <1>1, <1>2
<1>5. \A u \in Ids, v \in Rooms \cup Addresses : keySeen[u][v] # Never => K[u][v] # Never
  BY <1>1, <1>2
<1> QED BY <1>3, <1>4, <1>5 DEF K

-----------------------------------------------------------------------------
(* The lobby, the clock, the rounds of the tracker *)

\* Time passes and no table is written.
LEMMA TickKeepsIInv == ASSUME IInv, Tick PROVE IInv'
<1> USE CatalogAssumption DEF IInv
<1>1. Records' = Records /\ MergesLeadToOlder' /\ FoundersAreKeys' /\ OneRecordPerRoom'
  BY TablesUnchanged DEF Tick
<1>2. TypeOK'
  <2>1. now' \in Time
    BY DEF Tick, TypeOK, Time
  <2> QED BY <1>1, <2>1 DEF Tick, TypeOK, tables, scanVars, pollVars, bounds
<1>3. SawIsFresh'
  BY DEF Tick, TypeOK, Time, SawIsFresh, tables, scanVars, pollVars
<1>4. PollsAreKnown'
  BY <1>1 DEF Tick, TypeOK, Time, PollsAreKnown, pollVars, Answer
<1> QED BY <1>1, <1>2, <1>3, <1>4

\* The lobby changes and the catalog does not know of it yet.
LEMMA RelistKeepsIInv == ASSUME IInv, Relist PROVE IInv'
<1> USE CatalogAssumption DEF IInv
<1>1. Records' = Records /\ MergesLeadToOlder' /\ FoundersAreKeys' /\ OneRecordPerRoom'
  BY TablesUnchanged DEF Relist
<1>2. TypeOK'
  <2>1. lobby' \in [Rooms -> Addresses \cup {Nowhere}]
    BY DEF Relist, TypeOK
  <2>2. moves' \in 0 .. MaxMoves
    BY DEF Relist, TypeOK
  <2> QED BY <1>1, <2>1, <2>2 DEF Relist, TypeOK, tables, scanVars, pollVars
<1>3. SawIsFresh' /\ PollsAreKnown'
  BY <1>1 DEF Relist, SawIsFresh, PollsAreKnown, tables, scanVars, pollVars
<1> QED BY <1>1, <1>2, <1>3

\* A restart forgets what the scan and the round remembered; the tables stay.
LEMMA RestartKeepsIInv == ASSUME IInv, Restart PROVE IInv'
<1> USE CatalogAssumption DEF IInv
<1>1. Records' = Records /\ MergesLeadToOlder' /\ FoundersAreKeys' /\ OneRecordPerRoom'
  BY TablesUnchanged DEF Restart
<1>2. TypeOK'
  <2>1. started' \in Time /\ restarts' \in 0 .. MaxRestarts
    BY DEF Restart, TypeOK, Time
  <2>2. manual' \subseteq Addresses
    BY DEF Restart
  <2> QED BY <1>1, <2>1, <2>2 DEF Restart, TypeOK, tables
<1>3. SawIsFresh' /\ PollsAreKnown'
  BY DEF Restart, TypeOK, Time, SawIsFresh, PollsAreKnown
<1> QED BY <1>1, <1>2, <1>3

\* The polls of a round are for tracked records.
LEMMA StartRoundKeepsIInv == ASSUME IInv, StartRound PROVE IInv'
<1> USE CatalogAssumption DEF IInv
<1>1. Records' = Records /\ MergesLeadToOlder' /\ FoundersAreKeys' /\ OneRecordPerRoom'
  BY TablesUnchanged DEF StartRound
<1>2. \A b \in round' : b.id \in Records /\ b \in Poll
  BY RecordRow DEF StartRound, Tracked, Canonical, Records, Poll, Server
<1>3. TypeOK'
  BY <1>1, <1>2 DEF StartRound, TypeOK, tables, scanVars, bounds
<1>4. SawIsFresh' /\ PollsAreKnown'
  BY <1>1, <1>2 DEF StartRound, SawIsFresh, PollsAreKnown, tables, scanVars
<1> QED BY <1>1, <1>3, <1>4

\* An answer to a poll is for the record of the poll.
LEMMA FindRoomKeepsIInv == ASSUME IInv, FindRoom PROVE IInv'
<1> USE CatalogAssumption DEF IInv
<1>1. Records' = Records /\ MergesLeadToOlder' /\ FoundersAreKeys' /\ OneRecordPerRoom'
  BY TablesUnchanged DEF FindRoom
<1>2. round' \subseteq round
  BY DEF FindRoom
<1>3. \A f \in found' : f \in Answer /\ f.id \in Records /\ f.at <= now
  BY DEF FindRoom, TypeOK, PollsAreKnown, Poll, Answer, Time
<1>4. TypeOK'
  BY <1>1, <1>2, <1>3 DEF FindRoom, TypeOK, tables, scanVars, bounds
<1>5. SawIsFresh'
  <2>1. \A f \in found' : f \in found \/ f.at = now
    BY DEF FindRoom
  <2>2. ~(now < started)
    BY DEF SawIsFresh, TypeOK, Time
  <2> QED BY <2>1, <2>2 DEF FindRoom, SawIsFresh, tables, scanVars
<1>6. PollsAreKnown'
  BY <1>1, <1>2, <1>3 DEF FindRoom, PollsAreKnown
<1> QED BY <1>1, <1>4, <1>5, <1>6

\* A poll that fails leaves the other polls as they are.
LEMMA PollFailsKeepsIInv == ASSUME IInv, PollFails PROVE IInv'
<1> USE CatalogAssumption DEF IInv
<1>1. Records' = Records /\ MergesLeadToOlder' /\ FoundersAreKeys' /\ OneRecordPerRoom'
  BY TablesUnchanged DEF PollFails
<1>2. round' \subseteq round /\ found' \subseteq found
  BY DEF PollFails
<1>3. TypeOK'
  BY <1>1, <1>2 DEF PollFails, TypeOK, tables, scanVars, bounds
<1>4. SawIsFresh' /\ PollsAreKnown'
  BY <1>1, <1>2 DEF PollFails, SawIsFresh, PollsAreKnown, tables, scanVars
<1> QED BY <1>1, <1>3, <1>4

-----------------------------------------------------------------------------
(* The scan *)

\* A scan starts with no record found, and with the answers that wait.
LEMMA StartScanKeepsIInv == ASSUME IInv, StartScan PROVE IInv'
<1> USE CatalogAssumption DEF IInv
<1>1. Records' = Records /\ MergesLeadToOlder' /\ FoundersAreKeys' /\ OneRecordPerRoom'
  BY TablesUnchanged DEF StartScan
<1>2. TypeOK'
  <2>1. waiting' \subseteq Records'
    BY <1>1 DEF StartScan, PollsAreKnown
  <2> QED BY <1>1, <2>1 DEF StartScan, TypeOK, tables, pollVars, bounds
<1>3. SawIsFresh'
  <2>1. waiting' = {f.id : f \in found} /\ saw' = {} /\ started' = now /\ now' = now
    BY DEF StartScan
  <2>2. \A f \in found' : f.id \in waiting'
    BY <2>1 DEF StartScan, pollVars
  <2> QED BY <2>1, <2>2 DEF SawIsFresh, TypeOK, Time
<1>4. PollsAreKnown'
  BY <1>1 DEF StartScan, PollsAreKnown, pollVars
<1> QED BY <1>1, <1>2, <1>3, <1>4

\* A scan that fails leaves the tables as its last transaction did.
LEMMA ScanFailsKeepsIInv == ASSUME IInv, ScanFails PROVE IInv'
<1> USE CatalogAssumption DEF IInv
<1>1. Records' = Records /\ MergesLeadToOlder' /\ FoundersAreKeys' /\ OneRecordPerRoom'
  BY TablesUnchanged DEF ScanFails
<1>2. started' \in Time /\ started' <= now
  BY DEF ScanFails, ScanEnds, TypeOK, Time
<1>3. TypeOK'
  BY <1>1, <1>2 DEF ScanFails, ScanEnds, TypeOK, tables, pollVars, bounds
<1>4. SawIsFresh' /\ PollsAreKnown'
  BY <1>1, <1>2 DEF ScanFails, ScanEnds, SawIsFresh, PollsAreKnown, pollVars
<1> QED BY <1>1, <1>3, <1>4

\* When the rules begin, no record has been spared yet.
LEMMA BeginRulesKeepsIInv == ASSUME IInv, BeginRules PROVE IInv'
<1> USE CatalogAssumption DEF IInv
<1>1. Records' = Records /\ MergesLeadToOlder' /\ FoundersAreKeys' /\ OneRecordPerRoom'
  BY TablesUnchanged DEF BeginRules
<1>2. TypeOK'
  BY <1>1 DEF BeginRules, TypeOK, tables, pollVars, bounds
<1>3. SawIsFresh' /\ PollsAreKnown'
  BY <1>1 DEF BeginRules, SawIsFresh, PollsAreKnown, tables, pollVars
<1> QED BY <1>1, <1>2, <1>3

\* A room with no known key founds a record: no record can have been founded
\* by it before, or its ROOM_ID would be known.
LEMMA CreateServerKeepsIInv ==
  ASSUME IInv, SavePage, NEW r \in Rooms, lobby[r] # Nowhere, CreateServer(r, lobby[r])
  PROVE  IInv'
<1> USE CatalogAssumption DEF IInv
<1> DEFINE a == lobby[r]
<1>1. a \in Addresses /\ now \in Time /\ now \in Nat
  BY DEF TypeOK, Time
<1>2. PICK s \in Ids :
        /\ s \notin Records
        /\ server' = [server EXCEPT ![s] = NewRecord(r, a, now)]
        /\ keySeen' = KeysUpserted(s, r, a, now)
        /\ founder' = [founder EXCEPT ![s] = r]
        /\ saw' = saw \cup {s}
  BY DEF CreateServer
<1> HIDE DEF a
<1>3. NewRecord(r, a, now) \in Server
  BY <1>1 DEF NewRecord, Server
<1>4. server' \in [Ids -> Server \cup {Blank}] /\ Records' = Records \cup {s}
  BY <1>2, <1>3, BlankIsNoServer DEF TypeOK, Records
<1>5. /\ keySeen' \in [Ids -> [Rooms \cup Addresses -> Time \cup {Never}]]
      /\ keySeen'[s][r] # Never
      /\ \A u \in Ids, v \in Rooms \cup Addresses : keySeen[u][v] # Never => keySeen'[u][v] # Never
  <2> DEFINE K == KeysUpserted(s, r, a, now)
  <2>1. /\ K \in [Ids -> [Rooms \cup Addresses -> Time \cup {Never}]]
        /\ K[s][r] # Never
        /\ \A u \in Ids, v \in Rooms \cup Addresses : keySeen[u][v] # Never => K[u][v] # Never
    BY <1>1, UpsertedKeys
  <2> HIDE DEF K
  <2>2. keySeen' = K
    BY <1>2 DEF K
  <2> QED BY <2>1, <2>2
<1>6. \A u \in Records : keySeen[u][r] = Never
  BY DEF CreateServer, Known, Holders
<1>7. \A u \in Records : /\ u # s /\ u \in Ids
                          /\ server'[u] = server[u] /\ founder'[u] = founder[u]
  BY <1>2 DEF TypeOK, Records
<1>8. server'[s] = NewRecord(r, a, now) /\ founder'[s] = r
  BY <1>2 DEF TypeOK
<1>9. TypeOK'
  <2>1. founder' \in [Ids -> Rooms \cup {Nowhere}]
    BY <1>2 DEF TypeOK
  <2> QED BY <1>2, <1>4, <1>5, <2>1 DEF SavePage, TypeOK, pollVars, bounds
<1>10. MergesLeadToOlder'
  <2> SUFFICES ASSUME NEW u \in Records', server'[u].into # None
               PROVE  server'[u].into < u /\ server'[u].into \in Records'
    BY DEF MergesLeadToOlder
  <2>1. u # s
    BY <1>8 DEF NewRecord
  <2> QED BY <1>4, <1>7, <2>1 DEF MergesLeadToOlder
<1>11. FoundersAreKeys'
  <2> SUFFICES ASSUME NEW u \in Records'
               PROVE  founder'[u] \in Rooms /\ keySeen'[u][founder'[u]] # Never
    BY DEF FoundersAreKeys
  <2>1. CASE u = s
    BY <1>5, <1>8, <2>1
  <2>2. CASE u \in Records
    <3>1. founder[u] \in Rooms /\ keySeen[u][founder[u]] # Never
      BY <2>2 DEF FoundersAreKeys
    <3> QED BY <1>5, <1>7, <2>2, <3>1
  <2> QED BY <1>4, <2>1, <2>2
<1>12. OneRecordPerRoom'
  BY <1>4, <1>6, <1>7, <1>8 DEF OneRecordPerRoom, FoundersAreKeys
<1>13. SawIsFresh'
  <2>1. server'[s].seen = now
    BY <1>8 DEF NewRecord
  <2>2. \A u \in saw : server'[u].seen = server[u].seen
    BY <1>7 DEF TypeOK
  <2> QED BY <1>2, <2>1, <2>2 DEF SavePage, SawIsFresh, pollVars
<1>14. PollsAreKnown'
  BY <1>4 DEF SavePage, PollsAreKnown, pollVars
<1> QED BY <1>9, <1>10, <1>11, <1>12, <1>13, <1>14

\* Writing `room', `seen' and `active' of a record, and its two keys, keeps
\* everything but the types of the other variables: what a page does to a
\* record it resolved and a poll to the record of its round.
LEMMA RecordSaved ==
  ASSUME IInv, NEW s \in Records, NEW r \in Rooms, NEW a \in Addresses, NEW t \in Time,
         NEW x \in Addresses,
         server' = [server EXCEPT ![s].addr = x, ![s].room = r, ![s].seen = t,
                                  ![s].active = TRUE],
         keySeen' = KeysUpserted(s, r, a, t),
         founder' = founder
  PROVE  /\ server' \in [Ids -> Server \cup {Blank}]
         /\ keySeen' \in [Ids -> [Rooms \cup Addresses -> Time \cup {Never}]]
         /\ Records' = Records
         /\ \A u \in Ids : u # s => server'[u] = server[u]
         /\ server'[s].seen = t
         /\ MergesLeadToOlder' /\ FoundersAreKeys' /\ OneRecordPerRoom'
<1> USE DEF IInv
<1>1. s \in Ids /\ server[s] \in Server
  BY RecordRow DEF Records
<1>2. server'[s] = [server[s] EXCEPT !.addr = x, !.room = r, !.seen = t, !.active = TRUE]
  BY <1>1 DEF TypeOK
<1>3. server'[s] \in Server /\ server'[s].into = server[s].into /\ server'[s].seen = t
  <2> DEFINE z == [server[s] EXCEPT !.addr = x, !.room = r, !.seen = t, !.active = TRUE]
  <2>1. z.into = server[s].into /\ z.seen = t
    BY <1>1 DEF Server
  <2>2. z \in Server
    BY <1>1 DEF Server
  <2> HIDE DEF z
  <2>3. server'[s] = z
    BY <1>2 DEF z
  <2> QED BY <2>1, <2>2, <2>3
<1>4. \A u \in Ids : u # s => server'[u] = server[u]
  BY <1>1 DEF TypeOK
<1>5. server' \in [Ids -> Server \cup {Blank}]
  <2>1. server' = [u \in Ids |-> server'[u]]
    BY <1>1 DEF TypeOK
  <2>2. \A u \in Ids : server'[u] \in Server \cup {Blank}
    BY <1>3, <1>4 DEF TypeOK
  <2> QED BY <2>1, <2>2
<1>6. Records' = Records
  BY <1>1, <1>3, <1>4, <1>5, SameRecords
<1> DEFINE K == KeysUpserted(s, r, a, t)
<1>7. /\ K \in [Ids -> [Rooms \cup Addresses -> Time \cup {Never}]]
      /\ \A u \in Ids, v \in Rooms \cup Addresses : keySeen[u][v] # Never => K[u][v] # Never
  BY <1>1, UpsertedKeys
<1>8. keySeen' = K
  OBVIOUS
<1> HIDE DEF K
<1>9. MergesLeadToOlder' /\ FoundersAreKeys' /\ OneRecordPerRoom'
  <2>1. \A u \in Records : server'[u].into = server[u].into /\ founder'[u] = founder[u]
    BY <1>3, <1>4 DEF Records
  <2>2. \A u \in Records, q \in Rooms : keySeen[u][q] # Never => keySeen'[u][q] # Never
    BY <1>7, <1>8 DEF Records
  <2> QED BY <1>6, <2>1, <2>2, RecordsRewritten
<1> QED BY <1>3, <1>4, <1>5, <1>6, <1>7, <1>8, <1>9

\* A room of a page is saved under the record it resolves to.
LEMMA UpdateServerKeepsIInv ==
  ASSUME IInv, SavePage, NEW r \in Rooms, lobby[r] # Nowhere, UpdateServer(r, lobby[r])
  PROVE  IInv'
<1> USE CatalogAssumption DEF IInv
<1>1. lobby[r] \in Addresses /\ now \in Time /\ now \in Nat
  BY DEF TypeOK, Time
<1>2. PICK s \in Resolved(r, lobby[r]) :
        /\ server' = [server EXCEPT ![s].addr = lobby[r], ![s].room = r, ![s].seen = now,
                                    ![s].active = TRUE]
        /\ keySeen' = KeysUpserted(s, r, lobby[r], now)
        /\ saw' = saw \cup {s}
        /\ UNCHANGED founder
  BY DEF UpdateServer
<1>3. s \in Records
  <2>1. PICK u \in Records : s = Canon(u)
    BY DEF Resolved, Latest, Holders
  <2> QED BY <2>1, CanonIsRecord
<1>4. /\ server' \in [Ids -> Server \cup {Blank}]
      /\ keySeen' \in [Ids -> [Rooms \cup Addresses -> Time \cup {Never}]]
      /\ Records' = Records
      /\ \A u \in Ids : u # s => server'[u] = server[u]
      /\ server'[s].seen = now
      /\ MergesLeadToOlder' /\ FoundersAreKeys' /\ OneRecordPerRoom'
  BY <1>1, <1>2, <1>3, RecordSaved
<1>5. TypeOK'
  BY <1>2, <1>3, <1>4 DEF SavePage, TypeOK, pollVars, bounds
<1>6. SawIsFresh'
  <2>1. \A u \in saw' \ waiting : server'[u].seen >= started
    BY <1>1, <1>2, <1>4 DEF TypeOK, Records, SawIsFresh, Time
  <2> QED BY <2>1 DEF SavePage, SawIsFresh, pollVars
<1>7. PollsAreKnown'
  BY <1>4 DEF SavePage, PollsAreKnown, pollVars
<1> QED BY <1>4, <1>5, <1>6, <1>7

\* A room of a page is new or known.
LEMMA SavePageKeepsIInv == ASSUME IInv, SavePage PROVE IInv'
<1>1. PICK r \in Rooms : /\ lobby[r] # Nowhere
                         /\ CreateServer(r, lobby[r]) \/ UpdateServer(r, lobby[r])
  BY DEF SavePage
<1>2. CASE CreateServer(r, lobby[r])
  BY <1>1, <1>2, CreateServerKeepsIInv
<1>3. CASE UpdateServer(r, lobby[r])
  BY <1>1, <1>3, UpdateServerKeepsIInv
<1> QED BY <1>1, <1>2, <1>3

\* A poll writes what it found under the record it was asked for.
LEMMA SaveRoomKeepsIInv == ASSUME IInv, SaveRoomObservation PROVE IInv'
<1> USE CatalogAssumption DEF IInv
<1>1. PICK f \in found :
        /\ found' = found \ {f}
        /\ server' = [server EXCEPT ![f.id].room = f.room, ![f.id].seen = f.at,
                                    ![f.id].active = TRUE]
        /\ keySeen' = KeysUpserted(f.id, f.room, f.addr, f.at)
        /\ spared' = IF phase = "choose" THEN spared \cup {f.id} ELSE spared
        /\ saw' = IF phase = "pages" /\ f.at >= started THEN saw \cup {f.id} ELSE saw
  BY DEF SaveRoomObservation
<1> DEFINE s == f.id
<1>2. /\ s \in Records /\ f.room \in Rooms /\ f.addr \in Addresses
      /\ f.at \in Time /\ f.at \in Nat
  BY DEF TypeOK, Answer, PollsAreKnown, Time
<1>3. s \in Ids /\ server[s] \in Server /\ server[s].addr \in Addresses
  BY <1>2, RecordRow DEF Records, Server
<1>4. server' = [server EXCEPT ![s].addr = server[s].addr, ![s].room = f.room,
                               ![s].seen = f.at, ![s].active = TRUE]
  <2>1. [server[s] EXCEPT !.room = f.room, !.seen = f.at, !.active = TRUE]
          = [server[s] EXCEPT !.addr = server[s].addr, !.room = f.room, !.seen = f.at,
                              !.active = TRUE]
    BY <1>3 DEF Server
  <2> QED BY <1>1, <1>3, <2>1 DEF TypeOK
<1>5. /\ server' \in [Ids -> Server \cup {Blank}]
      /\ keySeen' \in [Ids -> [Rooms \cup Addresses -> Time \cup {Never}]]
      /\ Records' = Records
      /\ \A u \in Ids : u # s => server'[u] = server[u]
      /\ server'[s].seen = f.at
      /\ MergesLeadToOlder' /\ FoundersAreKeys' /\ OneRecordPerRoom'
  BY <1>1, <1>2, <1>3, <1>4, RecordSaved DEF SaveRoomObservation
<1>6. TypeOK'
  BY <1>1, <1>2, <1>5 DEF SaveRoomObservation, TypeOK, bounds
<1>7. SawIsFresh'
  <2>1. \A u \in saw' \ waiting : server'[u].seen >= started
    BY <1>1, <1>2, <1>5 DEF TypeOK, Records, SawIsFresh, Time
  <2> QED BY <1>1, <2>1 DEF SaveRoomObservation, SawIsFresh
<1>8. PollsAreKnown'
  BY <1>1, <1>5 DEF SaveRoomObservation, PollsAreKnown
<1> QED BY <1>5, <1>6, <1>7, <1>8

\* Deactivating is no merge and rewrites no key.
LEMMA DeactivateKeepsIInv == ASSUME IInv, DeactivateUnseen PROVE IInv'
<1> USE CatalogAssumption DEF IInv
<1>1. \A s \in Ids : server'[s] \in {server[s], [server[s] EXCEPT !.active = FALSE]}
                      /\ (s \notin Records => server'[s] = server[s])
  BY DEF DeactivateUnseen, Canonical
<1>2. \A s \in Records : server'[s] \in Server /\ server'[s].into = server[s].into
  <2> SUFFICES ASSUME NEW s \in Records
               PROVE  server'[s] \in Server /\ server'[s].into = server[s].into
    OBVIOUS
  <2>1. s \in Ids /\ server[s] \in Server
    BY RecordRow DEF Records
  <2> QED BY <1>1, <2>1 DEF Server
<1>3. server' \in [Ids -> Server \cup {Blank}] /\ Records' = Records
  <2>1. server' = [s \in Ids |-> server'[s]]
    BY DEF DeactivateUnseen
  <2>2. \A s \in Ids : server'[s] \in Server \cup {Blank}
    BY <1>1, <1>2 DEF TypeOK
  <2>3. \A s \in Ids : server'[s] \in Server <=> server[s] \in Server
    BY <1>1, <1>2, RecordRow
  <2>4. server' \in [Ids -> Server \cup {Blank}]
    BY <2>1, <2>2
  <2> QED BY <2>3, <2>4, SameRecords
<1>4. MergesLeadToOlder' /\ FoundersAreKeys' /\ OneRecordPerRoom'
  BY <1>2, <1>3, RecordsRewritten DEF DeactivateUnseen
<1>5. started' \in Time /\ started' <= now
  BY DEF DeactivateUnseen, TypeOK, Time
<1>6. TypeOK'
  BY <1>3, <1>5 DEF DeactivateUnseen, TypeOK, pollVars, bounds
<1>7. SawIsFresh' /\ PollsAreKnown'
  BY <1>3, <1>5 DEF DeactivateUnseen, SawIsFresh, PollsAreKnown, pollVars
<1> QED BY <1>4, <1>6, <1>7

\* The rules write the tracking source of records and nothing else.
LEMMA RulesKeepIInv == ASSUME IInv, ApplyTrackingRules PROVE IInv'
<1> USE CatalogAssumption DEF IInv
<1>1. PICK auto \in SUBSET Eligible :
        server' = [s \in Ids |-> IF s \in Records
                                 THEN [server[s] EXCEPT !.source = RuleFor(s, auto)]
                                 ELSE server[s]]
  BY DEF ApplyTrackingRules
<1>2. \A s \in Records : server'[s] \in Server /\ server'[s].into = server[s].into
  <2> SUFFICES ASSUME NEW s \in Records
               PROVE  server'[s] \in Server /\ server'[s].into = server[s].into
    OBVIOUS
  <2>1. s \in Ids /\ server[s] \in Server
    BY RecordRow DEF Records
  <2>2. RuleFor(s, auto) \in {"NULL", "MANUAL", "AUTO"}
    BY <2>1 DEF RuleFor, Server
  <2>3. server'[s] = [server[s] EXCEPT !.source = RuleFor(s, auto)]
    BY <1>1, <2>1
  <2> QED BY <2>1, <2>2, <2>3 DEF Server
<1>3. server' \in [Ids -> Server \cup {Blank}] /\ Records' = Records
  <2>1. \A s \in Ids : s \notin Records => server'[s] = server[s]
    BY <1>1
  <2>2. server' = [s \in Ids |-> server'[s]]
    BY <1>1
  <2>3. \A s \in Ids : server'[s] \in Server \cup {Blank}
    BY <1>2, <2>1 DEF TypeOK
  <2>4. \A s \in Ids : server'[s] \in Server <=> server[s] \in Server
    BY <1>2, <2>1, RecordRow
  <2>5. server' \in [Ids -> Server \cup {Blank}]
    BY <2>2, <2>3
  <2> QED BY <2>4, <2>5, SameRecords
<1>4. MergesLeadToOlder' /\ FoundersAreKeys' /\ OneRecordPerRoom'
  BY <1>2, <1>3, RecordsRewritten DEF ApplyTrackingRules
<1>5. started' \in Time /\ started' <= now
  BY DEF ApplyTrackingRules, ScanEnds, TypeOK, Time
<1>6. TypeOK'
  BY <1>3, <1>5 DEF ApplyTrackingRules, ScanEnds, TypeOK, pollVars, bounds
<1>7. SawIsFresh' /\ PollsAreKnown'
  BY <1>3, <1>5 DEF ApplyTrackingRules, ScanEnds, SawIsFresh, PollsAreKnown, pollVars
<1> QED BY <1>4, <1>6, <1>7

-----------------------------------------------------------------------------
(* The merge *)

\* Whichever of its updates a row gets: it stays a record, and if its pointer
\* changes it leads to an older record.
LEMMA OutcomesOfMerge ==
  ASSUME IInv, NEW s \in Ids, NEW x \in Outcomes(s)
  PROVE  /\ x \in Server <=> server[s] \in Server
         /\ x \in Server \cup {Blank}
         /\ x.into # server[s].into => x.into < s /\ x.into \in Records
<1> USE CatalogAssumption DEF IInv
<1>1. CASE x = server[s]
  BY <1>1 DEF TypeOK
<1>2. ASSUME NEW k \in Records, s \in Victims(k), x = MergedInto(s, k)
      PROVE  x \in Server /\ server[s] \in Server /\ x.into < s /\ x.into \in Records
  <2>1. PICK r \in Rooms : IsKept(k, r) /\ s \in OwnersOf(r) /\ s # k
    BY <1>2 DEF Victims
  <2>2. s \in Records /\ server[s] \in Server /\ k \in Ids
    BY <1>2, RecordRow DEF Victims, Canonical, Records
  <2>3. k < s
    <3>1. k <= s
      BY <2>1 DEF IsKept
    <3> QED BY <2>1, <2>2, <3>1 DEF Ids
  <2>4. x \in Server /\ x.into = k
    BY <1>2, <2>2 DEF MergedInto, Server
  <2> QED BY <2>2, <2>3, <2>4
<1>3. ASSUME NEW v \in Donors(s), x = Moved(s, v)
      PROVE  x \in Server /\ server[s] \in Server /\ x.into = server[s].into
  <2>1. v \in Records /\ v \in Ids /\ server[v] \in Server
    BY RecordRow DEF Donors, Victims, Canonical, Records
  <2>2. PICK r \in Rooms : s \in OwnersOf(r)
    BY <1>3 DEF Donors, Victims, IsKept
  <2>3. PICK u \in Records : s = Canon(u)
    BY <2>2 DEF OwnersOf, Holders
  <2>4. s \in Records /\ server[s] \in Server
    BY <2>3, CanonIsRecord, RecordRow
  <2>5. Moved(s, v) \in Server /\ Moved(s, v).into = server[s].into
    BY <2>1, <2>4 DEF Moved, Server
  <2> QED BY <1>3, <2>4, <2>5
<1>4. CASE MergedRows(s) \cup MovedRows(s) = {}
  BY <1>1, <1>4 DEF Outcomes
<1>5. CASE MergedRows(s) \cup MovedRows(s) # {}
  <2>1. x \in MergedRows(s) \/ x \in MovedRows(s)
    BY <1>5 DEF Outcomes
  <2>2. CASE x \in MergedRows(s)
    BY <1>2, <2>2 DEF MergedRows
  <2>3. CASE x \in MovedRows(s)
    BY <1>3, <2>3 DEF MovedRows
  <2> QED BY <2>1, <2>2, <2>3
<1> QED BY <1>4, <1>5

\* The statement of the merge leaves each row with one of its updates.
LEMMA MergeKeepsIInv == ASSUME IInv, MergeDuplicateRooms PROVE IInv'
<1> USE CatalogAssumption DEF IInv
<1>1. \A s \in Ids :
        /\ server'[s] \in Server <=> server[s] \in Server
        /\ server'[s] \in Server \cup {Blank}
        /\ server'[s].into # server[s].into =>
             server'[s].into < s /\ server'[s].into \in Records
  BY OutcomesOfMerge DEF MergeDuplicateRooms
<1>2. server' \in [Ids -> Server \cup {Blank}]
  <2>1. server' = [s \in Ids |-> server'[s]]
    BY DEF MergeDuplicateRooms
  <2> QED BY <1>1, <2>1
<1>3. Records' = Records
  BY <1>1, <1>2, SameRecords
<1>4. MergesLeadToOlder'
  BY <1>1, <1>3 DEF MergesLeadToOlder, Records
<1>5. FoundersAreKeys' /\ OneRecordPerRoom'
  BY <1>3 DEF MergeDuplicateRooms, FoundersAreKeys, OneRecordPerRoom
<1>6. TypeOK'
  BY <1>2, <1>3 DEF MergeDuplicateRooms, TypeOK, pollVars, bounds
<1>7. SawIsFresh' /\ PollsAreKnown'
  BY <1>3 DEF MergeDuplicateRooms, SawIsFresh, PollsAreKnown, pollVars
<1> QED BY <1>4, <1>5, <1>6, <1>7

-----------------------------------------------------------------------------
\* Every step keeps the invariant.
LEMMA NextIInv == IInv /\ [Next]_vars => IInv'
<1> SUFFICES ASSUME IInv, [Next]_vars PROVE IInv'
  OBVIOUS
<1>1. CASE Tick \/ Relist \/ Restart
  BY <1>1, TickKeepsIInv, RelistKeepsIInv, RestartKeepsIInv
<1>2. CASE StartScan \/ SavePage \/ DeactivateUnseen \/ ScanFails
  BY <1>2, StartScanKeepsIInv, SavePageKeepsIInv, DeactivateKeepsIInv, ScanFailsKeepsIInv
<1>3. CASE MergeDuplicateRooms \/ BeginRules \/ ApplyTrackingRules
  BY <1>3, MergeKeepsIInv, BeginRulesKeepsIInv, RulesKeepIInv
<1>4. CASE StartRound \/ FindRoom \/ SaveRoomObservation \/ PollFails
  BY <1>4, StartRoundKeepsIInv, FindRoomKeepsIInv, SaveRoomKeepsIInv, PollFailsKeepsIInv
<1>5. CASE UNCHANGED vars
  <2>1. Records' = Records /\ MergesLeadToOlder' /\ FoundersAreKeys' /\ OneRecordPerRoom'
    BY <1>5, TablesUnchanged DEF vars, tables
  <2>2. TypeOK' /\ SawIsFresh' /\ PollsAreKnown'
    BY <1>5, <2>1 DEF vars, IInv, TypeOK, SawIsFresh, PollsAreKnown
  <2> QED BY <2>1, <2>2 DEF IInv
<1> QED BY <1>1, <1>2, <1>3, <1>4, <1>5 DEF Next

-----------------------------------------------------------------------------
(* The theorems *)

\* The inductive invariant holds in every reachable state.
THEOREM Invariance == Spec => []IInv
<1> QED BY InitIInv, NextIInv, PTL DEF Spec

\* Every row of server and server_identity_key, every poll and every step of
\* the scan is of its type.
THEOREM CatalogTypeCorrect == Spec => []TypeOK
<1>1. IInv => TypeOK
  BY DEF IInv
<1> QED BY <1>1, Invariance, PTL

\* However many merges pile up, their pointers lead to older records and so
\* never form a cycle.
THEOREM MergesHaveNoCycles == Spec => []MergesLeadToOlder
<1>1. IInv => MergesLeadToOlder
  BY DEF IInv
<1> QED BY <1>1, Invariance, PTL

\* No room is given a second record of its own.
THEOREM RoomsFoundOneRecord == Spec => []OneRecordPerRoom
<1>1. IInv => OneRecordPerRoom
  BY DEF IInv
<1> QED BY <1>1, Invariance, PTL

\* A record that a page or a poll has found since the scan began is not
\* deactivated by this scan, unless a poll had found it before and its answer
\* was still to be saved when the scan began.
THEOREM ScanKeepsWhatItSaw == Spec => SeenSurvivesScan
<1>1. IInv /\ [Next]_vars =>
        [\A s \in saw \ waiting :
           server[s].active /\ server'[s].into = None => server'[s].active]_vars
  <2> SUFFICES ASSUME IInv, Next, NEW s \in saw \ waiting, server[s].active,
                      server'[s].into = None
               PROVE  server'[s].active
    OBVIOUS
  <2> USE CatalogAssumption DEF IInv
  <2>1. s \in Ids /\ s \in Records /\ server[s] \in Server /\ phase = "pages"
    BY RecordRow DEF TypeOK, Records, SawIsFresh
  <2>2. CASE DeactivateUnseen
    <3>1. ~Unseen(s)
      BY <2>1 DEF SawIsFresh, Unseen, Server, TypeOK, Time
    <3> QED BY <2>1, <2>2, <3>1 DEF DeactivateUnseen
  <2>3. CASE SavePage
    <3>1. CASE \E r \in Rooms : CreateServer(r, lobby[r])
      BY <2>1, <3>1 DEF CreateServer, TypeOK
    <3>2. CASE \E r \in Rooms : UpdateServer(r, lobby[r])
      BY <2>1, <3>2 DEF UpdateServer, TypeOK
    <3> QED BY <2>3, <3>1, <3>2 DEF SavePage
  <2>4. CASE SaveRoomObservation
    BY <2>1, <2>4 DEF SaveRoomObservation, TypeOK
  <2>5. CASE UNCHANGED server
    BY <2>5
  <2>6. DeactivateUnseen \/ SavePage \/ SaveRoomObservation \/ UNCHANGED server
    BY <2>1 DEF Next, tables, Tick, Relist, Restart, StartScan, MergeDuplicateRooms,
           BeginRules, ApplyTrackingRules, ScanFails, StartRound, FindRoom, PollFails
  <2> QED BY <2>2, <2>3, <2>4, <2>5, <2>6
<1> QED BY <1>1, Invariance, PTL DEF Spec, SeenSurvivesScan

\* What the rules leave of a record: only the source it is tracked by.
LEMMA RuledRow ==
  ASSUME IInv, NEW auto,
         server' = [s \in Ids |-> IF s \in Records
                                  THEN [server[s] EXCEPT !.source = RuleFor(s, auto)]
                                  ELSE server[s]],
         NEW s \in Ids
  PROVE  /\ s \in Records => server[s] \in Server /\ server'[s].source = RuleFor(s, auto)
         /\ s \in Canonical => s \in Canonical'
         /\ s \in Canonical' => s \in Canonical
<1> USE CatalogAssumption
<1>1. s \in Records => server[s] \in Server
  BY RecordRow DEF IInv, TypeOK, Records
<1>2. CASE s \in Records
  <2>1. server'[s] = [server[s] EXCEPT !.source = RuleFor(s, auto)]
    BY <1>2
  <2>2. server'[s].source = RuleFor(s, auto) /\ server'[s].into = server[s].into
        /\ server'[s].addr = server[s].addr
    BY <1>1, <1>2, <2>1 DEF Server
  <2>3. server'[s] # Blank
    <3>1. server[s].addr \in Addresses
      BY <1>1, <1>2 DEF Server
    <3> QED BY <2>2, <3>1 DEF Blank
  <2>4. s \in Canonical <=> s \in Canonical'
    BY <1>2, <2>2, <2>3 DEF Canonical, Records
  <2> QED BY <1>1, <1>2, <2>2, <2>4
<1>3. CASE s \notin Records
  <2>1. server'[s] = server[s]
    BY <1>3
  <2>2. server[s] = Blank
    BY <1>3 DEF Records
  <2> QED BY <1>3, <2>1, <2>2 DEF Canonical, Records
<1> QED BY <1>2, <1>3

\* One application of the rules: the tracked servers are canonical, every listed
\* one is among them, and of the others no more than TRACK_AUTO_MAX_SERVERS and
\* those polled meanwhile.
LEMMA RulesChoose ==
  ASSUME IInv, ApplyTrackingRules
  PROVE  /\ Tracked' \subseteq Canonical
         /\ Listed \subseteq Tracked'
         /\ IsFiniteSet({s \in Tracked' : server[s].addr \notin manual})
         /\ Cardinality({s \in Tracked' : server[s].addr \notin manual})
              <= AutoMax + Cardinality(spared)
<1>1. PICK auto \in SUBSET Eligible :
        /\ Cardinality(auto) <= AutoMax
        /\ server' = [s \in Ids |-> IF s \in Records
                                    THEN [server[s] EXCEPT !.source = RuleFor(s, auto)]
                                    ELSE server[s]]
  BY DEF ApplyTrackingRules
<1>2. auto \subseteq Ids /\ spared \subseteq Ids /\ Listed \subseteq Ids
      /\ auto \subseteq Canonical /\ Listed \subseteq Canonical
  BY DEF IInv, TypeOK, Eligible, Canonical, Records, Listed
<1>3. ASSUME NEW s, s \in Tracked'
      PROVE  s \in Canonical /\ s \in Ids /\ RuleFor(s, auto) # "NULL"
  <2>1. s \in Ids /\ s \in Canonical' /\ server'[s].source # "NULL"
    BY <1>3 DEF Tracked, Canonical, Records
  <2>2. s \in Canonical
    BY <1>1, <2>1, RuledRow
  <2>3. server'[s].source = RuleFor(s, auto)
    BY <1>1, <2>1, <2>2, RuledRow DEF Canonical
  <2> QED BY <2>1, <2>2, <2>3
<1>4. Listed \subseteq Tracked'
  <2> SUFFICES ASSUME NEW s \in Listed PROVE s \in Tracked'
    OBVIOUS
  <2>1. s \in Canonical /\ s \in Ids
    BY <1>2
  <2>2. RuleFor(s, auto) # "NULL"
    BY DEF RuleFor
  <2>3. s \in Canonical'
    BY <1>1, <2>1, RuledRow
  <2>4. server'[s].source = RuleFor(s, auto)
    BY <1>1, <2>1, RuledRow DEF Canonical
  <2> QED BY <2>2, <2>3, <2>4 DEF Tracked
<1>5. PICK beyond : beyond = {s \in Tracked' : server[s].addr \notin manual}
  OBVIOUS
<1>6. beyond \subseteq auto \cup spared
  <2> SUFFICES ASSUME NEW s, s \in Tracked', server[s].addr \notin manual
               PROVE  s \in auto \cup spared
    BY <1>5
  <2>1. s \notin Listed
    BY DEF Listed
  <2>2. RuleFor(s, auto) # "NULL"
    BY <1>3
  <2>3. ASSUME s \notin auto, s \notin spared PROVE RuleFor(s, auto) = "NULL"
    BY <2>1, <2>3 DEF RuleFor
  <2> QED BY <2>2, <2>3
<1>7. IsFiniteSet(beyond) /\ Cardinality(beyond) <= AutoMax + Cardinality(spared)
  <2>1. IsFiniteSet(Ids)
    BY CatalogAssumption, FS_Interval DEF Ids
  <2>2. IsFiniteSet(auto) /\ IsFiniteSet(spared)
    BY <1>2, <2>1, FS_Subset
  <2>3. IsFiniteSet(auto \cup spared)
        /\ Cardinality(auto \cup spared)
             = Cardinality(auto) + Cardinality(spared) - Cardinality(auto \cap spared)
    BY <2>2, FS_Union
  <2>4. Cardinality(beyond) <= Cardinality(auto \cup spared)
    BY <1>6, <2>3, FS_Subset
  <2>5. IsFiniteSet(auto \cap spared) /\ IsFiniteSet(beyond)
    BY <1>6, <2>2, <2>3, FS_Subset
  <2>6. /\ Cardinality(auto \cap spared) \in Nat /\ Cardinality(auto) \in Nat
        /\ Cardinality(spared) \in Nat /\ Cardinality(beyond) \in Nat
    BY <2>2, <2>5, FS_CardinalityType
  <2>7. AutoMax \in Nat /\ Cardinality(auto) <= AutoMax
    BY <1>1, CatalogAssumption
  <2> QED BY <2>3, <2>4, <2>5, <2>6, <2>7
<1> QED BY <1>3, <1>4, <1>5, <1>7

\* Once the rules are applied, every listed server is tracked, and of the
\* others no more than TRACK_AUTO_MAX_SERVERS and those polled meanwhile.
THEOREM TrackingIsBounded == Spec => RulesBoundTracking
<1> DEFINE Bounded == /\ Cardinality({s \in Tracked' : server[s].addr \notin manual})
                           <= AutoMax + Cardinality(spared)
                      /\ Listed \subseteq Tracked'
<1>1. IInv => [ApplyTrackingRules => Bounded]_vars
  BY RulesChoose
<1> QED BY <1>1, Invariance, PTL DEF Spec, RulesBoundTracking

\* What the tables do not demand: an address has one canonical record.
AddressesAreOwn ==
  \A s, u \in Canonical : server[s].addr = server[u].addr => s = u

\* Nothing but a shared address breaks the bound of ADR 0008: while every
\* address has one canonical record, and no poll runs beside the rules, they
\* leave at most len(MANUAL) + MAX servers tracked.
THEOREM OwnAddressesBoundPolls ==
  ASSUME IsFiniteSet(Addresses)
  PROVE  Spec => [][AddressesAreOwn /\ ApplyTrackingRules /\ spared = {} =>
                      Cardinality(Tracked') <= Cardinality(manual) + AutoMax]_vars
<1> DEFINE Bound == AddressesAreOwn /\ ApplyTrackingRules /\ spared = {} =>
                      Cardinality(Tracked') <= Cardinality(manual) + AutoMax
<1>1. IInv => Bound
  <2> SUFFICES ASSUME IInv, AddressesAreOwn, ApplyTrackingRules, spared = {}
               PROVE  Cardinality(Tracked') <= Cardinality(manual) + AutoMax
    OBVIOUS
  <2>1. PICK beyond : beyond = {s \in Tracked' : server[s].addr \notin manual}
    OBVIOUS
  <2>2. Tracked' \subseteq Canonical /\ Listed \subseteq Tracked'
    BY RulesChoose
  <2>3. IsFiniteSet(beyond) /\ Cardinality(beyond) <= AutoMax + Cardinality(spared)
    BY <2>1, RulesChoose
  <2>4. Cardinality(beyond) <= AutoMax /\ Cardinality(beyond) \in Nat
    BY <2>3, CatalogAssumption, FS_CardinalityType, FS_EmptySet
  <2>5. IsFiniteSet(Listed) /\ Cardinality(Listed) <= Cardinality(manual)
    <3>1. IsFiniteSet(manual)
      BY FS_Subset DEF IInv, TypeOK
    <3>2. [s \in Listed |-> server[s].addr] \in Injection(Listed, manual)
      BY DEF Injection, IsInjective, Listed, AddressesAreOwn
    <3> QED BY <3>1, <3>2, FS_Injection
  <2>6. Tracked' = Listed \cup beyond
    BY <2>1, <2>2 DEF Listed
  <2>7. Listed \cap beyond = {}
    BY <2>1 DEF Listed
  <2>8. Cardinality(Tracked') = Cardinality(Listed) + Cardinality(beyond)
    <3>1. Cardinality(Listed \cup beyond)
            = Cardinality(Listed) + Cardinality(beyond) - Cardinality(Listed \cap beyond)
      BY <2>3, <2>5, FS_Union
    <3>2. Cardinality(Listed \cap beyond) = 0
      BY <2>7, FS_EmptySet
    <3>3. Cardinality(Listed) \in Nat
      BY <2>5, FS_CardinalityType
    <3> QED BY <2>4, <2>6, <3>1, <3>2, <3>3
  <2>9. Cardinality(Listed) \in Nat /\ Cardinality(manual) \in Nat /\ AutoMax \in Nat
    <3>1. IsFiniteSet(manual)
      BY FS_Subset DEF IInv, TypeOK
    <3> QED BY <2>5, <3>1, FS_CardinalityType, CatalogAssumption
  <2> QED BY <2>4, <2>5, <2>8, <2>9
<1>2. IInv => [Bound]_vars
  BY <1>1
<1> QED BY <1>2, Invariance, PTL DEF Spec

=============================================================================
