------------------------ MODULE PlayerIdentityProofs ------------------------
(***************************************************************************)
(* What the row locks of player_identity protect, for any number of        *)
(* transactions, players and nicknames.                                    *)
(***************************************************************************)
EXTENDS PlayerIdentity, WellFoundedInduction, TLAPS

-----------------------------------------------------------------------------
(* The inductive invariant *)

\* A row is written by one transaction at a time.
LocksAreExclusive ==
  \A s, t \in Servers, p \in Players : Holds(s, p) /\ Holds(t, p) => s = t

\* The players of an observation are upserted one after the other and once:
\* who is still to come has no row yet, and only who has one has events.
TurnsAreTaken(s) ==
  Open(s) =>
    /\ tx[s].todo \cup tx[s].turn \subseteq DOMAIN tx[s].names
    /\ \A p \in tx[s].todo \cup tx[s].turn : ~Holds(s, p)
    /\ \A p \in Players : Holds(s, p) => p \in DOMAIN tx[s].names
    /\ \A p, q \in tx[s].turn : p = q
    /\ tx[s].todo \cap tx[s].turn = {}
    /\ \A e \in tx[s].events : Holds(s, e.player)

\* A row that was read is still there, by the same id and with its nickname
\* among the aliases; it is the row as it is if nobody came in between.
ReadsAreRows(s) ==
  Open(s) =>
    \A p \in tx[s].turn :
      /\ tx[s].read # NoRow =>
           /\ identity[p] # NoRow
           /\ identity[p].id = tx[s].read.id
           /\ alias[p][tx[s].read.nick] # Never
      /\ p \notin tx[s].crossed => tx[s].read = identity[p]

\* What a transaction is going to write to the rows it holds, whose committed
\* versions nobody else can change.
UpsertsAreDue(s) ==
  \A p \in Players : Holds(s, p) =>
    LET nick == tx[s].names[p]
        at   == tx[s].at
    IN  /\ tx[s].rows[p] = Upserted(identity[p], nick, at, <<s, at>>)
        /\ tx[s].marks[p] = AliasMark(p, nick, at)
        /\ tx[s].refs[p] = tx[s].rows[p].id

\* An announced nickname was an alias, and the new one is the row's.
EventsAreKept(s) ==
  Open(s) =>
    \A e \in tx[s].events :
      /\ alias[e.player][e.old] # Never
      /\ e.new = tx[s].names[e.player]

\* The events in hand announce the change the row goes through.
ChangesAreDue(s) ==
  \A p \in Players :
    Holds(s, p) /\ p \notin tx[s].crossed =>
      {e \in tx[s].events : e.player = p} =
        NicknameEvents(p, identity[p], tx[s].names[p])

InOrder(s) ==
  /\ TurnsAreTaken(s)
  /\ ReadsAreRows(s)
  /\ UpsertsAreDue(s)
  /\ EventsAreKept(s)
  /\ ChangesAreDue(s)

\* Who is not known was never sighted.
UnknownAreUnseen ==
  \A p \in Players : identity[p] = NoRow =>
    \A n \in Nicks : alias[p][n] = Never /\ sighted[p][n] = Never

IInv ==
  /\ TypeOK
  /\ LocksAreExclusive
  /\ \A s \in Servers : InOrder(s)
  /\ UnknownAreUnseen
  /\ NicknamesAreKept
  /\ MarksAreRecent

-----------------------------------------------------------------------------
(* Types *)

\* What is known of an open transaction and of the tables.
LEMMA Fields ==
  ASSUME TypeOK, NEW s \in Servers, Open(s)
  PROVE  /\ tx[s] \in Transaction
         /\ tx[s].at \in Time
         /\ DOMAIN tx[s].names \subseteq Players
         /\ \A p \in DOMAIN tx[s].names : tx[s].names[p] \in Nicks
         /\ tx[s].todo \subseteq Players /\ tx[s].turn \subseteq Players
         /\ tx[s].read \in Row \cup {NoRow}
         /\ \A p \in Players : tx[s].rows[p] \in Row \cup {NoRow}
         /\ tx[s].events \subseteq Event
<1>1. tx[s] \in Transaction
  BY DEF TypeOK, Open, NoTransaction
<1>2. PICK some \in SUBSET Players : tx[s].names \in [some -> Nicks]
  BY <1>1 DEF Transaction
<1> QED BY <1>1, <1>2 DEF Transaction

\* A row is not the row that is missing.
LEMMA RowsExist == NoRow \notin Row
BY DEF NoRow, Row, Never, Time

\* The numbers.
LEMMA Numbers ==
  /\ Touch \in Nat /\ MaxTime \in Nat
  /\ \A t \in Time : t \in Nat
  /\ Never \notin Time /\ Never \in Int
BY IdentityAssumption DEF Time, Never

\* Faithful to ON CONFLICT DO UPDATE: the row that is left has the nickname,
\* and its mark is the newest or recent enough.
LEMMA UpsertedRow ==
  ASSUME NEW row \in Row \cup {NoRow}, NEW nick \in Nicks, NEW t \in Time, NEW id \in Id,
         NEW u, u = Upserted(row, nick, t, id)
  PROVE  /\ u \in Row
         /\ u # NoRow
         /\ u.nick = nick
         /\ row # NoRow => u.id = row.id
         /\ row = NoRow => u.seen = t
         /\ row # NoRow => \/ u.seen = Later(row.seen, t)
                           \/ u.seen = row.seen /\ row.seen >= t - Touch
<1>1. CASE row = NoRow
  <2>1. u = [id |-> id, nick |-> nick, seen |-> t]
    BY <1>1 DEF Upserted
  <2>2. u \in Row
    BY <2>1 DEF Row
  <2> QED BY <1>1, <2>1, <2>2, RowsExist
<1>2. CASE row # NoRow
  <2>1. row \in Row
    BY <1>2
  <2>2. Later(row.seen, t) \in Time
    BY <2>1 DEF Later, Row
  <2>3. CASE Written(row, nick, t)
    <3>1. u = [row EXCEPT !.nick = nick, !.seen = Later(row.seen, t)]
      BY <1>2, <2>3 DEF Upserted
    <3>2. u \in Row /\ u.nick = nick /\ u.id = row.id /\ u.seen = Later(row.seen, t)
      BY <2>1, <2>2, <3>1 DEF Row
    <3> QED BY <1>2, <3>2, RowsExist
  <2>4. CASE ~Written(row, nick, t)
    <3>1. u = row
      BY <1>2, <2>4 DEF Upserted
    <3>2. row.nick = nick /\ ~(row.seen < t - Touch)
      BY <2>4 DEF Written, Outdated
    <3>3. row.seen >= t - Touch
      BY <2>1, <3>2, Numbers DEF Row
    <3> QED BY <1>2, <2>1, <3>1, <3>2, <3>3, RowsExist
  <2> QED BY <2>3, <2>4
<1> QED BY <1>1, <1>2

\* The mark an alias is given.
LEMMA MarkedAlias ==
  ASSUME TypeOK, NEW p \in Players, NEW nick \in Nicks, NEW t \in Time
  PROVE  /\ AliasMark(p, nick, t) \in Time
         /\ AliasMark(p, nick, t) # Never
         /\ \/ AliasMark(p, nick, t) = t /\ (alias[p][nick] = Never \/ alias[p][nick] < t - Touch)
            \/ AliasMark(p, nick, t) = alias[p][nick] /\ alias[p][nick] >= t - Touch
<1>1. alias[p][nick] \in Time \cup {Never}
  BY DEF TypeOK
<1>2. t \in Int /\ alias[p][nick] \in Int /\ Touch \in Int
  BY <1>1, Numbers
<1> QED BY <1>1, <1>2, Numbers DEF AliasMark, Outdated

-----------------------------------------------------------------------------
(* Steps of one transaction that leave the tables alone *)

\* The step of another transaction changes nothing here.
LEMMA OthersStayInOrder ==
  ASSUME NEW s \in Servers, InOrder(s), tx'[s] = tx[s], UNCHANGED <<identity, alias>>
  PROVE  InOrder(s)'
BY DEF InOrder, TurnsAreTaken, ReadsAreRows, UpsertsAreDue, EventsAreKept, ChangesAreDue,
       Open, Holds, AliasMark, NicknameEvents

\* A transaction that begins holds no row.
LEMMA BeginKeepsOrder ==
  ASSUME IInv, NEW s \in Servers, Begin(s)
  PROVE  /\ tx' \in [Servers -> Transaction \cup {NoTransaction}]
         /\ LocksAreExclusive'
         /\ InOrder(s)'
         /\ \A t \in Servers : t # s => tx'[t] = tx[t]
<1>1. PICK some \in SUBSET Players \ {{}} :
        tx' = [tx EXCEPT ![s] =
          [open |-> TRUE, at |-> now, names |-> [p \in some |-> names[p]],
           todo |-> some, turn |-> {}, read |-> NoRow,
           rows |-> [p \in Players |-> NoRow],
           marks |-> [p \in Players |-> Never],
           refs |-> [p \in Players |-> NoId],
           events |-> {}, crossed |-> {}]]
  BY DEF Begin
<1>2. PICK new : new = [open |-> TRUE, at |-> now, names |-> [p \in some |-> names[p]],
                        todo |-> some, turn |-> {}, read |-> NoRow,
                        rows |-> [p \in Players |-> NoRow],
                        marks |-> [p \in Players |-> Never],
                        refs |-> [p \in Players |-> NoId],
                        events |-> {}, crossed |-> {}]
  OBVIOUS
<1>3. tx'[s] = new /\ tx' = [tx EXCEPT ![s] = new] /\ \A t \in Servers : t # s => tx'[t] = tx[t]
  BY <1>1, <1>2 DEF IInv, TypeOK
<1>4. new \in Transaction
  <2>1. [p \in some |-> names[p]] \in [some -> Nicks] /\ now \in Time
    BY DEF IInv, TypeOK
  <2>2. [p \in some |-> names[p]] \in UNION {[x -> Nicks] : x \in SUBSET Players}
    BY <2>1
  <2> QED BY <1>2, <2>1, <2>2 DEF Transaction
<1>5. tx' \in [Servers -> Transaction \cup {NoTransaction}]
  BY <1>3, <1>4 DEF IInv, TypeOK
<1>6. \A p \in Players : ~Holds(s, p)'
  BY <1>2, <1>3 DEF Holds
<1>7. LocksAreExclusive'
  BY <1>3, <1>6 DEF IInv, LocksAreExclusive, Holds, Open
<1>8. InOrder(s)'
  <2>1. TurnsAreTaken(s)'
    BY <1>2, <1>3, <1>6 DEF TurnsAreTaken
  <2>2. ReadsAreRows(s)' /\ EventsAreKept(s)'
    BY <1>2, <1>3 DEF ReadsAreRows, EventsAreKept
  <2> QED BY <1>6, <2>1, <2>2 DEF InOrder, UpsertsAreDue, ChangesAreDue
<1> QED BY <1>3, <1>5, <1>7, <1>8

\* Fail gives up the rows.
LEMMA FailKeepsOrder ==
  ASSUME IInv, NEW s \in Servers, tx' = [tx EXCEPT ![s] = NoTransaction]
  PROVE  /\ tx' \in [Servers -> Transaction \cup {NoTransaction}]
         /\ LocksAreExclusive'
         /\ InOrder(s)'
         /\ \A t \in Servers : t # s => tx'[t] = tx[t]
<1>1. tx'[s] = NoTransaction /\ \A t \in Servers : t # s => tx'[t] = tx[t]
  BY DEF IInv, TypeOK
<1>2. tx' \in [Servers -> Transaction \cup {NoTransaction}]
  BY DEF IInv, TypeOK
<1>3. ~Open(s)' /\ \A p \in Players : ~Holds(s, p)'
  BY <1>1 DEF Open, Holds, NoTransaction
<1>4. LocksAreExclusive'
  BY <1>1, <1>3 DEF IInv, LocksAreExclusive, Holds, Open
<1> QED BY <1>1, <1>2, <1>3, <1>4 DEF InOrder, TurnsAreTaken, ReadsAreRows, UpsertsAreDue,
           EventsAreKept, ChangesAreDue

\* The SELECT reads the committed row.
LEMMA LookupKeepsOrder ==
  ASSUME IInv, NEW s \in Servers, Lookup(s)
  PROVE  /\ tx' \in [Servers -> Transaction \cup {NoTransaction}]
         /\ LocksAreExclusive'
         /\ InOrder(s)'
         /\ \A t \in Servers : t # s => tx'[t] = tx[t]
<1>1. PICK p \in tx[s].todo :
        tx' = [tx EXCEPT ![s].todo = @ \ {p}, ![s].turn = {p}, ![s].read = Looked(p)]
  BY DEF Lookup
<1>2. Open(s) /\ tx[s].turn = {} /\ UNCHANGED <<identity, alias>> /\ TypeOK /\ InOrder(s)
  BY DEF Lookup, tables, IInv
<1>3. p \in Players /\ tx[s] \in Transaction /\ identity[p] \in Row \cup {NoRow}
  BY <1>2, Fields DEF TypeOK
<1>4. PICK new : new = [tx[s] EXCEPT !.todo = @ \ {p}, !.turn = {p}, !.read = identity[p]]
  OBVIOUS
<1>5. tx' = [tx EXCEPT ![s] = new]
  BY <1>1, <1>2, <1>4 DEF TypeOK, Looked
<1>6. /\ new.todo = tx[s].todo \ {p} /\ new.turn = {p} /\ new.read = identity[p]
      /\ new.open = tx[s].open /\ new.at = tx[s].at /\ new.names = tx[s].names
      /\ new.rows = tx[s].rows /\ new.marks = tx[s].marks /\ new.refs = tx[s].refs
      /\ new.events = tx[s].events /\ new.crossed = tx[s].crossed
      /\ new \in Transaction
  BY <1>3, <1>4 DEF Transaction
<1>7. tx'[s] = new /\ \A t \in Servers : t # s => tx'[t] = tx[t]
  BY <1>2, <1>5 DEF TypeOK
<1>8. tx' \in [Servers -> Transaction \cup {NoTransaction}]
  BY <1>2, <1>5, <1>6 DEF TypeOK
<1>9. Open(s)' /\ \A q \in Players : Holds(s, q)' <=> Holds(s, q)
  BY <1>2, <1>6, <1>7 DEF Open, Holds
<1>10. LocksAreExclusive'
  BY <1>7, <1>9 DEF IInv, LocksAreExclusive, Holds, Open
<1>11. TurnsAreTaken(s)'
  <2>1. \A e \in tx[s].events : e.player \in Players /\ Holds(s, e.player)
    BY <1>2, Fields DEF InOrder, TurnsAreTaken, Event
  <2>2. tx[s].todo \subseteq Players
    BY <1>2, Fields
  <2> QED BY <1>2, <1>6, <1>7, <1>9, <2>1, <2>2 DEF InOrder, TurnsAreTaken
<1>12. ReadsAreRows(s)'
  <2>1. identity[p] # NoRow => alias[p][identity[p].nick] # Never
    BY <1>3 DEF IInv, NicknamesAreKept
  <2> QED BY <1>2, <1>6, <1>7, <2>1 DEF ReadsAreRows
<1>13. UpsertsAreDue(s)' /\ EventsAreKept(s)' /\ ChangesAreDue(s)'
  BY <1>2, <1>6, <1>7, <1>9 DEF InOrder, UpsertsAreDue, EventsAreKept, ChangesAreDue,
     AliasMark, NicknameEvents
<1> QED BY <1>7, <1>8, <1>10, <1>11, <1>12, <1>13 DEF InOrder

\* The upsert takes a row that nobody holds, and announces the change from
\* what was read.
LEMMA UpsertKeepsOrder ==
  ASSUME IInv, NEW s \in Servers, Upsert(s)
  PROVE  /\ tx' \in [Servers -> Transaction \cup {NoTransaction}]
         /\ LocksAreExclusive'
         /\ InOrder(s)'
         /\ \A t \in Servers : t # s => tx'[t] = tx[t]
<1> DEFINE nick(p) == tx[s].names[p]
           at == tx[s].at
           read == tx[s].read
<1>1. PICK p \in tx[s].turn :
        /\ Free(p)
        /\ tx' = [tx EXCEPT ![s] = [tx[s] EXCEPT
             !.turn = {},
             !.read = NoRow,
             !.rows[p] = Upserted(identity[p], nick(p), at, <<s, at>>),
             !.marks[p] = AliasMark(p, nick(p), at),
             !.refs[p] = RefOf(read, identity[p], nick(p), at, <<s, at>>),
             !.events = @ \cup NicknameEvents(p, read, nick(p))]]
  BY DEF Upsert
<1>2. Open(s) /\ UNCHANGED <<identity, alias>> /\ TypeOK /\ InOrder(s)
  BY DEF Upsert, tables, IInv
<1>3. /\ p \in Players /\ tx[s] \in Transaction /\ at \in Time /\ nick(p) \in Nicks
      /\ identity[p] \in Row \cup {NoRow} /\ read \in Row \cup {NoRow}
      /\ <<s, at>> \in Id /\ p \in DOMAIN tx[s].names
  BY <1>2, Fields DEF TypeOK, InOrder, TurnsAreTaken, Id
<1>4. PICK row : row = Upserted(identity[p], nick(p), at, <<s, at>>)
  OBVIOUS
<1>5. PICK mark : mark = AliasMark(p, nick(p), at)
  OBVIOUS
<1>6. PICK ref : ref = RefOf(read, identity[p], nick(p), at, <<s, at>>)
  OBVIOUS
<1>7. PICK news : news = NicknameEvents(p, read, nick(p))
  OBVIOUS
<1>8. row \in Row /\ row # NoRow /\ row.nick = nick(p) /\ (identity[p] # NoRow => row.id = identity[p].id)
  BY <1>3, <1>4, UpsertedRow
<1>9. mark \in Time
  BY <1>2, <1>3, <1>5, MarkedAlias
<1>10. ref = row.id
  <2>1. CASE Written(identity[p], nick(p), at)
    BY <1>4, <1>6, <2>1 DEF RefOf
  <2>2. CASE ~Written(identity[p], nick(p), at)
    <3>1. identity[p] # NoRow
      BY <2>2 DEF Written
    <3>2. read # NoRow => read.id = identity[p].id
      BY <1>2 DEF InOrder, ReadsAreRows
    <3> QED BY <1>6, <1>8, <2>2, <3>1, <3>2 DEF RefOf
  <2> QED BY <2>1, <2>2
<1>11. news \subseteq Event /\ \A e \in news : e.player = p /\ e.new = nick(p)
  BY <1>3, <1>7, RowsExist DEF NicknameEvents, Event, Row
<1>12. \A e \in news : alias[p][e.old] # Never
  BY <1>2, <1>7 DEF NicknameEvents, InOrder, ReadsAreRows
<1>13. PICK new : new = [tx[s] EXCEPT !.turn = {}, !.read = NoRow, !.rows[p] = row,
                                       !.marks[p] = mark, !.refs[p] = ref,
                                       !.events = @ \cup news]
  OBVIOUS
<1>14. tx' = [tx EXCEPT ![s] = new]
  <2>1. new = [tx[s] EXCEPT
                 !.turn = {},
                 !.read = NoRow,
                 !.rows[p] = Upserted(identity[p], nick(p), at, <<s, at>>),
                 !.marks[p] = AliasMark(p, nick(p), at),
                 !.refs[p] = RefOf(read, identity[p], nick(p), at, <<s, at>>),
                 !.events = @ \cup NicknameEvents(p, read, nick(p))]
    BY <1>4, <1>5, <1>6, <1>7, <1>13, Zenon
  <2> QED BY <1>1, <2>1, Zenon
<1>15. /\ new.todo = tx[s].todo /\ new.turn = {} /\ new.read = NoRow
       /\ new.open = tx[s].open /\ new.at = tx[s].at /\ new.names = tx[s].names
       /\ new.rows = [tx[s].rows EXCEPT ![p] = row]
       /\ new.marks = [tx[s].marks EXCEPT ![p] = mark]
       /\ new.refs = [tx[s].refs EXCEPT ![p] = ref]
       /\ new.events = tx[s].events \cup news /\ new.crossed = tx[s].crossed
  BY <1>3, <1>13 DEF Transaction
<1>16. new \in Transaction
  <2>1. row.id \in Id
    BY <1>8 DEF Row
  <2>2. /\ tx[s].rows \in [Players -> Row \cup {NoRow}]
        /\ tx[s].marks \in [Players -> Time \cup {Never}]
        /\ tx[s].refs \in [Players -> Id \cup {NoId}]
        /\ tx[s].events \subseteq Event
    BY <1>3 DEF Transaction
  <2>3. /\ new.rows \in [Players -> Row \cup {NoRow}]
        /\ new.marks \in [Players -> Time \cup {Never}]
        /\ new.refs \in [Players -> Id \cup {NoId}]
        /\ new.events \subseteq Event
    BY <1>3, <1>8, <1>9, <1>10, <1>11, <1>15, <2>1, <2>2
  <2> QED BY <1>3, <1>13, <1>15, <2>3 DEF Transaction
<1>17. tx'[s] = new /\ \A t \in Servers : t # s => tx'[t] = tx[t]
  BY <1>2, <1>14 DEF TypeOK
<1>18. tx' \in [Servers -> Transaction \cup {NoTransaction}]
  BY <1>2, <1>14, <1>16 DEF TypeOK
<1>19. Open(s)' /\ \A q \in Players : Holds(s, q)' <=> Holds(s, q) \/ q = p
  BY <1>2, <1>3, <1>8, <1>15, <1>17 DEF Open, Holds, Transaction
<1>20. ~Holds(s, p)
  BY <1>2 DEF InOrder, TurnsAreTaken
<1>21. LocksAreExclusive'
  <2>1. \A t \in Servers : t # s => (\A q \in Players : Holds(t, q)' <=> Holds(t, q))
    BY <1>17 DEF Holds, Open
  <2>2. \A t \in Servers : ~Holds(t, p)
    BY <1>1 DEF Free
  <2> QED BY <1>19, <2>1, <2>2 DEF IInv, LocksAreExclusive
<1>22. TurnsAreTaken(s)'
  <2>1. p \notin tx[s].todo /\ tx[s].todo \subseteq Players
    BY <1>2, Fields DEF InOrder, TurnsAreTaken
  <2>2. \A e \in new.events : e.player \in Players /\ (Holds(s, e.player) \/ e.player = p)
    BY <1>2, <1>3, <1>11, <1>15, Fields DEF InOrder, TurnsAreTaken, Event
  <2> QED BY <1>2, <1>3, <1>15, <1>17, <1>19, <2>1, <2>2 DEF InOrder, TurnsAreTaken
<1>23. ReadsAreRows(s)'
  BY <1>15, <1>17 DEF ReadsAreRows
<1>24. UpsertsAreDue(s)'
  <2>1. ASSUME NEW q \in Players, Holds(s, q), q # p
        PROVE  /\ new.rows[q] = tx[s].rows[q] /\ new.marks[q] = tx[s].marks[q]
               /\ new.refs[q] = tx[s].refs[q]
    BY <1>3, <1>15, <2>1 DEF Transaction
  <2>2. new.rows[p] = row /\ new.marks[p] = mark /\ new.refs[p] = ref
    BY <1>3, <1>15 DEF Transaction
  <2>3. \A q \in Players : AliasMark(q, nick(q), at)' = AliasMark(q, tx'[s].names[q], tx'[s].at)
    BY <1>2 DEF AliasMark
  <2> HIDE DEF nick, at, read
  <2>4. ASSUME NEW q \in Players, Holds(s, q)'
        PROVE  /\ new.rows[q] = Upserted(identity[q], nick(q), at, <<s, at>>)
               /\ new.marks[q] = AliasMark(q, nick(q), at)
               /\ new.refs[q] = new.rows[q].id
    <3>1. CASE q = p
      BY <1>4, <1>5, <1>10, <2>2, <3>1
    <3>2. CASE q # p
      BY <1>2, <1>19, <2>1, <2>4, <3>2 DEF InOrder, UpsertsAreDue, nick, at
    <3> QED BY <3>1, <3>2
  <2>5. ASSUME NEW q \in Players, Holds(s, q)'
        PROVE  /\ (tx[s].rows[q] = Upserted(identity[q], tx[s].names[q], tx[s].at, <<s, tx[s].at>>))'
               /\ (tx[s].marks[q] = AliasMark(q, tx[s].names[q], tx[s].at))'
               /\ (tx[s].refs[q] = tx[s].rows[q].id)'
    <3>1. identity'[q] = identity[q] /\ tx'[s].names[q] = nick(q) /\ tx'[s].at = at
      BY <1>2, <1>15, <1>17 DEF nick, at
    <3>2. AliasMark(q, tx[s].names[q], tx[s].at)' = AliasMark(q, nick(q), at)
      BY <1>2, <3>1 DEF AliasMark
    <3> QED BY <1>17, <2>4, <2>5, <3>1, <3>2
  <2> QED BY <2>5 DEF UpsertsAreDue
<1>25. EventsAreKept(s)'
  BY <1>2, <1>11, <1>12, <1>15, <1>17 DEF InOrder, EventsAreKept
<1>26. ChangesAreDue(s)'
  <2>1. ASSUME NEW q \in Players, Holds(s, q)', q \notin new.crossed
        PROVE  {e \in new.events : e.player = q} = NicknameEvents(q, identity[q], nick(q))
    <3>1. CASE q = p
      <4>1. {e \in new.events : e.player = p} = news
        BY <1>2, <1>11, <1>15, <1>20 DEF InOrder, TurnsAreTaken
      <4>2. read = identity[p]
        BY <1>2, <1>15, <2>1, <3>1 DEF InOrder, ReadsAreRows
      <4> QED BY <1>7, <3>1, <4>1, <4>2
    <3>2. CASE q # p
      <4>1. {e \in new.events : e.player = q} = {e \in tx[s].events : e.player = q}
        BY <1>11, <1>15, <3>2
      <4> QED BY <1>2, <1>15, <1>19, <2>1, <3>2, <4>1 DEF InOrder, ChangesAreDue
    <3> QED BY <3>1, <3>2
  <2> QED BY <1>2, <1>15, <1>17, <2>1 DEF ChangesAreDue, NicknameEvents
<1> QED BY <1>17, <1>18, <1>21, <1>22, <1>23, <1>24, <1>25, <1>26 DEF InOrder

-----------------------------------------------------------------------------
(* The newest sighting *)

Latest(m) ==
  CHOOSE t \in Time \cup {Never} :
    /\ \E n \in Nicks : m[n] = t
    /\ \A n \in Nicks : m[n] <= t

\* There is a newest sighting, whatever the nicknames.
LEMMA LatestExists ==
  ASSUME NEW m \in [Nicks -> Time \cup {Never}]
  PROVE  /\ Latest(m) \in Time \cup {Never}
         /\ \E n \in Nicks : m[n] = Latest(m)
         /\ \A n \in Nicks : m[n] <= Latest(m)
<1> DEFINE T == {MaxTime - m[n] : n \in Nicks}
<1>1. \A n \in Nicks : m[n] \in Int /\ MaxTime - m[n] \in Nat
  BY IdentityAssumption DEF Time, Never
<1>2. T \subseteq Nat /\ T # {}
  BY <1>1, IdentityAssumption
<1>3. PICK t \in T : \A u \in T : ~(<<u, t>> \in OpToRel(<, Nat))
  BY <1>2, NatLessThanWellFounded, WFMin
<1>4. \A u \in T : ~(u < t)
  BY <1>2, <1>3 DEF OpToRel
<1>5. PICK n \in Nicks : t = MaxTime - m[n]
  OBVIOUS
<1>6. ASSUME NEW k \in Nicks PROVE m[k] <= m[n]
  <2>1. MaxTime - m[k] \in T
    OBVIOUS
  <2>2. ~(MaxTime - m[k] < MaxTime - m[n])
    BY <1>4, <1>5, <2>1
  <2> QED BY <1>1, <2>2, IdentityAssumption
<1>7. m[n] \in Time \cup {Never} /\ (\E k \in Nicks : m[k] = m[n])
  OBVIOUS
<1> QED BY <1>6, <1>7 DEF Latest

\* And only one time is it.
LEMMA LatestIsUnique ==
  ASSUME NEW m \in [Nicks -> Time \cup {Never}], NEW k \in Nicks, \A n \in Nicks : m[n] <= m[k]
  PROVE  Latest(m) = m[k]
<1>1. \A n \in Nicks : m[n] \in Int
  BY Numbers
<1>2. PICK j \in Nicks : m[j] = Latest(m)
  BY LatestExists
<1>3. m[j] <= m[k] /\ m[k] <= m[j]
  BY <1>2, LatestExists
<1> QED BY <1>1, <1>2, <1>3

\* One more sighting makes the newest one the later of the two.
LEMMA LatestWithOneMore ==
  ASSUME NEW m \in [Nicks -> Time \cup {Never}], NEW nick \in Nicks, NEW t \in Time,
         NEW l \in [Nicks -> Time \cup {Never}], l = [m EXCEPT ![nick] = Later(@, t)]
  PROVE  Latest(l) = Later(Latest(m), t)
<1>1. t \in Int /\ \A n \in Nicks : m[n] \in Int /\ l[n] \in Int
  BY Numbers
<1>2. l[nick] = Later(m[nick], t) /\ \A n \in Nicks : n # nick => l[n] = m[n]
  OBVIOUS
<1>3. PICK j \in Nicks : m[j] = Latest(m) /\ \A n \in Nicks : m[n] <= m[j]
  BY LatestExists
<1>4. CASE m[j] > t
  <2>1. l[j] = m[j]
    BY <1>2, <1>4 DEF Later
  <2>2. \A n \in Nicks : l[n] <= l[j]
    BY <1>1, <1>2, <1>3, <1>4, <2>1 DEF Later
  <2>3. Latest(l) = m[j]
    BY <2>1, <2>2, LatestIsUnique
  <2> QED BY <1>3, <1>4, <2>3 DEF Later
<1>5. CASE ~(m[j] > t)
  <2>1. ~(m[nick] > t) \/ m[nick] = t
    BY <1>1, <1>3, <1>5
  <2>2. l[nick] = t
    BY <1>2, <2>1 DEF Later
  <2>3. \A n \in Nicks : l[n] <= l[nick]
    BY <1>1, <1>2, <1>3, <1>5, <2>2
  <2>4. Latest(l) = t
    BY <2>2, <2>3, LatestIsUnique
  <2> QED BY <1>3, <1>5, <2>4 DEF Later
<1> QED BY <1>4, <1>5

\* The arithmetic of the coarse marks.
LEMMA MarkAfterSighting ==
  ASSUME NEW mark \in Int, NEW newest \in Int, NEW t \in Int, NEW u \in Int, IsMark(mark, newest),
         u = Later(mark, t) \/ (u = mark /\ mark >= t - Touch) \/ (u = t /\ mark < t - Touch)
  PROVE  IsMark(u, Later(newest, t))
BY IdentityAssumption DEF IsMark, Later

-----------------------------------------------------------------------------
(* The commit *)

\* What a commit does to one player.
LEMMA CommitEffect ==
  ASSUME IInv, NEW s \in Servers, Commit(s), NEW p \in Players
  PROVE  /\ ~Holds(s, p) => /\ identity'[p] = identity[p] /\ alias'[p] = alias[p]
                            /\ sighted'[p] = sighted[p]
         /\ Holds(s, p) =>
              /\ tx[s].names[p] \in Nicks /\ tx[s].at \in Time
              /\ identity'[p] = Upserted(identity[p], tx[s].names[p], tx[s].at, <<s, tx[s].at>>)
              /\ alias'[p] = [alias[p] EXCEPT ![tx[s].names[p]] =
                                AliasMark(p, tx[s].names[p], tx[s].at)]
              /\ sighted'[p] = [sighted[p] EXCEPT ![tx[s].names[p]] = Later(@, tx[s].at)]
<1>1. /\ identity'[p] = (IF Holds(s, p) THEN tx[s].rows[p] ELSE identity[p])
      /\ alias'[p] = (IF Holds(s, p) THEN [alias[p] EXCEPT ![tx[s].names[p]] = tx[s].marks[p]]
                                     ELSE alias[p])
      /\ sighted'[p] = (IF Holds(s, p)
                        THEN [sighted[p] EXCEPT ![tx[s].names[p]] = Later(@, tx[s].at)]
                        ELSE sighted[p])
  BY DEF Commit
<1>2. ASSUME Holds(s, p)
      PROVE  /\ tx[s].names[p] \in Nicks /\ tx[s].at \in Time
             /\ tx[s].rows[p] = Upserted(identity[p], tx[s].names[p], tx[s].at, <<s, tx[s].at>>)
             /\ tx[s].marks[p] = AliasMark(p, tx[s].names[p], tx[s].at)
  <2>1. Open(s) /\ InOrder(s) /\ TypeOK
    BY <1>2 DEF Holds, IInv
  <2>2. p \in DOMAIN tx[s].names
    BY <1>2, <2>1 DEF InOrder, TurnsAreTaken
  <2> QED BY <1>2, <2>1, <2>2, Fields DEF InOrder, UpsertsAreDue
<1> QED BY <1>1, <1>2

\* So the tables keep their types, known players and nicknames.
LEMMA CommittedRows ==
  ASSUME IInv, NEW s \in Servers, Commit(s), NEW p \in Players
  PROVE  /\ identity'[p] \in Row \cup {NoRow}
         /\ identity[p] # NoRow => identity'[p] # NoRow /\ identity'[p].id = identity[p].id
         /\ Holds(s, p) => identity'[p] # NoRow /\ identity'[p].nick = tx[s].names[p]
         /\ alias'[p] \in [Nicks -> Time \cup {Never}]
         /\ sighted'[p] \in [Nicks -> Time \cup {Never}]
         /\ \A n \in Nicks : alias[p][n] # Never => alias'[p][n] # Never
         /\ Holds(s, p) => alias'[p][tx[s].names[p]] # Never
<1>1. /\ identity[p] \in Row \cup {NoRow} /\ alias[p] \in [Nicks -> Time \cup {Never}]
      /\ sighted[p] \in [Nicks -> Time \cup {Never}] /\ TypeOK
  BY DEF IInv, TypeOK
<1>2. CASE ~Holds(s, p)
  BY <1>1, <1>2, CommitEffect
<1>3. CASE Holds(s, p)
  <2>1. PICK nick \in Nicks, t \in Time : nick = tx[s].names[p] /\ t = tx[s].at
    BY <1>3, CommitEffect
  <2>2. <<s, t>> \in Id
    BY DEF Id
  <2>3. /\ identity'[p] = Upserted(identity[p], nick, t, <<s, t>>)
        /\ alias'[p] = [alias[p] EXCEPT ![nick] = AliasMark(p, nick, t)]
        /\ sighted'[p] = [sighted[p] EXCEPT ![nick] = Later(@, t)]
    BY <1>3, <2>1, CommitEffect
  <2>4. /\ identity'[p] \in Row /\ identity'[p] # NoRow /\ identity'[p].nick = nick
        /\ identity[p] # NoRow => identity'[p].id = identity[p].id
    BY <1>1, <2>2, <2>3, UpsertedRow
  <2>5. AliasMark(p, nick, t) \in Time /\ AliasMark(p, nick, t) # Never
    BY <1>1, MarkedAlias
  <2>6. Later(sighted[p][nick], t) \in Time \cup {Never}
    BY <1>1 DEF Later
  <2> QED BY <1>1, <2>1, <2>3, <2>4, <2>5, <2>6
<1> QED BY <1>2, <1>3

\* The marks follow what was sighted.
LEMMA CommitKeepsMarks ==
  ASSUME IInv, NEW s \in Servers, Commit(s)
  PROVE  MarksAreRecent'
<1> SUFFICES ASSUME NEW p \in Players, identity'[p] # NoRow
             PROVE  /\ IsMark(identity'[p].seen, Latest(sighted'[p]))
                    /\ \A n \in Nicks : alias'[p][n] # Never \/ sighted'[p][n] # Never =>
                         IsMark(alias'[p][n], sighted'[p][n])
  BY DEF MarksAreRecent, LastSighted, Latest
<1>1. /\ identity[p] \in Row \cup {NoRow} /\ alias[p] \in [Nicks -> Time \cup {Never}]
      /\ sighted[p] \in [Nicks -> Time \cup {Never}] /\ TypeOK
  BY DEF IInv, TypeOK
<1>2. identity[p] # NoRow =>
        /\ IsMark(identity[p].seen, Latest(sighted[p]))
        /\ \A n \in Nicks : alias[p][n] # Never \/ sighted[p][n] # Never =>
             IsMark(alias[p][n], sighted[p][n])
  BY DEF IInv, MarksAreRecent, LastSighted, Latest
<1>3. identity[p] = NoRow => \A n \in Nicks : alias[p][n] = Never /\ sighted[p][n] = Never
  BY DEF IInv, UnknownAreUnseen
<1>4. CASE ~Holds(s, p)
  BY <1>2, <1>4, CommitEffect
<1>5. CASE Holds(s, p)
  <2>1. PICK nick \in Nicks, t \in Time : nick = tx[s].names[p] /\ t = tx[s].at
    BY <1>5, CommitEffect
  <2>2. <<s, t>> \in Id
    BY DEF Id
  <2>3. /\ identity'[p] = Upserted(identity[p], nick, t, <<s, t>>)
        /\ alias'[p] = [alias[p] EXCEPT ![nick] = AliasMark(p, nick, t)]
        /\ sighted'[p] = [sighted[p] EXCEPT ![nick] = Later(@, t)]
    BY <1>5, <2>1, CommitEffect
  <2>4. PICK newest : newest = Latest(sighted[p])
    OBVIOUS
  <2>5. /\ newest \in Int /\ t \in Nat /\ Touch \in Nat /\ Never = -1
        /\ \A n \in Nicks : alias[p][n] \in Int /\ sighted[p][n] \in Int
    BY <1>1, <2>4, LatestExists, Numbers DEF Never
  <2>6. Latest(sighted'[p]) = Later(newest, t)
    BY <1>1, <2>3, <2>4, LatestWithOneMore, CommittedRows
  <2>7. IsMark(identity'[p].seen, Later(newest, t))
    <3>1. CASE identity[p] = NoRow
      <4>1. newest = Never
        BY <1>1, <1>3, <2>4, <3>1, LatestExists
      <4>2. identity'[p].seen = t
        BY <2>2, <2>3, <3>1, UpsertedRow
      <4> QED BY <2>5, <4>1, <4>2 DEF IsMark, Later
    <3>2. CASE identity[p] # NoRow
      <4>1. identity[p].seen \in Int
        BY <1>1, <3>2, Numbers DEF Row
      <4>2. \/ identity'[p].seen = Later(identity[p].seen, t)
            \/ identity'[p].seen = identity[p].seen /\ identity[p].seen >= t - Touch
        <5>1. PICK row, u : row \in Row \cup {NoRow} /\ row = identity[p] /\ u = identity'[p]
          BY <1>1
        <5>2. u = Upserted(row, nick, t, <<s, t>>) /\ row # NoRow
          BY <2>3, <3>2, <5>1
        <5>3. u.seen = Later(row.seen, t) \/ (u.seen = row.seen /\ row.seen >= t - Touch)
          BY <2>2, <5>1, <5>2, UpsertedRow
        <5> QED BY <5>1, <5>3
      <4>3. identity'[p].seen \in Int
        BY <2>5, <4>1, <4>2 DEF Later
      <4> QED BY <1>2, <2>4, <2>5, <3>2, <4>1, <4>2, <4>3, MarkAfterSighting
    <3> QED BY <3>1, <3>2
  <2>8. IsMark(alias'[p][nick], sighted'[p][nick])
    <3>1. PICK old \in Int, new \in Int, last \in Int :
            old = alias[p][nick] /\ new = alias'[p][nick] /\ last = sighted[p][nick]
      <4>1. alias'[p][nick] \in Int
        <5>1. alias'[p][nick] \in Time \cup {Never}
          BY CommittedRows
        <5> QED BY <5>1, Numbers
      <4> QED BY <2>5, <4>1
    <3>2. /\ sighted'[p][nick] = Later(last, t)
          /\ \/ new = t /\ (old = Never \/ old < t - Touch)
             \/ new = old /\ old >= t - Touch
      BY <1>1, <2>3, <3>1, MarkedAlias
    <3>3. (old = Never /\ last = Never) \/ IsMark(old, last)
      BY <1>2, <1>3, <3>1
    <3>4. CASE old = Never
      BY <2>5, <3>1, <3>2, <3>3, <3>4 DEF IsMark, Later
    <3>5. CASE old # Never
      BY <2>5, <3>1, <3>2, <3>3, <3>5, MarkAfterSighting
    <3> QED BY <3>4, <3>5
  <2>9. ASSUME NEW n \in Nicks, n # nick, alias'[p][n] # Never \/ sighted'[p][n] # Never
        PROVE  IsMark(alias'[p][n], sighted'[p][n])
    <3>1. alias'[p][n] = alias[p][n] /\ sighted'[p][n] = sighted[p][n]
      BY <1>1, <2>3, <2>9
    <3> QED BY <1>2, <1>3, <2>9, <3>1
  <2> QED BY <2>6, <2>7, <2>8, <2>9
<1> QED BY <1>4, <1>5

\* The history of nicknames has both names of the announced changes.
LEMMA CommitKeepsNicknames ==
  ASSUME IInv, NEW s \in Servers, Commit(s)
  PROVE  NicknamesAreKept'
<1>1. Open(s) /\ TypeOK /\ InOrder(s) /\ events' = events \cup tx[s].events
  BY DEF Commit, IInv
<1>2. ASSUME NEW p \in Players, identity'[p] # NoRow
      PROVE  alias'[p][identity'[p].nick] # Never
  <2>1. CASE Holds(s, p)
    BY <2>1, CommittedRows
  <2>2. CASE ~Holds(s, p)
    BY <1>2, <2>2, CommitEffect DEF IInv, NicknamesAreKept
  <2> QED BY <2>1, <2>2
<1>3. ASSUME NEW e \in events
      PROVE  alias'[e.player][e.old] # Never /\ alias'[e.player][e.new] # Never
  <2>1. e.player \in Players /\ e.old \in Nicks /\ e.new \in Nicks
    BY <1>1 DEF TypeOK, Event
  <2> QED BY <2>1, CommittedRows DEF IInv, NicknamesAreKept
<1>4. ASSUME NEW e \in tx[s].events
      PROVE  alias'[e.player][e.old] # Never /\ alias'[e.player][e.new] # Never
  <2>1. e.player \in Players /\ e.old \in Nicks /\ Holds(s, e.player)
    BY <1>1, Fields DEF Event, InOrder, TurnsAreTaken
  <2>2. alias[e.player][e.old] # Never /\ e.new = tx[s].names[e.player]
    BY <1>1 DEF InOrder, EventsAreKept
  <2> QED BY <2>1, <2>2, CommittedRows
<1> QED BY <1>1, <1>2, <1>3, <1>4 DEF NicknamesAreKept

\* What the other transactions are, but for who was crossed.
LEMMA OthersAfterCommit ==
  ASSUME IInv, NEW s \in Servers, Commit(s), NEW t \in Servers, t # s
  PROVE  /\ Open(t)' <=> Open(t)
         /\ \A p \in Players : Holds(t, p)' <=> Holds(t, p)
         /\ ~Open(t) => tx'[t] = tx[t]
         /\ Open(t) => /\ tx'[t] = [tx[t] EXCEPT !.crossed = @ \cup {p \in tx[t].turn : Holds(s, p)}]
                       /\ tx'[t] \in Transaction
<1>1. tx'[t] = Crossed(t, s) /\ TypeOK
  BY DEF Commit, IInv
<1>2. CASE ~Open(t)
  <2>1. tx'[t] = tx[t]
    BY <1>1, <1>2 DEF Crossed
  <2> QED BY <1>2, <2>1 DEF Open, Holds
<1>3. CASE Open(t)
  <2>1. tx'[t] = [tx[t] EXCEPT !.crossed = @ \cup {p \in tx[t].turn : Holds(s, p)}]
    BY <1>1, <1>3 DEF Crossed
  <2>2. PICK waiting : waiting = {p \in tx[t].turn : Holds(s, p)}
    OBVIOUS
  <2>3. tx[t] \in Transaction /\ waiting \subseteq Players
    BY <1>1, <1>3, <2>2, Fields
  <2>4. tx'[t] = [tx[t] EXCEPT !.crossed = @ \cup waiting]
    BY <2>1, <2>2
  <2>5. tx'[t] \in Transaction /\ tx'[t].open = tx[t].open /\ tx'[t].rows = tx[t].rows
    <3>1. PICK both : both = tx[t].crossed \cup waiting
      OBVIOUS
    <3>2. both \in SUBSET Players
      BY <2>3, <3>1 DEF Transaction
    <3>3. PICK old, new : old \in Transaction /\ old = tx[t] /\ new = tx'[t]
      BY <2>3
    <3>4. new = [old EXCEPT !.crossed = both]
      BY <2>4, <3>1, <3>3
    <3>5. old \in Transaction
      BY <3>3
    <3>6. new.open = old.open /\ new.rows = old.rows
      BY <3>4, <3>5 DEF Transaction
    <3>7. new \in Transaction
      BY <3>2, <3>4, <3>5 DEF Transaction
    <3> QED BY <3>3, <3>6, <3>7
  <2> QED BY <1>3, <2>1, <2>5 DEF Open, Holds
<1> QED BY <1>2, <1>3

\* They find the rows they do not wait for as they were.
LEMMA OthersInOrderAfterCommit ==
  ASSUME IInv, NEW s \in Servers, Commit(s), NEW t \in Servers, t # s
  PROVE  InOrder(t)'
<1>1. CASE ~Open(t)
  <2>1. ~Open(t)' /\ \A p \in Players : ~Holds(t, p)'
    BY <1>1, OthersAfterCommit DEF Holds
  <2> QED BY <2>1 DEF InOrder, TurnsAreTaken, ReadsAreRows, UpsertsAreDue, EventsAreKept, ChangesAreDue
<1>2. CASE Open(t)
  <2>1. TypeOK /\ InOrder(t) /\ tx[t] \in Transaction
    BY <1>2, Fields DEF IInv
  <2>2. PICK new : new = tx'[t]
    OBVIOUS
  <2>3. /\ new.todo = tx[t].todo /\ new.turn = tx[t].turn /\ new.read = tx[t].read
        /\ new.at = tx[t].at /\ new.names = tx[t].names
        /\ new.rows = tx[t].rows /\ new.marks = tx[t].marks /\ new.refs = tx[t].refs
        /\ new.events = tx[t].events
        /\ new.crossed = tx[t].crossed \cup {p \in tx[t].turn : Holds(s, p)}
    <3>1. PICK waiting : waiting = {p \in tx[t].turn : Holds(s, p)}
      OBVIOUS
    <3>2. new = [tx[t] EXCEPT !.crossed = @ \cup waiting]
      BY <1>2, <2>2, <3>1, OthersAfterCommit
    <3> QED BY <2>1, <3>1, <3>2 DEF Transaction
  <2>4. Open(t)' /\ \A p \in Players : Holds(t, p)' <=> Holds(t, p)
    BY <1>2, OthersAfterCommit
  <2>5. \A p \in Players : Holds(t, p) => ~Holds(s, p)
    BY DEF IInv, LocksAreExclusive
  <2>6. tx[t].turn \subseteq Players /\ tx[t].todo \subseteq Players /\ tx[t].events \subseteq Event
    BY <1>2, <2>1, Fields
  <2>7. TurnsAreTaken(t)'
    <3>1. \A e \in tx[t].events : e.player \in Players
      BY <2>6 DEF Event
    <3> QED BY <1>2, <2>1, <2>2, <2>3, <2>4, <2>6, <3>1 DEF InOrder, TurnsAreTaken
  <2>8. ReadsAreRows(t)'
    <3> SUFFICES ASSUME NEW p \in tx[t].turn
                 PROVE  /\ tx[t].read # NoRow =>
                             /\ identity'[p] # NoRow
                             /\ identity'[p].id = tx[t].read.id
                             /\ alias'[p][tx[t].read.nick] # Never
                        /\ p \notin new.crossed => tx[t].read = identity'[p]
      BY <2>2, <2>3 DEF ReadsAreRows
    <3>1. p \in Players /\ (tx[t].read # NoRow => tx[t].read.nick \in Nicks)
      BY <1>2, <2>1, <2>6, Fields DEF Row
    <3>2. /\ tx[t].read # NoRow =>
               /\ identity[p] # NoRow
               /\ identity[p].id = tx[t].read.id
               /\ alias[p][tx[t].read.nick] # Never
          /\ p \notin tx[t].crossed => tx[t].read = identity[p]
      BY <1>2, <2>1 DEF InOrder, ReadsAreRows
    <3>3. p \notin new.crossed => p \notin tx[t].crossed /\ identity'[p] = identity[p]
      BY <2>3, <3>1, CommitEffect
    <3> QED BY <3>1, <3>2, <3>3, CommittedRows
  <2>9. \A p \in Players : Holds(t, p) => identity'[p] = identity[p] /\ alias'[p] = alias[p]
    BY <2>5, CommitEffect
  <2>10. UpsertsAreDue(t)'
    <3> SUFFICES ASSUME NEW p \in Players, Holds(t, p)'
                 PROVE  /\ (tx[t].rows[p] = Upserted(identity[p], tx[t].names[p], tx[t].at, <<t, tx[t].at>>))'
                        /\ (tx[t].marks[p] = AliasMark(p, tx[t].names[p], tx[t].at))'
                        /\ (tx[t].refs[p] = tx[t].rows[p].id)'
      BY DEF UpsertsAreDue
    <3>1. Holds(t, p) /\ identity'[p] = identity[p] /\ alias'[p] = alias[p]
      BY <2>4, <2>9
    <3>2. AliasMark(p, tx[t].names[p], tx[t].at)' = AliasMark(p, tx[t].names[p], tx[t].at)
      BY <2>2, <2>3, <3>1 DEF AliasMark
    <3> QED BY <2>1, <2>2, <2>3, <3>1, <3>2 DEF InOrder, UpsertsAreDue
  <2>11. EventsAreKept(t)'
    <3>1. \A e \in tx[t].events : e.player \in Players /\ e.old \in Nicks
      BY <2>6 DEF Event
    <3> QED BY <1>2, <2>1, <2>2, <2>3, <3>1, CommittedRows DEF InOrder, EventsAreKept
  <2>12. ChangesAreDue(t)'
    <3> SUFFICES ASSUME NEW p \in Players, Holds(t, p)', p \notin new.crossed
                 PROVE  {e \in new.events : e.player = p} = NicknameEvents(p, identity'[p], new.names[p])
      BY <2>2 DEF ChangesAreDue, NicknameEvents
    <3> QED BY <2>1, <2>3, <2>4, <2>9 DEF InOrder, ChangesAreDue
  <2> QED BY <2>7, <2>8, <2>10, <2>11, <2>12 DEF InOrder
<1> QED BY <1>1, <1>2

LEMMA CommitKeepsIInv ==
  ASSUME IInv, NEW s \in Servers, Commit(s)
  PROVE  IInv'
<1>1. /\ tx' = [t \in Servers |-> IF t = s THEN NoTransaction ELSE Crossed(t, s)]
      /\ UNCHANGED <<now, names, renames>> /\ TypeOK
      /\ Open(s) /\ InOrder(s) /\ events' = events \cup tx[s].events
  BY DEF Commit, world, IInv
<1>2. tx'[s] = NoTransaction
  BY <1>1
<1>3. ~Open(s)' /\ \A p \in Players : ~Holds(s, p)'
  BY <1>2 DEF Open, Holds, NoTransaction
<1>4. TypeOK'
  <2>1. \A t \in Servers : tx'[t] \in Transaction \cup {NoTransaction}
    BY <1>1, <1>2, OthersAfterCommit DEF TypeOK
  <2>2. tx' \in [Servers -> Transaction \cup {NoTransaction}]
    BY <1>1, <2>1
  <2>3. identity' \in [Players -> Row \cup {NoRow}]
    <3>1. identity' = [p \in Players |-> identity'[p]]
      BY DEF Commit
    <3> QED BY <3>1, CommittedRows
  <2>4. alias' \in [Players -> [Nicks -> Time \cup {Never}]]
    <3>1. alias' = [p \in Players |-> alias'[p]]
      BY DEF Commit
    <3> QED BY <3>1, CommittedRows
  <2>5. sighted' \in [Players -> [Nicks -> Time \cup {Never}]]
    <3>1. sighted' = [p \in Players |-> sighted'[p]]
      BY DEF Commit
    <3> QED BY <3>1, CommittedRows
  <2>6. events' \subseteq Event
    BY <1>1, Fields DEF TypeOK
  <2> QED BY <1>1, <2>2, <2>3, <2>4, <2>5, <2>6 DEF TypeOK
<1>5. LocksAreExclusive'
  <2>1. ASSUME NEW t \in Servers, NEW p \in Players, Holds(t, p)' PROVE Holds(t, p)
    BY <1>3, <2>1, OthersAfterCommit
  <2> SUFFICES ASSUME NEW t \in Servers, NEW u \in Servers, NEW p \in Players,
                      Holds(t, p)', Holds(u, p)'
               PROVE  t = u
    BY DEF LocksAreExclusive
  <2> QED BY <2>1 DEF IInv, LocksAreExclusive
<1>6. InOrder(s)'
  BY <1>3 DEF InOrder, TurnsAreTaken, ReadsAreRows, UpsertsAreDue, EventsAreKept, ChangesAreDue
<1>7. UnknownAreUnseen'
  <2> SUFFICES ASSUME NEW p \in Players, identity'[p] = NoRow, NEW n \in Nicks
               PROVE  alias'[p][n] = Never /\ sighted'[p][n] = Never
    BY DEF UnknownAreUnseen
  <2>1. ~Holds(s, p)
    BY CommittedRows
  <2>2. identity[p] = NoRow /\ alias'[p] = alias[p] /\ sighted'[p] = sighted[p]
    BY <2>1, CommitEffect
  <2> QED BY <2>2 DEF IInv, UnknownAreUnseen
<1> QED BY <1>4, <1>5, <1>6, <1>7, OthersInOrderAfterCommit, CommitKeepsNicknames,
           CommitKeepsMarks DEF IInv

-----------------------------------------------------------------------------
(* All steps *)

LEMMA InitIInv == Init => IInv
<1> SUFFICES ASSUME Init PROVE IInv
  OBVIOUS
<1>1. 0 \in Time
  BY IdentityAssumption DEF Time
<1>2. TypeOK
  BY <1>1, IdentityAssumption DEF Init, TypeOK
<1>3. \A s \in Servers : ~Open(s) /\ \A p \in Players : ~Holds(s, p)
  BY DEF Init, Open, Holds, NoTransaction
<1>4. ASSUME NEW s \in Servers PROVE InOrder(s)
  BY <1>3 DEF InOrder, TurnsAreTaken, ReadsAreRows, UpsertsAreDue, EventsAreKept, ChangesAreDue
<1> QED BY <1>2, <1>3, <1>4 DEF Init, IInv, LocksAreExclusive, UnknownAreUnseen,
           NicknamesAreKept, MarksAreRecent

LEMMA TablesStay ==
  ASSUME IInv, UNCHANGED <<identity, alias, events, sighted>>
  PROVE  UnknownAreUnseen' /\ NicknamesAreKept' /\ MarksAreRecent'
<1>1. UnknownAreUnseen' /\ NicknamesAreKept'
  BY DEF IInv, UnknownAreUnseen, NicknamesAreKept
<1>2. \A p \in Players : LastSighted(p)' = LastSighted(p)
  BY DEF LastSighted
<1> QED BY <1>1, <1>2 DEF IInv, MarksAreRecent

\* The invariant speaks of the tables and the transactions; a step of one
\* transaction that leaves the tables alone needs to be looked at there only.
LEMMA TransactionStep ==
  ASSUME IInv, NEW s \in Servers, UNCHANGED <<world, tables>>,
         tx' \in [Servers -> Transaction \cup {NoTransaction}], LocksAreExclusive',
         InOrder(s)', \A t \in Servers : t # s => tx'[t] = tx[t]
  PROVE  IInv'
<1>1. \A t \in Servers : InOrder(t)'
  BY OthersStayInOrder DEF IInv, tables
<1>2. UNCHANGED <<now, names, renames, identity, alias, events, sighted>>
  BY DEF world, tables
<1>3. TypeOK'
  BY <1>2 DEF IInv, TypeOK
<1> QED BY <1>1, <1>2, <1>3, TablesStay DEF IInv

LEMMA NextIInv == IInv /\ [Next]_vars => IInv'
<1> SUFFICES ASSUME IInv, [Next]_vars PROVE IInv'
  OBVIOUS
<1>1. CASE UNCHANGED <<identity, alias, events, sighted, tx>> /\ (Tick \/ Rename \/ UNCHANGED vars)
  <2>1. TypeOK'
    <3>1. CASE Tick
      BY <3>1, IdentityAssumption DEF Tick, tables, IInv, TypeOK, Time
    <3>2. CASE Rename
      BY <3>2, IdentityAssumption DEF Rename, tables, IInv, TypeOK
    <3>3. CASE UNCHANGED vars
      BY <3>3 DEF vars, tables, IInv, TypeOK
    <3> QED BY <1>1, <3>1, <3>2, <3>3
  <2>2. \A s \in Servers : InOrder(s)'
    BY <1>1, OthersStayInOrder DEF IInv
  <2>3. LocksAreExclusive'
    BY <1>1 DEF IInv, LocksAreExclusive, Holds, Open
  <2> QED BY <1>1, <2>1, <2>2, <2>3, TablesStay DEF IInv
<1>2. ASSUME NEW s \in Servers, Begin(s) PROVE IInv'
  BY <1>2, BeginKeepsOrder, TransactionStep DEF Begin
<1>3. ASSUME NEW s \in Servers, Lookup(s) PROVE IInv'
  BY <1>3, LookupKeepsOrder, TransactionStep DEF Lookup
<1>4. ASSUME NEW s \in Servers, Upsert(s) PROVE IInv'
  BY <1>4, UpsertKeepsOrder, TransactionStep DEF Upsert
<1>5. ASSUME NEW s \in Servers, Fail(s) PROVE IInv'
  BY <1>5, FailKeepsOrder, TransactionStep DEF Fail
<1>6. ASSUME NEW s \in Servers, Commit(s) PROVE IInv'
  BY <1>6, CommitKeepsIInv
<1> QED BY <1>1, <1>2, <1>3, <1>4, <1>5, <1>6 DEF Next, Tick, Rename, vars, tables

-----------------------------------------------------------------------------
(* The theorems *)

\* The inductive invariant holds in every reachable state.
THEOREM Invariance == Spec => []IInv
<1> QED BY InitIInv, NextIInv, PTL DEF Spec

\* Every row, mark, event and transaction is of its type.
THEOREM IdentityIsTyped == Spec => []TypeOK
<1>1. IInv => TypeOK
  BY DEF IInv
<1> QED BY <1>1, Invariance, PTL

\* The coarse marks are never behind what was committed by more than
\* touchInterval, in whatever order transactions of several servers commit.
THEOREM MarksKeepUp == Spec => []MarksAreRecent
<1>1. IInv => MarksAreRecent
  BY DEF IInv
<1> QED BY <1>1, Invariance, PTL

\* The id UpsertPlayer returns is that of the player's row, whoever inserted
\* it, and whenever.
THEOREM IdsReferToRows == Spec => []RefsAreRows
<1>1. IInv => RefsAreRows
  <2> SUFFICES ASSUME IInv, NEW s \in Servers, NEW p \in Players, Holds(s, p)
               PROVE  /\ tx[s].refs[p] = tx[s].rows[p].id
                      /\ identity[p] # NoRow => tx[s].refs[p] = identity[p].id
    BY DEF RefsAreRows
  <2>1. InOrder(s) /\ Open(s) /\ TypeOK
    BY DEF IInv, Holds
  <2>2. /\ tx[s].names[p] \in Nicks /\ tx[s].at \in Time /\ <<s, tx[s].at>> \in Id
        /\ identity[p] \in Row \cup {NoRow}
    BY <2>1, Fields DEF InOrder, TurnsAreTaken, Id, TypeOK
  <2>3. /\ tx[s].rows[p] = Upserted(identity[p], tx[s].names[p], tx[s].at, <<s, tx[s].at>>)
        /\ tx[s].refs[p] = tx[s].rows[p].id
    BY <2>1 DEF InOrder, UpsertsAreDue
  <2> QED BY <2>2, <2>3, UpsertedRow
<1> QED BY <1>1, Invariance, PTL

\* No nickname a player had, or was announced to have had, is forgotten.
THEOREM NoNicknameIsLost == Spec => []NicknamesAreKept
<1>1. IInv => NicknamesAreKept
  BY DEF IInv
<1> QED BY <1>1, Invariance, PTL

\* A change of nickname and its announcement are committed together.
THEOREM AnnouncementsAreExact == Spec => ChangesAreAnnounced
<1>1. IInv /\ [Next]_vars =>
        [\A s \in Servers : Commit(s) =>
           \A p \in {q \in Players : Holds(s, q)} \ tx[s].crossed :
             {e \in tx[s].events : e.player = p} =
               NicknameEvents(p, identity[p], identity'[p].nick)]_vars
  <2> SUFFICES ASSUME IInv, NEW s \in Servers, Commit(s),
                      NEW p \in Players, Holds(s, p), p \notin tx[s].crossed
               PROVE  {e \in tx[s].events : e.player = p} =
                        NicknameEvents(p, identity[p], identity'[p].nick)
    OBVIOUS
  <2>1. identity'[p].nick = tx[s].names[p]
    BY CommittedRows
  <2> QED BY <2>1 DEF IInv, InOrder, ChangesAreDue
<1> QED BY <1>1, Invariance, PTL DEF Spec, ChangesAreAnnounced

=============================================================================
