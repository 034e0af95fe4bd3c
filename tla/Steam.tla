-------------------------------- MODULE Steam --------------------------------
(***************************************************************************)
(* What the observer keeps about Steam accounts: the journal of answers    *)
(* (steam.snapshot), the state derived from it (steam.profile and          *)
(* steam.friend_edge) and the list of accounts to collect                  *)
(* (steam.watchlist).  Service.Enrich collects one account; it is called   *)
(* by the background loop and by the HTTP handlers of the dossier, and     *)
(* nothing keeps two of them from collecting one account at once.          *)
(*                                                                         *)
(* Every statement of Enrich commits by itself, only SaveFriends is a      *)
(* transaction of two statements.  Any of them may fail, the handler's     *)
(* context may expire or its client disconnect, the process may die.       *)
(* The gateway arma-reforger-hz and Valve are external: a fetch answers    *)
(* anything about each source.                                             *)
(***************************************************************************)
EXTENDS Integers, FiniteSets

CONSTANTS
  Accounts,       \* SteamID64s
  Friends,        \* SteamID64s that lists of friends name
  Sources,        \* methods of Valve the gateway is asked for
  Values,         \* what a source may say of its fields
  Replies,        \* what the gateway may answer
  Callers,        \* requests for a dossier in progress side by side
  Loop,           \* the background loop
  Batch,          \* LoopConfig.Batch
  Staleness,      \* WatchlistPolicy: ActiveStaleness and IdleStaleness
  MaxAge,         \* DossierMaxAge
  CollectTimeout, \* DossierCollectTimeout
  WriteTimeout,   \* http.Server.WriteTimeout
  MaxTime,        \* bound of the clock, for model checking only
  MaxAnswers      \* bound of the gateway's answers, for model checking only

Unknown == "unknown" \* a field that is NULL or empty

\* What ParseProfile and ParseFriends find in one source of an answer.  body:
\* "no" when it is absent or empty, "null" when it is the JSON null, "odd" when it
\* does not parse, "hidden" when the games come as an object without game_count.
\* Shown games may lack ours or its minutes, other fields may be left out too.
Answer == [body: {"no", "null", "odd", "hidden", "shown"},
           value: Values \cup {Unknown}, list: SUBSET Friends]
NoAnswer == [body |-> "no", value |-> Unknown, list |-> {}]

ASSUME SteamAssumption ==
  /\ IsFiniteSet(Accounts)
  /\ Sources \subseteq {"summary", "bans", "games", "friends"}
  /\ Replies \subseteq [Sources -> Answer]
  /\ Loop \notin Callers
  /\ Batch \in Nat \ {0}
  /\ Staleness \subseteq Nat
  /\ {MaxAge, CollectTimeout, WriteTimeout, MaxTime, MaxAnswers} \subseteq Nat

VARIABLES
  now,      \* the clock of the observer and the database
  answers,  \* the clock of the gateway, which stamps its answers in their order
  snapshot, \* rows of steam.snapshot
  profile,  \* profile[a]: the row of steam.profile
  edges,    \* edges[a][f]: the row of steam.friend_edge
  watch,    \* watch[a]: the row of steam.watchlist
  pass,     \* accounts the loop has yet to collect in this pass
  run,      \* run[p]: the call of Enrich or Dossier that p is in
  fetched   \* history: the lists of friends that the gateway has shown

vars == <<now, answers, snapshot, profile, edges, watch, pass, run, fetched>>
clocks == <<now, answers>>
tables == <<snapshot, profile, edges, watch>>

-----------------------------------------------------------------------------
Time == Nat
Never == -1          \* a NULL timestamp
Procs == Callers \cup {Loop}
FieldSources == Sources \ {"friends"}   \* their fields are columns of steam.profile
Shown == Sources \cap {"games", "friends"}  \* what a player may hide

Snapshot == [account: Accounts, source: Sources, at: Time, body: Answer]
Profile == [known: [FieldSources -> Values \cup {Unknown}], shown: [Shown -> BOOLEAN],
            updated: Time]
NoProfile == [known |-> [s \in FieldSources |-> Unknown],
              shown |-> [s \in Shown |-> FALSE], updated |-> Never]
Edge == [first: Time, last: Time, lost: Time \cup {Never}]
NoEdge == [first |-> Never, last |-> Never, lost |-> Never]
\* Nothing reads last_ok_at and last_error, they are for people.
Watched == [listed: BOOLEAN, enabled: BOOLEAN, try: Time \cup {Never}]
Fetched == [account: Accounts, at: Time, list: SUBSET Friends]

\* Where Enrich may be; "upserted" is between the two statements of SaveFriends.
Working == {"fetch", "snapshots", "insert", "friends", "upserted"}
Marking == {"ok", "failed"}
Enriching == Working \cup Marking

Run == [pc: Enriching \cup {"read", "reply"}, account: Accounts,
        at: Time, got: Time \cup {Never}, sources: [Sources -> Answer],
        todo: SUBSET Sources, alone: BOOLEAN]
Idle == [pc |-> "idle"]

TypeOK ==
  /\ now \in Time /\ answers \in Time
  /\ snapshot \subseteq Snapshot
  /\ profile \in [Accounts -> Profile \cup {NoProfile}]
  /\ edges \in [Accounts -> [Friends -> Edge \cup {NoEdge}]]
  /\ watch \in [Accounts -> Watched]
  /\ pass \subseteq Accounts
  /\ run \in [Procs -> Run \cup {Idle}]
  /\ fetched \subseteq Fetched

\* Operators enter accounts into the watchlist by hand, and disable some.
Init ==
  /\ now = 0 /\ answers = 0
  /\ snapshot = {}
  /\ profile = [a \in Accounts |-> NoProfile]
  /\ edges = [a \in Accounts |-> [f \in Friends |-> NoEdge]]
  /\ \E listed \in SUBSET Accounts : \E enabled \in SUBSET listed :
       watch = [a \in Accounts |->
                  [listed |-> a \in listed, enabled |-> a \in enabled, try |-> Never]]
  /\ pass = {}
  /\ run = [p \in Procs |-> Idle]
  /\ fetched = {}

-----------------------------------------------------------------------------
At(p, pcs) == run[p].pc \in pcs
Collects(p, a) == At(p, Enriching) /\ run[p].account = a

\* The context of a dossier's Enrich has a deadline, the loop's has none.
Alive(p) == p = Loop \/ now - run[p].at <= CollectTimeout

\* Whether another call may fetch within the bound.
MoreAnswers == answers + Cardinality({p \in Procs : At(p, {"read", "fetch"})}) < MaxAnswers

\* Enrich begins: p goes on as `call', and whoever collects the account
\* already is alone no longer.
BeginEnrich(p, call) ==
  LET a == call.account
      others == {q \in Procs \ {p} : Collects(q, a)}
  IN  run' = [q \in Procs |->
                IF q = p THEN [call EXCEPT !.pc = "fetch", !.at = now, !.alone = others = {}]
                ELSE IF q \in others THEN [run[q] EXCEPT !.alone = FALSE] ELSE run[q]]

Call(a) ==
  [pc |-> "read", account |-> a, at |-> now, got |-> Never,
   sources |-> [s \in Sources |-> NoAnswer], todo |-> {}, alone |-> FALSE]

Goto(p, pc) == run' = [run EXCEPT ![p].pc = pc]

\* The call goes on without the answer.
Drop(c, pc) == [Call(c.account) EXCEPT !.pc = pc, !.at = c.at]

\* Enrich returns to the loop, or to the dossier.
Return(p) == run' = [run EXCEPT ![p] = IF p = Loop THEN Idle ELSE Drop(@, "reply")]

-----------------------------------------------------------------------------
(* Enrich *)

\* The player shows src: its games have a count, his list of friends has a body.
Visible(sources, src) ==
  \/ sources[src].body = "shown"
  \/ src = "friends" /\ sources[src].body \in {"odd", "hidden"}

\* ParseFriends: the list was visible, and it could be read.
Listing(sources) == "friends" \in Sources /\ sources["friends"].body = "shown"

FetchAnswers(p) ==
  LET a == run[p].account IN
  /\ At(p, {"fetch"}) /\ Alive(p)
  /\ answers' = answers + 1
  /\ \E sources \in Replies :
       /\ run' = [run EXCEPT ![p].pc = "snapshots", ![p].got = answers,
                             ![p].sources = sources,
                             ![p].todo = {s \in Sources : sources[s].body # "no"}]
       /\ fetched' = IF Listing(sources)
                     THEN fetched \cup {[account |-> a, at |-> answers,
                                         list |-> sources["friends"].list]}
                     ELSE fetched
  /\ UNCHANGED <<now, tables, pass>>

\* Sources are stored one after the other, in the order of the answer.
NextSource(p) == CHOOSE s \in run[p].todo : TRUE

RowsOf(a, src) == {r \in snapshot : r.account = a /\ r.source = src}

\* Faulty variant: the order of the rows is not DESC.
SameAsFirst(p, src) ==
  \E r \in RowsOf(run[p].account, src) :
    /\ r.body = run[p].sources[src]
    /\ \A x \in RowsOf(run[p].account, src) : r.at <= x.at

\* The newest row by fetched_at has this body.
SameAsLast(p, src) ==
  \E r \in RowsOf(run[p].account, src) :
    /\ r.body = run[p].sources[src]
    /\ \A x \in RowsOf(run[p].account, src) : x.at <= r.at

\* SaveSnapshot, its SELECT.
CompareSnapshot(p) ==
  /\ At(p, {"snapshots"}) /\ run[p].todo # {} /\ Alive(p)
  /\ run' = IF SameAsLast(p, NextSource(p))
            THEN [run EXCEPT ![p].todo = @ \ {NextSource(p)}]
            ELSE [run EXCEPT ![p].pc = "insert"]
  /\ UNCHANGED <<clocks, tables, pass, fetched>>

\* SaveSnapshot, its INSERT.
InsertSnapshot(p) ==
  LET src == NextSource(p) IN
  /\ At(p, {"insert"}) /\ Alive(p)
  /\ snapshot' = snapshot \cup {[account |-> run[p].account, source |-> src,
                                 at |-> run[p].got, body |-> run[p].sources[src]]}
  /\ run' = [run EXCEPT ![p].pc = "snapshots", ![p].todo = @ \ {src}]
  /\ UNCHANGED <<clocks, profile, edges, watch, pass, fetched>>

\* Faulty variant: the fields are overwritten with what the answer lacks.
Overwritten(old, sources) ==
  [known |-> [s \in FieldSources |-> sources[s].value],
   shown |-> [s \in Shown |-> Visible(sources, s)], updated |-> now]

\* Faulty variant: the date of the row is that of its first insertion.
Undated(old, sources) ==
  [known |-> [s \in FieldSources |->
                IF sources[s].value # Unknown THEN sources[s].value ELSE old.known[s]],
   shown |-> [s \in Shown |-> Visible(sources, s)], updated |-> old.updated]

\* Faulty variant: COALESCE for what is shown, too.
ShownStays(old, sources) ==
  [known |-> [s \in FieldSources |->
                IF sources[s].value # Unknown THEN sources[s].value ELSE old.known[s]],
   shown |-> [s \in Shown |-> old.shown[s] \/ Visible(sources, s)], updated |-> now]

\* COALESCE keeps what the answer does not say; what is shown it overwrites.
Merged(old, sources) ==
  [known |-> [s \in FieldSources |->
                IF sources[s].value # Unknown THEN sources[s].value ELSE old.known[s]],
   shown |-> [s \in Shown |-> Visible(sources, s)], updated |-> now]

\* Faulty variant: the graph is touched whether or not the list was shown.
TouchesGraphAlways(p) == "friends" \in Sources

\* The graph is touched only when a list came.
TouchesGraph(p) == Listing(run[p].sources)

SaveProfile(p) ==
  LET a == run[p].account IN
  /\ At(p, {"snapshots"}) /\ run[p].todo = {} /\ Alive(p)
  /\ profile' = [profile EXCEPT ![a] = Merged(@, run[p].sources)]
  /\ Goto(p, IF TouchesGraph(p) THEN "friends" ELSE "ok")
  /\ UNCHANGED <<clocks, snapshot, edges, watch, pass, fetched>>

-----------------------------------------------------------------------------
(* SaveFriends: two statements in one READ COMMITTED transaction *)

Listed(p) == run[p].sources["friends"].list
Current(a, f) == edges[a][f] # NoEdge /\ edges[a][f].lost = Never

\* Others that have upserted their list and not committed yet hold its rows.
Holders(p) == {q \in Procs \ {p} : At(q, {"upserted"}) /\ run[q].account = run[p].account}

\* The batch of INSERT ... ON CONFLICT.  What it writes is seen at the commit.
UpsertFriends(p) ==
  /\ At(p, {"friends"}) /\ Alive(p)
  /\ \A q \in Holders(p) : Listed(q) \cap Listed(p) = {}
  /\ Goto(p, "upserted")
  /\ UNCHANGED <<clocks, tables, pass, fetched>>

SeenAgain(e, t) ==
  IF e = NoEdge THEN [first |-> t, last |-> t, lost |-> Never]
  ELSE [e EXCEPT !.last = IF e.last > t THEN e.last ELSE t, !.lost = Never]

\* The UPDATE of what is no longer in the list, and the commit.  The UPDATE
\* waits for the rows it would change and another transaction holds; rows that
\* another one has inserted or revived and not committed it does not see.
MarkLostFriends(p) ==
  LET a == run[p].account
      t == run[p].got
  IN
  /\ At(p, {"upserted"}) /\ Alive(p)
  /\ \A q \in Holders(p) : \A f \in Listed(q) : Current(a, f) => f \in Listed(p)
  /\ edges' = [edges EXCEPT ![a] =
                 [f \in Friends |->
                    IF f \in Listed(p) THEN SeenAgain(edges[a][f], t)
                    ELSE IF Current(a, f) THEN [edges[a][f] EXCEPT !.lost = t]
                    ELSE edges[a][f]]]
  /\ Goto(p, "ok")
  /\ UNCHANGED <<clocks, snapshot, profile, watch, pass, fetched>>

-----------------------------------------------------------------------------
(* How Enrich ends *)

\* The gateway or a statement fails; what was committed stays.
StepFails(p) ==
  /\ At(p, Working)
  /\ run' = [run EXCEPT ![p] = Drop(@, "failed")]
  /\ UNCHANGED <<clocks, tables, pass, fetched>>

MarkTry(p) ==
  /\ At(p, Marking) /\ Alive(p)
  /\ watch' = [watch EXCEPT ![run[p].account] =
                 IF @.listed THEN [@ EXCEPT !.try = run[p].at] ELSE @]
  /\ Return(p)
  /\ UNCHANGED <<clocks, snapshot, profile, edges, pass, fetched>>

\* The mark itself fails: its error is dropped after a failure, and makes a
\* failure of a success.
MarkTryFails(p) ==
  /\ At(p, Marking)
  /\ Return(p)
  /\ UNCHANGED <<clocks, tables, pass, fetched>>

\* The deadline of the dossier passes: the step in progress fails, and so does
\* MarkTry, for it is given the same context.
CollectTimesOut(p) ==
  /\ p # Loop /\ At(p, Enriching)
  /\ now - run[p].at >= CollectTimeout
  /\ Return(p)
  /\ UNCHANGED <<clocks, tables, pass, fetched>>

-----------------------------------------------------------------------------
(* RunLoop *)

\* The accounts that are due, given those that were seen on our servers lately;
\* the others are given more time.
Due(active) ==
  {a \in Accounts :
     /\ watch[a].listed /\ watch[a].enabled
     /\ \/ watch[a].try = Never
        \/ \E d \in Staleness :
             /\ \A e \in Staleness : IF a \in active THEN d <= e ELSE e <= d
             /\ watch[a].try < now - d}

\* Never is less than every time, as NULLS FIRST has it.
ReadWatchlist ==
  /\ At(Loop, {"idle"}) /\ pass = {} /\ MoreAnswers
  /\ \E active \in SUBSET Accounts : \E chosen \in SUBSET Due(active) :
       /\ \A a \in chosen, b \in Due(active) \ chosen : watch[a].try <= watch[b].try
       /\ \/ Cardinality(chosen) = Batch
          \/ Cardinality(chosen) < Batch /\ chosen = Due(active)
       /\ pass' = chosen
  /\ UNCHANGED <<clocks, tables, run, fetched>>

EnrichNext(a) ==
  /\ At(Loop, {"idle"}) /\ MoreAnswers
  /\ a \in pass
  /\ pass' = pass \ {a}
  /\ BeginEnrich(Loop, Call(a))
  /\ UNCHANGED <<clocks, tables, fetched>>

-----------------------------------------------------------------------------
(* Dossier *)

\* The request registers the account, which also enables it again.
AddToWatchlist(p, a) ==
  /\ At(p, {"idle"}) /\ MoreAnswers
  /\ watch' = [watch EXCEPT ![a].listed = TRUE, ![a].enabled = TRUE]
  /\ run' = [run EXCEPT ![p] = Call(a)]
  /\ UNCHANGED <<clocks, snapshot, profile, edges, pass, fetched>>

IsFresh(row) == row # NoProfile /\ now - row.updated <= MaxAge

\* A profile that is recent enough is sent as it is, any other is collected now.
ReadProfile(p) ==
  /\ At(p, {"read"})
  /\ IF IsFresh(profile[run[p].account]) THEN Goto(p, "reply") ELSE BeginEnrich(p, run[p])
  /\ UNCHANGED <<clocks, tables, pass, fetched>>

\* The server writes nothing once WriteTimeout has passed since the request.
InTime(p) == now - run[p].at <= WriteTimeout

SendDossier(p) ==
  /\ At(p, {"reply"})
  /\ run' = [run EXCEPT ![p] = Idle]
  /\ UNCHANGED <<clocks, tables, pass, fetched>>

\* The client disconnects, or a read of the handler fails: its context is
\* cancelled with whatever it was doing, and there is no one to answer.
Abandon(p) ==
  /\ p # Loop /\ ~At(p, {"idle"})
  /\ run' = [run EXCEPT ![p] = Idle]
  /\ UNCHANGED <<clocks, tables, pass, fetched>>

-----------------------------------------------------------------------------
Tick ==
  /\ now < MaxTime
  /\ now' = now + 1
  /\ UNCHANGED <<answers, tables, pass, run, fetched>>

Restart ==
  /\ run' = [p \in Procs |-> Idle]
  /\ pass' = {}
  /\ UNCHANGED <<clocks, tables, fetched>>

Enrich(p) ==
  \/ FetchAnswers(p)
  \/ CompareSnapshot(p)
  \/ InsertSnapshot(p)
  \/ SaveProfile(p)
  \/ UpsertFriends(p)
  \/ MarkLostFriends(p)
  \/ StepFails(p)
  \/ MarkTry(p)
  \/ MarkTryFails(p)
  \/ CollectTimesOut(p)

Dossier(p) ==
  \/ \E a \in Accounts : AddToWatchlist(p, a)
  \/ ReadProfile(p)
  \/ SendDossier(p)
  \/ Abandon(p)

Next ==
  \/ Tick
  \/ Restart
  \/ ReadWatchlist
  \/ \E a \in Accounts : EnrichNext(a)
  \/ \E p \in Procs : Enrich(p)
  \/ \E p \in Callers : Dossier(p)

Spec == Init /\ [][Next]_vars

-----------------------------------------------------------------------------
(* Safety *)

\* An Enrich that no other one overlapped leaves everything as its answer has
\* it: the newest row of the journal has the body of each source that came, the
\* profile each value that was given, and the current friends are those listed.
\* Whatever earlier runs left behind, half done or out of order, is repaired.
LoneRunsAreFaithful ==
  \A p \in Procs :
    At(p, {"ok"}) /\ run[p].alone =>
      LET a == run[p].account IN
      /\ \A s \in Sources : run[p].sources[s].body # "no" => SameAsLast(p, s)
      /\ \A s \in FieldSources :
           run[p].sources[s].value # Unknown => profile[a].known[s] = run[p].sources[s].value
      /\ \A s \in Shown : profile[a].shown[s] = Visible(run[p].sources, s)
      /\ TouchesGraph(p) => {f \in Friends : Current(a, f)} = Listed(p)

\* A visible list of a that has f, or has not, came at t.
Saw(a, f, t, there) ==
  \E x \in fetched : /\ x.account = a /\ x.at = t
                     /\ there <=> f \in x.list

\* The graph claims nothing that no list said, in whatever order the lists were
\* saved: an edge was first and last seen in lists that had it, in that order,
\* and lost in one that had not.
EdgesAreWitnessed ==
  \A a \in Accounts, f \in Friends :
    LET e == edges[a][f] IN
    e # NoEdge =>
      /\ Saw(a, f, e.first, TRUE) /\ Saw(a, f, e.last, TRUE)
      /\ e.first <= e.last
      /\ e.lost # Never => Saw(a, f, e.lost, FALSE)

\* Nothing learned is forgotten by a source that fails or hides: known fields
\* stay known, edges stay, and neither their first sighting changes nor the last
\* one goes back.
KnownIsKept ==
  [][\A a \in Accounts :
       /\ profile[a] # NoProfile => profile'[a] # NoProfile
       /\ \A s \in FieldSources :
            profile[a].known[s] # Unknown => profile'[a].known[s] # Unknown
       /\ \A f \in Friends :
            LET old == edges[a][f]
                new == edges'[a][f]
            IN  old # NoEdge => /\ new # NoEdge
                                /\ new.first = old.first
                                /\ new.last >= old.last]_vars

\* The journal has a new row only for a body that differs from the one before
\* it, unless two Enrich of the account overlapped.
RepeatsNeedOverlap ==
  [][\A r \in snapshot' \ snapshot : \A p \in Procs :
       At(p, {"insert"}) /\ run[p].got = r.at /\ run[p].alone =>
         \A x \in RowsOf(r.account, r.source) :
           /\ x.at < r.at
           /\ x.body = r.body =>
                \E y \in RowsOf(r.account, r.source) : x.at < y.at /\ y.body # r.body]_vars

-----------------------------------------------------------------------------
(* What the documentation says and the code does not do *)

\* internal/steam/service.go:181-184: the limit on collecting is there so that the
\* person gets an answer and not a timeout.
DossiersArrive ==
  \A p \in Callers :
    At(p, {"reply"}) /\ now - run[p].at <= CollectTimeout => InTime(p)

=============================================================================
