---------------------------- MODULE SteamProofs ----------------------------
(***************************************************************************)
(* The journal, the profile and the graph of friends for any number of     *)
(* accounts, requests and answers of the gateway: what an Enrich that ran  *)
(* alone leaves behind, what the graph may claim, and what is never lost.  *)
(***************************************************************************)
EXTENDS Steam, TLAPS

-----------------------------------------------------------------------------
(* The inductive invariant *)

\* p holds an answer, and has not ended in a failure.
Holding == {"snapshots", "insert", "friends", "upserted", "ok"}

AnswerIsPast(p) ==
  /\ At(p, Holding) => run[p].got \in Time /\ run[p].got < answers
  /\ At(p, {"insert"}) => run[p].todo # {}
  /\ At(p, {"friends", "upserted"}) => TouchesGraph(p)
  /\ At(p, {"friends", "upserted", "ok"}) => run[p].todo = {}

\* The gateway's stamps tell the answers apart.
AnswersAreOwn ==
  \A p, q \in Procs : At(p, Holding) /\ At(q, Holding) /\ run[p].got = run[q].got => p = q

ListIsFetched(p) ==
  At(p, Holding) /\ TouchesGraph(p) =>
    [account |-> run[p].account, at |-> run[p].got, list |-> Listed(p)] \in fetched

RowsArePast == \A r \in snapshot : r.at < answers

NewestRowExists ==
  \A a \in Accounts, s \in Sources :
    RowsOf(a, s) # {} => \E r \in RowsOf(a, s) : \A x \in RowsOf(a, s) : x.at <= r.at

\* One that is alone shares its account with no one.
AloneIsAlone ==
  \A p, q \in Procs, a \in Accounts :
    p # q /\ Collects(p, a) /\ Collects(q, a) => ~run[p].alone

\* The sources still to be stored have only older rows, the others are stored;
\* the one about to be inserted differs from the newest.
JournalFollows(p) ==
  At(p, Holding) /\ run[p].alone =>
    /\ \A x \in snapshot :
         x.account = run[p].account /\ x.source \in run[p].todo => x.at < run[p].got
    /\ \A s \in Sources \ run[p].todo :
         run[p].sources[s].body # "no" => SameAsLast(p, s)
    /\ At(p, {"insert"}) => ~SameAsLast(p, NextSource(p))

ProfileFollows(p) ==
  At(p, {"friends", "upserted", "ok"}) /\ run[p].alone =>
    /\ \A s \in FieldSources :
         run[p].sources[s].value # Unknown =>
           profile[run[p].account].known[s] = run[p].sources[s].value
    /\ \A s \in Shown : profile[run[p].account].shown[s] = Visible(run[p].sources, s)

GraphFollows(p) ==
  At(p, {"ok"}) /\ run[p].alone /\ TouchesGraph(p) =>
    \A f \in Friends : Current(run[p].account, f) <=> f \in Listed(p)

\* What p holds.
CallFollows(p) ==
  /\ AnswerIsPast(p)
  /\ ListIsFetched(p)
  /\ JournalFollows(p)
  /\ ProfileFollows(p)
  /\ GraphFollows(p)

IInv ==
  /\ TypeOK
  /\ AnswersAreOwn
  /\ AloneIsAlone
  /\ RowsArePast
  /\ NewestRowExists
  /\ EdgesAreWitnessed
  /\ \A p \in Procs : CallFollows(p)

-----------------------------------------------------------------------------
(* Types *)

\* A call in progress has the fields of one.
LEMMA CallIsRun ==
  ASSUME TypeOK, NEW p \in Procs, run[p].pc # "idle"
  PROVE  /\ run[p] \in Run
         /\ run[p].account \in Accounts /\ run[p].at \in Time
         /\ run[p].got \in Time \cup {Never}
         /\ run[p].sources \in [Sources -> Answer]
         /\ run[p].todo \subseteq Sources
         /\ run[p].alone \in BOOLEAN
<1>1. run[p] \in Run \cup {Idle}
  BY DEF TypeOK
<1>2. run[p] \in Run
  BY <1>1 DEF Idle
<1> QED BY <1>2 DEF Run

\* The source that comes next is one that is left.
LEMMA NextSourceIsLeft ==
  ASSUME NEW p, run[p].todo # {}
  PROVE  NextSource(p) \in run[p].todo
BY DEF NextSource

\* A call starts without an answer, and may go on without one.
LEMMA CallsAreRuns ==
  ASSUME NEW a \in Accounts, now \in Time
  PROVE  /\ Call(a) \in Run
         /\ \A pc \in Enriching \cup {"read", "reply"}, c \in Run : Drop(c, pc) \in Run
<1>1. NoAnswer \in Answer
  BY DEF NoAnswer, Answer
<1>2. \A b \in Accounts : Call(b) \in Run
  BY <1>1 DEF Call, Run
<1>3. ASSUME NEW pc \in Enriching \cup {"read", "reply"}, NEW c \in Run
      PROVE  Drop(c, pc) \in Run
  <2>1. Call(c.account) \in Run /\ c.at \in Time
    BY <1>2, <1>3 DEF Run
  <2> QED BY <2>1, <1>3 DEF Drop, Run
<1> QED BY <1>2, <1>3

\* Merged is a row.
LEMMA MergedIsProfile ==
  ASSUME NEW old \in Profile \cup {NoProfile}, NEW sources \in [Sources -> Answer],
         now \in Time
  PROVE  Merged(old, sources) \in Profile
<1>1. old.known \in [FieldSources -> Values \cup {Unknown}]
  BY DEF Profile, NoProfile
<1>2. \A s \in FieldSources : sources[s].value \in Values \cup {Unknown}
  BY DEF FieldSources, Answer
<1>3. [s \in FieldSources |-> IF sources[s].value # Unknown THEN sources[s].value
                              ELSE old.known[s]] \in [FieldSources -> Values \cup {Unknown}]
  BY <1>1, <1>2
<1>4. \A s \in Shown : Visible(sources, s) \in BOOLEAN
  BY DEF Visible
<1>5. [s \in Shown |-> Visible(sources, s)] \in [Shown -> BOOLEAN]
  BY <1>4
<1> QED BY <1>3, <1>5 DEF Merged, Profile

\* Initially nobody collects anything, and nothing is kept.
LEMMA InitIsInv == ASSUME Init PROVE IInv
<1>1. NoProfile \in Profile \cup {NoProfile} /\ NoEdge \in Edge \cup {NoEdge}
  OBVIOUS
<1>2. watch \in [Accounts -> Watched]
  BY DEF Init, Watched
<1>3. TypeOK
  BY <1>1, <1>2 DEF Init, TypeOK, Time
<1>4. \A p \in Procs : run[p].pc = "idle"
  BY DEF Init, Idle
<1>5. AnswersAreOwn /\ AloneIsAlone
  BY <1>4 DEF AnswersAreOwn, AloneIsAlone, Collects, At, Holding, Enriching, Working, Marking
<1>6. RowsArePast /\ NewestRowExists
  BY DEF Init, RowsArePast, NewestRowExists, RowsOf
<1>7. EdgesAreWitnessed
  BY DEF Init, EdgesAreWitnessed
<1>8. \A p \in Procs : CallFollows(p)
  BY <1>4 DEF CallFollows, AnswerIsPast, ListIsFetched, JournalFollows, ProfileFollows,
              GraphFollows, At, Holding
<1> QED BY <1>3, <1>5, <1>6, <1>7, <1>8 DEF IInv

-----------------------------------------------------------------------------
(* What a step does to the calls in progress *)

\* A step of p gives it another call, and leaves the others as they are.
Moves(p, c) ==
  /\ run' \in [Procs -> Run \cup {Idle}]
  /\ run'[p] = c
  /\ \A q \in Procs \ {p} : run'[q] = run[q]

\* Assigning a call to p, or a part of it, is such a step.
LEMMA AssignmentMoves ==
  ASSUME TypeOK, NEW p \in Procs, NEW c \in Run \cup {Idle}, run' = [run EXCEPT ![p] = c]
  PROVE  Moves(p, c)
BY DEF TypeOK, Moves

\* A process that goes on keeps its call.
LEMMA GotoMoves ==
  ASSUME TypeOK, NEW p \in Procs, run[p].pc # "idle", NEW pc \in Enriching \cup {"read", "reply"},
         Goto(p, pc)
  PROVE  Moves(p, [run[p] EXCEPT !.pc = pc])
<1>1. run[p] \in Run
  BY CallIsRun
<1>2. [run[p] EXCEPT !.pc = pc] \in Run
  BY <1>1 DEF Run
<1>3. run' = [run EXCEPT ![p] = [run[p] EXCEPT !.pc = pc]]
  BY DEF Goto
<1> QED BY <1>2, <1>3, AssignmentMoves

\* The end of Enrich.
LEMMA ReturnMoves ==
  ASSUME TypeOK, NEW p \in Procs, At(p, Enriching), Return(p)
  PROVE  Moves(p, IF p = Loop THEN Idle ELSE Drop(run[p], "reply"))
<1>1. run[p] \in Run /\ run[p].account \in Accounts
  BY CallIsRun DEF At, Enriching, Working, Marking
<1>2. Drop(run[p], "reply") \in Run
  BY <1>1, CallsAreRuns DEF TypeOK
<1> QED BY <1>2, AssignmentMoves DEF Return

\* The beginning of Enrich: whoever collects the account is alone no longer.
LEMMA BeginningMoves ==
  ASSUME TypeOK, NEW p \in Procs, NEW call \in Run, BeginEnrich(p, call)
  PROVE  /\ run' \in [Procs -> Run \cup {Idle}]
         /\ run'[p] \in Run
         /\ run'[p].pc = "fetch"
         /\ run'[p].account = call.account
         /\ run'[p].alone => \A q \in Procs \ {p} : ~Collects(q, call.account)
         /\ \A q \in Procs \ {p} :
              IF Collects(q, call.account)
              THEN run'[q] \in Run /\ run'[q] = [run[q] EXCEPT !.alone = FALSE]
              ELSE run'[q] = run[q]
<1> DEFINE others == {q \in Procs \ {p} : Collects(q, call.account)}
<1> DEFINE begun == [call EXCEPT !.pc = "fetch", !.at = now, !.alone = others = {}]
<1>1. run' = [q \in Procs |->
                IF q = p THEN begun
                ELSE IF q \in others THEN [run[q] EXCEPT !.alone = FALSE] ELSE run[q]]
  BY DEF BeginEnrich
<1>2. (others = {}) \in BOOLEAN
  OBVIOUS
<1>3. begun \in Run /\ begun.pc = "fetch" /\ begun.account = call.account
      /\ begun.alone = (others = {})
  <2> DEFINE none == others = {}
  <2>1. \A b \in BOOLEAN : LET c == [call EXCEPT !.pc = "fetch", !.at = now, !.alone = b] IN
          /\ c \in Run /\ c.pc = "fetch" /\ c.account = call.account /\ c.alone = b
    BY DEF TypeOK, Run, Enriching, Working
  <2> HIDE DEF others
  <2> QED BY <1>2, <2>1
<1>4. \A q \in others : run[q] \in Run
  BY CallIsRun DEF Collects, At, Enriching, Working, Marking
<1>5. \A q \in others : [run[q] EXCEPT !.alone = FALSE] \in Run
  BY <1>4 DEF Run
<1>6. \A q \in Procs : run[q] \in Run \cup {Idle}
  BY DEF TypeOK
<1>7. \A q \in Procs : q \in others <=> q # p /\ Collects(q, call.account)
  OBVIOUS
<1>8. begun.alone => \A q \in Procs \ {p} : ~Collects(q, call.account)
  BY <1>3, <1>7
<1> HIDE DEF begun, others
<1>9. run' \in [Procs -> Run \cup {Idle}]
  BY <1>1, <1>3, <1>5, <1>6
<1>10. run'[p] = begun
  BY <1>1
<1>11. \A q \in Procs \ {p} :
         IF q \in others THEN run'[q] = [run[q] EXCEPT !.alone = FALSE] ELSE run'[q] = run[q]
  BY <1>1
<1> QED BY <1>3, <1>5, <1>7, <1>8, <1>9, <1>10, <1>11

-----------------------------------------------------------------------------
(* What a step leaves as it was *)

\* What is seen of a call that does not change, in a journal that does not
\* change for its account.
LEMMA SameCall ==
  ASSUME NEW q, run'[q] = run[q],
         \A s \in Sources : RowsOf(run[q].account, s)' = RowsOf(run[q].account, s)
  PROVE  /\ \A S : At(q, S)' <=> At(q, S)
         /\ TouchesGraph(q)' <=> TouchesGraph(q)
         /\ Listed(q)' = Listed(q)
         /\ NextSource(q)' = NextSource(q)
         /\ \A s \in Sources : SameAsLast(q, s)' <=> SameAsLast(q, s)
<1>1. \A S : At(q, S)' <=> At(q, S)
  BY DEF At
<1>2. (TouchesGraph(q)' <=> TouchesGraph(q)) /\ Listed(q)' = Listed(q)
  BY DEF TouchesGraph, Listed
<1>3. NextSource(q)' = NextSource(q)
  BY DEF NextSource
<1>4. \A s \in Sources : SameAsLast(q, s)' <=> SameAsLast(q, s)
  BY DEF SameAsLast
<1> QED BY <1>1, <1>2, <1>3, <1>4

\* Nothing changes that a call which is alone relies on.
Untouched(q) ==
  At(q, Holding) /\ run[q].alone =>
    LET a == run[q].account IN
    /\ \A s \in Sources : RowsOf(a, s)' = RowsOf(a, s)
    /\ profile'[a] = profile[a]
    /\ edges'[a] = edges[a]

\* A call that does not change keeps what it has.
LEMMA CallKept ==
  ASSUME IInv, NEW q \in Procs, run'[q] = run[q],
         answers' \in Time, answers' >= answers, fetched \subseteq fetched', Untouched(q)
  PROVE  CallFollows(q)'
<1>0. CallFollows(q) /\ answers \in Time
  BY DEF IInv, TypeOK
<1>1. \A S : At(q, S)' <=> At(q, S)
  BY DEF At
<1>2. (TouchesGraph(q)' <=> TouchesGraph(q)) /\ Listed(q)' = Listed(q)
  BY DEF TouchesGraph, Listed
<1>3. AnswerIsPast(q)'
  BY <1>0, <1>1, <1>2 DEF AnswerIsPast, CallFollows, Time
<1>4. ListIsFetched(q)'
  BY <1>0, <1>1, <1>2 DEF ListIsFetched, CallFollows
<1>5. CASE ~(At(q, Holding) /\ run[q].alone)
  <2>1. ~(At(q, Holding)' /\ run'[q].alone)
    BY <1>1, <1>5
  <2>2. JournalFollows(q)'
    BY <2>1 DEF JournalFollows
  <2>3. ~(At(q, {"friends", "upserted", "ok"})' /\ run'[q].alone)
    BY <1>1, <1>5 DEF At, Holding
  <2>4. ProfileFollows(q)' /\ GraphFollows(q)'
    BY <2>3 DEF ProfileFollows, GraphFollows, At
  <2> QED BY <1>3, <1>4, <2>2, <2>4 DEF CallFollows
<1>6. CASE At(q, Holding) /\ run[q].alone
  <2>2. /\ \A s \in Sources : RowsOf(run[q].account, s)' = RowsOf(run[q].account, s)
        /\ profile'[run[q].account] = profile[run[q].account]
        /\ edges'[run[q].account] = edges[run[q].account]
    BY <1>6 DEF Untouched
  <2>3. /\ NextSource(q)' = NextSource(q)
        /\ \A s \in Sources : SameAsLast(q, s)' <=> SameAsLast(q, s)
    BY <2>2, SameCall
  <2>4. run[q].todo \subseteq Sources
    BY <1>6, CallIsRun DEF IInv, At, Holding
  <2>5. JournalFollows(q)'
    <3>1. JournalFollows(q)
      BY <1>0 DEF CallFollows
    <3>2. At(q, {"insert"}) => NextSource(q) \in Sources
      BY <1>0, <2>4, NextSourceIsLeft DEF CallFollows, AnswerIsPast
    <3>3. \A x \in snapshot' :
            x.account = run[q].account /\ x.source \in run[q].todo => x \in snapshot
      BY <2>2, <2>4 DEF RowsOf
    <3> QED BY <1>1, <2>3, <2>4, <3>1, <3>2, <3>3 DEF JournalFollows
  <2>6. ProfileFollows(q)'
    BY <1>0, <1>1, <2>2 DEF ProfileFollows, CallFollows
  <2>7. GraphFollows(q)'
    BY <1>0, <1>1, <1>2, <2>2 DEF GraphFollows, CallFollows, Current
  <2> QED BY <1>3, <1>4, <2>5, <2>6, <2>7 DEF CallFollows
<1> QED BY <1>5, <1>6

\* The tables and the answers stay as they are.
LEMMA TablesKept ==
  ASSUME IInv, UNCHANGED <<answers, snapshot, edges, fetched>>
  PROVE  RowsArePast' /\ NewestRowExists' /\ EdgesAreWitnessed'
<1>1. RowsArePast /\ NewestRowExists /\ EdgesAreWitnessed
  BY DEF IInv
<1>2. RowsArePast'
  BY <1>1 DEF RowsArePast
<1>3. NewestRowExists'
  BY <1>1 DEF NewestRowExists, RowsOf
<1>4. EdgesAreWitnessed'
  BY <1>1 DEF EdgesAreWitnessed, Saw
<1> QED BY <1>2, <1>3, <1>4

\* Calls that end, or have no answer yet, concern no one.
Leaves(q) ==
  \/ run'[q] = run[q]
  \/ run'[q].pc \in {"idle", "read", "reply"}
  \/ /\ run'[q].pc = "failed" /\ ~run'[q].alone
     /\ Collects(q, run'[q].account)

LEMMA LeavingKeeps ==
  ASSUME IInv, \A q \in Procs : Leaves(q),
         UNCHANGED <<answers, snapshot, profile, edges, fetched>>
  PROVE  /\ AnswersAreOwn' /\ AloneIsAlone'
         /\ RowsArePast' /\ NewestRowExists' /\ EdgesAreWitnessed'
         /\ \A q \in Procs : CallFollows(q)'
<1>1. ASSUME NEW q \in Procs
      PROVE  \/ run'[q] = run[q]
             \/ ~At(q, Holding)' /\ (At(q, Enriching)' => ~run'[q].alone)
    BY DEF Leaves, At, Holding, Enriching, Working, Marking
<1>2. \A q \in Procs : At(q, Holding)' => run'[q] = run[q] /\ At(q, Holding)
  BY <1>1 DEF At
<1>3. AnswersAreOwn'
  BY <1>2 DEF AnswersAreOwn, IInv
<1>4. \A q \in Procs, a \in Accounts :
        Collects(q, a)' => Collects(q, a) /\ (run'[q].alone => run[q].alone)
  BY DEF Leaves, Collects, At, Enriching, Working, Marking
<1>5. AloneIsAlone'
  BY <1>4 DEF AloneIsAlone, IInv
<1>6. \A q \in Procs : CallFollows(q)'
  <2> SUFFICES ASSUME NEW q \in Procs PROVE CallFollows(q)'
    OBVIOUS
  <2>1. CASE run'[q] = run[q]
    <3>1. Untouched(q)
      BY <2>1 DEF Untouched, RowsOf
    <3> QED BY <2>1, <3>1, CallKept DEF IInv, TypeOK, Time
  <2>2. CASE ~At(q, Holding)'
    BY <2>2 DEF CallFollows, AnswerIsPast, ListIsFetched, JournalFollows, ProfileFollows,
                GraphFollows, At, Holding
  <2> QED BY <1>2, <2>1, <2>2
<1> QED BY <1>3, <1>5, <1>6, TablesKept

-----------------------------------------------------------------------------
(* The steps of Enrich *)

\* p goes on with its call, and changes what concerns its account at most.
Continues(p) ==
  /\ run' \in [Procs -> Run \cup {Idle}]
  /\ At(p, Enriching) /\ At(p, Enriching)'
  /\ run'[p].account = run[p].account /\ run'[p].alone = run[p].alone
  /\ \/ run'[p].got = run[p].got /\ (At(p, Holding)' => At(p, Holding))
     \/ run'[p].got = answers
  /\ \A q \in Procs \ {p} : run'[q] = run[q]
  /\ answers' \in Time /\ answers' >= answers
  /\ fetched \subseteq fetched'
  /\ \A b \in Accounts \ {run[p].account} :
       /\ \A s \in Sources, r \in snapshot' \ snapshot : ~(r.account = b /\ r.source = s)
       /\ profile'[b] = profile[b]
       /\ edges'[b] = edges[b]
  /\ snapshot \subseteq snapshot'

\* The other calls keep what they have.
LEMMA ContinuingKeeps ==
  ASSUME IInv, NEW p \in Procs, Continues(p)
  PROVE  /\ AnswersAreOwn' /\ AloneIsAlone'
         /\ \A q \in Procs \ {p} : CallFollows(q)'
<1>1. AnswersAreOwn'
  <2>1. \A q \in Procs : At(q, Holding) => run[q].got < answers
    BY DEF IInv, CallFollows, AnswerIsPast
  <2>2. AnswersAreOwn /\ answers \in Time
    BY DEF IInv, TypeOK
  <2> QED BY <2>1, <2>2 DEF AnswersAreOwn, Continues, At, Time
<1>2. \A q \in Procs, a \in Accounts :
        Collects(q, a)' => Collects(q, a) /\ run'[q].alone = run[q].alone
  BY DEF Continues, Collects, At
<1>3. AloneIsAlone'
  BY <1>2 DEF AloneIsAlone, IInv
<1>4. ASSUME NEW q \in Procs \ {p} PROVE CallFollows(q)'
  <2>1. run'[q] = run[q]
    BY DEF Continues
  <2>2. run[p].account \in Accounts
    BY CallIsRun DEF IInv, Continues, At, Enriching, Working, Marking
  <2>3. ASSUME At(q, Holding), run[q].alone
        PROVE  run[q].account \in Accounts \ {run[p].account}
    <3>1. run[q].account \in Accounts
      BY <2>3, CallIsRun DEF IInv, At, Holding
    <3>2. At(q, Enriching)
      BY <2>3 DEF At, Holding, Enriching, Working, Marking
    <3> QED BY <2>2, <2>3, <3>1, <3>2 DEF IInv, AloneIsAlone, Collects, Continues
  <2>4. Untouched(q)
    BY <2>1, <2>3 DEF Untouched, Continues, RowsOf
  <2> QED BY <2>1, <2>4, CallKept DEF Continues
<1> QED BY <1>1, <1>3, <1>4

LEMMA FetchAnswersKeeps ==
  ASSUME IInv, NEW p \in Procs, FetchAnswers(p)
  PROVE  IInv'
<1>1. TypeOK /\ answers \in Time /\ answers' = answers + 1 /\ At(p, {"fetch"})
  BY DEF IInv, TypeOK, FetchAnswers
<1>2. run[p] \in Run /\ run[p].account \in Accounts
  BY <1>1, CallIsRun DEF At
<1>3. PICK sources \in Replies :
        /\ run' = [run EXCEPT ![p].pc = "snapshots", ![p].got = answers,
                              ![p].sources = sources,
                              ![p].todo = {s \in Sources : sources[s].body # "no"}]
        /\ fetched' = IF Listing(sources)
                      THEN fetched \cup {[account |-> run[p].account, at |-> answers,
                                          list |-> sources["friends"].list]}
                      ELSE fetched
  BY DEF FetchAnswers
<1>4. sources \in [Sources -> Answer]
  BY SteamAssumption
<1>0. UNCHANGED <<now, snapshot, profile, edges, watch, pass>>
  BY DEF FetchAnswers, tables
<1> DEFINE held == [run[p] EXCEPT !.pc = "snapshots", !.got = answers, !.sources = sources,
                                  !.todo = {s \in Sources : sources[s].body # "no"}]
<1>5. held \in Run
  BY <1>1, <1>2, <1>4 DEF Run, Enriching, Working
<1>6. run' = [run EXCEPT ![p] = held]
  BY <1>3
<1>7. /\ Moves(p, held)
      /\ held.pc = "snapshots" /\ held.account = run[p].account /\ held.alone = run[p].alone
      /\ held.got = answers /\ held.sources = sources
      /\ held.todo = {s \in Sources : sources[s].body # "no"}
  BY <1>1, <1>2, <1>5, <1>6, AssignmentMoves DEF Run
<1> HIDE DEF held
<1>8. run'[p] = held
  BY <1>7 DEF Moves
<1>9. fetched' \subseteq Fetched /\ fetched \subseteq fetched'
  <2>1. Listing(sources) => sources["friends"].list \subseteq Friends
    BY <1>4 DEF Listing, Answer
  <2>2. fetched \subseteq Fetched
    BY <1>1 DEF TypeOK
  <2>3. Listing(sources) => [account |-> run[p].account, at |-> answers,
                             list |-> sources["friends"].list] \in Fetched
    BY <1>1, <1>2, <2>1 DEF Fetched
  <2> QED BY <1>3, <2>2, <2>3
<1>10. TypeOK'
  BY <1>0, <1>1, <1>7, <1>9 DEF TypeOK, Moves, Time
<1>11. Continues(p)
  BY <1>0, <1>1, <1>7, <1>8, <1>9 DEF Continues, Moves, At, Enriching, Working,
     Holding, Time
<1>12. RowsArePast' /\ NewestRowExists' /\ EdgesAreWitnessed'
  <2>1. RowsArePast'
    BY <1>0, <1>1 DEF IInv, RowsArePast, TypeOK, Snapshot, Time
  <2>2. NewestRowExists'
    BY <1>0 DEF IInv, NewestRowExists, RowsOf
  <2>3. EdgesAreWitnessed'
    BY <1>0, <1>9 DEF IInv, EdgesAreWitnessed, Saw
  <2> QED BY <2>1, <2>2, <2>3
<1>13. CallFollows(p)'
  <2>1. AnswerIsPast(p)'
    BY <1>1, <1>7, <1>8 DEF AnswerIsPast, At, Time
  <2>2. ListIsFetched(p)'
    <3>1. Listing(sources) => [account |-> run[p].account, at |-> answers,
                               list |-> sources["friends"].list] \in fetched'
      BY <1>3
    <3>2. (TouchesGraph(p)' <=> Listing(sources)) /\ Listed(p)' = sources["friends"].list
      BY <1>7, <1>8 DEF TouchesGraph, Listed
    <3> QED BY <1>7, <1>8, <3>1, <3>2 DEF ListIsFetched
  <2>3. JournalFollows(p)'
    <3>1. \A x \in snapshot : x.at < answers
      BY DEF IInv, RowsArePast
    <3> QED BY <1>0, <1>7, <1>8, <3>1 DEF JournalFollows, At
  <2>4. ProfileFollows(p)' /\ GraphFollows(p)'
    BY <1>7, <1>8 DEF ProfileFollows, GraphFollows, At
  <2> QED BY <2>1, <2>2, <2>3, <2>4 DEF CallFollows
<1> QED BY <1>10, <1>11, <1>12, <1>13, ContinuingKeeps DEF IInv

LEMMA CompareSnapshotKeeps ==
  ASSUME IInv, NEW p \in Procs, CompareSnapshot(p)
  PROVE  IInv'
<1> DEFINE src == NextSource(p)
<1>1. TypeOK /\ At(p, {"snapshots"}) /\ run[p].todo # {}
  BY DEF IInv, CompareSnapshot
<1>2. run[p] \in Run /\ run[p].todo \subseteq Sources /\ src \in run[p].todo
  BY <1>1, CallIsRun, NextSourceIsLeft DEF At
<1>3. UNCHANGED <<now, answers, snapshot, profile, edges, watch, pass, fetched>>
  BY DEF CompareSnapshot, clocks, tables
<1>4. CallFollows(p)
  BY DEF IInv
<1> DEFINE same == [run[p] EXCEPT !.todo = @ \ {src}]
           other == [run[p] EXCEPT !.pc = "insert"]
           next == IF SameAsLast(p, src) THEN same ELSE other
<1>5. same \in Run /\ other \in Run
  BY <1>2 DEF Run, Enriching, Working
<1>6. run' = [run EXCEPT ![p] = next]
  BY DEF CompareSnapshot
<1>7. Moves(p, next)
  BY <1>1, <1>5, <1>6, AssignmentMoves
<1>8. /\ run'[p].account = run[p].account /\ run'[p].alone = run[p].alone
      /\ run'[p].got = run[p].got /\ run'[p].sources = run[p].sources
      /\ IF SameAsLast(p, src) THEN run'[p].pc = "snapshots" /\ run'[p].todo = run[p].todo \ {src}
         ELSE run'[p].pc = "insert" /\ run'[p].todo = run[p].todo
  BY <1>1, <1>2, <1>7 DEF Moves, Run, At
<1> HIDE DEF next, src
<1>9. TypeOK'
  BY <1>1, <1>3, <1>7 DEF TypeOK, Moves
<1>10. Continues(p)
  BY <1>1, <1>3, <1>7, <1>8 DEF Continues, Moves, At, Enriching, Working, Holding, TypeOK, Time
<1>12. AnswerIsPast(p)' /\ ListIsFetched(p)'
  BY <1>1, <1>3, <1>4, <1>8 DEF CallFollows, AnswerIsPast, ListIsFetched, At, Holding, TouchesGraph,
     Listed
<1>13. JournalFollows(p)'
  <2> SUFFICES ASSUME run[p].alone PROVE JournalFollows(p)'
    BY <1>8 DEF JournalFollows
  <2>1. JournalFollows(p) /\ At(p, Holding)
    BY <1>1, <1>4 DEF CallFollows, At, Holding
  <2>2. run'[p].pc = "insert" => NextSource(p)' = src /\ ~SameAsLast(p, src)
    BY <1>8 DEF NextSource, src
  <2>3. At(p, {"insert"})' => ~SameAsLast(p, NextSource(p))'
    BY <1>3, <1>8, <2>2 DEF At, SameAsLast, RowsOf
  <2>4. \A x \in snapshot' :
          x.account = run'[p].account /\ x.source \in run'[p].todo => x.at < run'[p].got
    BY <1>3, <1>8, <2>1 DEF JournalFollows
  <2>5. \A s \in Sources \ run'[p].todo : run'[p].sources[s].body # "no" => SameAsLast(p, s)
    BY <1>8, <2>1 DEF JournalFollows
  <2>6. \A s \in Sources : SameAsLast(p, s)' <=> SameAsLast(p, s)
    BY <1>3, <1>8 DEF RowsOf, SameAsLast
  <2> QED BY <2>3, <2>4, <2>5, <2>6 DEF JournalFollows
<1>14. ProfileFollows(p)' /\ GraphFollows(p)'
  BY <1>8 DEF ProfileFollows, GraphFollows, At
<1>15. CallFollows(p)'
  BY <1>12, <1>13, <1>14 DEF CallFollows
<1> QED BY <1>3, <1>9, <1>10, <1>15, ContinuingKeeps, TablesKept DEF IInv

LEMMA InsertSnapshotKeeps ==
  ASSUME IInv, NEW p \in Procs, InsertSnapshot(p)
  PROVE  IInv'
<1> PICK src : src = NextSource(p)
  OBVIOUS
<1> DEFINE row == [account |-> run[p].account, source |-> src,
                   at |-> run[p].got, body |-> run[p].sources[src]]
           next == [run[p] EXCEPT !.pc = "snapshots", !.todo = @ \ {src}]
<1>1. /\ TypeOK /\ At(p, {"insert"})
      /\ snapshot' = snapshot \cup {row}
      /\ run' = [run EXCEPT ![p] = next]
      /\ UNCHANGED <<now, answers, profile, edges, watch, pass, fetched>>
  BY DEF IInv, InsertSnapshot, clocks
<1>2. CallFollows(p)
  BY DEF IInv
<1>3. /\ run[p] \in Run /\ run[p].account \in Accounts /\ run[p].sources \in [Sources -> Answer]
      /\ run[p].todo \subseteq Sources
  BY <1>1, CallIsRun DEF At
<1>4. run[p].got \in Time /\ run[p].got < answers /\ src \in run[p].todo
  BY <1>1, <1>2, NextSourceIsLeft DEF CallFollows, AnswerIsPast, At, Holding
<1>5. next \in Run
  BY <1>3 DEF Run, Enriching, Working
<1>6. Moves(p, next)
  BY <1>1, <1>5, AssignmentMoves
<1>7. /\ run'[p].account = run[p].account /\ run'[p].alone = run[p].alone
      /\ run'[p].got = run[p].got /\ run'[p].sources = run[p].sources
      /\ run'[p].pc = "snapshots" /\ run'[p].todo = run[p].todo \ {src}
  BY <1>3, <1>6 DEF Moves, Run
<1>8. row \in Snapshot
  BY <1>3, <1>4 DEF Snapshot
<1>9. row.account = run[p].account /\ row.source = src /\ row.at = run[p].got
      /\ row.body = run[p].sources[src]
  OBVIOUS
<1> HIDE DEF next, row
<1>10. TypeOK'
  BY <1>1, <1>6, <1>8 DEF TypeOK, Moves
<1>11. Continues(p)
  BY <1>1, <1>6, <1>7, <1>9 DEF Continues, Moves, At, Enriching, Working, Holding, TypeOK, Time
<1>12. RowsArePast'
  BY <1>1, <1>4, <1>9 DEF IInv, RowsArePast
<1>13. NewestRowExists'
  <2> SUFFICES ASSUME NEW a \in Accounts, NEW s \in Sources, RowsOf(a, s)' # {}
               PROVE  \E r \in RowsOf(a, s)' : \A x \in RowsOf(a, s)' : x.at <= r.at
    BY DEF NewestRowExists
  <2>1. \A x \in snapshot' : x.at \in Time
    BY <1>10 DEF TypeOK, Snapshot
  <2>2. RowsOf(a, s)' = RowsOf(a, s) \cup {x \in {row} : x.account = a /\ x.source = s}
    BY <1>1 DEF RowsOf
  <2>3. CASE RowsOf(a, s) = {}
    BY <2>1, <2>2, <2>3, <1>1 DEF Time
  <2>4. CASE RowsOf(a, s) # {}
    <3>1. PICK r \in RowsOf(a, s) : \A x \in RowsOf(a, s) : x.at <= r.at
      BY <2>4 DEF IInv, NewestRowExists
    <3>2. r.at \in Time /\ row.at \in Time
      BY <1>1, <2>1, <3>1 DEF RowsOf
    <3>3. CASE row \in RowsOf(a, s)' /\ r.at < row.at
      <4>1. \A x \in RowsOf(a, s) : x.at \in Time
        BY <1>1, <2>1 DEF RowsOf
      <4>2. \A x \in RowsOf(a, s)' : x.at <= row.at
        BY <2>2, <3>1, <3>2, <3>3, <4>1 DEF Time
      <4> QED BY <3>3, <4>2
    <3>4. CASE ~(row \in RowsOf(a, s)' /\ r.at < row.at)
      <4>1. \A x \in RowsOf(a, s)' : x.at <= r.at
        BY <2>2, <3>1, <3>2, <3>4 DEF Time
      <4> QED BY <2>2, <3>1, <4>1
    <3> QED BY <3>3, <3>4
  <2> QED BY <2>3, <2>4
<1>14. EdgesAreWitnessed'
  BY <1>1 DEF IInv, EdgesAreWitnessed, Saw
<1>15. AnswerIsPast(p)' /\ ListIsFetched(p)'
  BY <1>1, <1>2, <1>7 DEF CallFollows, AnswerIsPast, ListIsFetched, At, Holding, TouchesGraph,
     Listed
<1>16. JournalFollows(p)'
  <2> SUFFICES ASSUME run[p].alone PROVE JournalFollows(p)'
    BY <1>7 DEF JournalFollows
  <2>1. /\ \A x \in snapshot :
             x.account = run[p].account /\ x.source \in run[p].todo => x.at < run[p].got
        /\ \A s \in Sources \ run[p].todo :
             run[p].sources[s].body # "no" => SameAsLast(p, s)
    BY <1>1, <1>2 DEF CallFollows, JournalFollows, At, Holding
  <2>2. \A x \in snapshot' :
          x.account = run'[p].account /\ x.source \in run'[p].todo => x.at < run'[p].got
    BY <1>1, <1>7, <1>9, <2>1
  <2>3. SameAsLast(p, src)'
    <3>1. row \in RowsOf(run[p].account, src)' /\ row.body = run'[p].sources[src]
      BY <1>1, <1>7, <1>9 DEF RowsOf
    <3>2. \A x \in snapshot' : x.account = run[p].account /\ x.source = src => x.at <= row.at
      BY <1>1, <1>4, <1>9, <1>10, <2>1 DEF Time, TypeOK, Snapshot
    <3> QED BY <1>1, <1>7, <1>9, <3>1, <3>2 DEF SameAsLast, RowsOf
  <2>4. \A s \in Sources \ {src} : SameAsLast(p, s)' <=> SameAsLast(p, s)
    BY <1>1, <1>7, <1>9 DEF SameAsLast, RowsOf
  <2>5. \A s \in Sources \ run'[p].todo : run'[p].sources[s].body # "no" => SameAsLast(p, s)'
    BY <1>7, <2>1, <2>3, <2>4
  <2>6. ~At(p, {"insert"})'
    BY <1>7 DEF At
  <2> QED BY <2>2, <2>5, <2>6 DEF JournalFollows
<1>17. ProfileFollows(p)' /\ GraphFollows(p)'
  BY <1>7 DEF ProfileFollows, GraphFollows, At
<1>18. CallFollows(p)'
  BY <1>15, <1>16, <1>17 DEF CallFollows
<1> QED BY <1>10, <1>11, <1>12, <1>13, <1>14, <1>18, ContinuingKeeps DEF IInv

LEMMA SaveProfileKeeps ==
  ASSUME IInv, NEW p \in Procs, SaveProfile(p)
  PROVE  IInv'
<1> DEFINE pc == IF TouchesGraph(p) THEN "friends" ELSE "ok"
           next == [run[p] EXCEPT !.pc = pc]
<1>1. /\ TypeOK /\ At(p, {"snapshots"}) /\ run[p].todo = {}
      /\ profile' = [profile EXCEPT ![run[p].account] = Merged(@, run[p].sources)]
      /\ Goto(p, pc)
      /\ UNCHANGED <<now, answers, snapshot, edges, watch, pass, fetched>>
  BY DEF IInv, SaveProfile, clocks
<1>2. CallFollows(p)
  BY DEF IInv
<1>3. /\ run[p] \in Run /\ run[p].account \in Accounts /\ run[p].sources \in [Sources -> Answer]
      /\ run[p].pc # "idle"
  BY <1>1, CallIsRun DEF At
<1>4. pc \in Enriching
  BY DEF Enriching, Working, Marking
<1>5. Moves(p, next)
  BY <1>1, <1>3, <1>4, GotoMoves
<1>6. /\ run'[p].account = run[p].account /\ run'[p].alone = run[p].alone
      /\ run'[p].got = run[p].got /\ run'[p].sources = run[p].sources
      /\ run'[p].pc = pc /\ run'[p].todo = run[p].todo
  BY <1>3, <1>5 DEF Moves, Run
<1>7. TouchesGraph(p)' <=> TouchesGraph(p)
  BY <1>6 DEF TouchesGraph
<1> DEFINE old == profile[run[p].account]
<1>8. old \in Profile \cup {NoProfile}
  BY <1>1, <1>3 DEF TypeOK
<1>9. Merged(old, run[p].sources) \in Profile
  BY <1>1, <1>3, <1>8, MergedIsProfile DEF TypeOK
<1>10. profile' \in [Accounts -> Profile \cup {NoProfile}]
  BY <1>1, <1>9 DEF TypeOK
<1>11. TypeOK'
  BY <1>1, <1>5, <1>10 DEF TypeOK, Moves
<1>12. Continues(p)
  BY <1>1, <1>4, <1>5, <1>6 DEF Continues, Moves, At, Enriching, Working, Holding, TypeOK, Time
<1>13. AnswerIsPast(p)' /\ ListIsFetched(p)'
  BY <1>1, <1>2, <1>6, <1>7 DEF CallFollows, AnswerIsPast, ListIsFetched, At, Holding, Listed
<1>14. JournalFollows(p)'
  <2> SUFFICES ASSUME run[p].alone PROVE JournalFollows(p)'
    BY <1>6 DEF JournalFollows
  <2>1. \A s \in Sources : run[p].sources[s].body # "no" => SameAsLast(p, s)
    BY <1>1, <1>2 DEF CallFollows, JournalFollows, At, Holding
  <2>2. \A s \in Sources : SameAsLast(p, s)' <=> SameAsLast(p, s)
    BY <1>1, <1>6 DEF SameAsLast, RowsOf
  <2> QED BY <1>1, <1>6, <2>1, <2>2 DEF JournalFollows, At
<1>15. ProfileFollows(p)'
  <2>1. profile'[run[p].account] = Merged(old, run[p].sources)
    BY <1>1, <1>3 DEF TypeOK
  <2>2. /\ \A s \in FieldSources : run[p].sources[s].value # Unknown =>
             profile'[run[p].account].known[s] = run[p].sources[s].value
        /\ \A s \in Shown : profile'[run[p].account].shown[s] = Visible(run[p].sources, s)
    BY <2>1 DEF Merged
  <2> QED BY <1>6, <2>2 DEF ProfileFollows
<1>16. GraphFollows(p)'
  BY <1>6, <1>7 DEF GraphFollows, At
<1>17. CallFollows(p)'
  BY <1>13, <1>14, <1>15, <1>16 DEF CallFollows
<1> QED BY <1>1, <1>11, <1>12, <1>17, ContinuingKeeps, TablesKept DEF IInv

LEMMA UpsertFriendsKeeps ==
  ASSUME IInv, NEW p \in Procs, UpsertFriends(p)
  PROVE  IInv'
<1> DEFINE next == [run[p] EXCEPT !.pc = "upserted"]
<1>1. /\ TypeOK /\ At(p, {"friends"}) /\ Goto(p, "upserted")
      /\ UNCHANGED <<now, answers, snapshot, profile, edges, watch, pass, fetched>>
  BY DEF IInv, UpsertFriends, clocks, tables
<1>2. CallFollows(p)
  BY DEF IInv
<1>3. run[p] \in Run /\ run[p].pc # "idle"
  BY <1>1, CallIsRun DEF At
<1>4. Moves(p, next)
  BY <1>1, <1>3, GotoMoves DEF Enriching, Working
<1>5. /\ run'[p].account = run[p].account /\ run'[p].alone = run[p].alone
      /\ run'[p].got = run[p].got /\ run'[p].sources = run[p].sources
      /\ run'[p].pc = "upserted" /\ run'[p].todo = run[p].todo
  BY <1>3, <1>4 DEF Moves, Run
<1>6. TypeOK'
  BY <1>1, <1>4 DEF TypeOK, Moves
<1>7. Continues(p)
  BY <1>1, <1>4, <1>5 DEF Continues, Moves, At, Enriching, Working, Holding, TypeOK, Time
<1>8. AnswerIsPast(p)' /\ ListIsFetched(p)'
  BY <1>1, <1>2, <1>5 DEF CallFollows, AnswerIsPast, ListIsFetched, At, Holding, TouchesGraph, Listed
<1>9. JournalFollows(p)'
  <2>1. \A s \in Sources : SameAsLast(p, s)' <=> SameAsLast(p, s)
    BY <1>1, <1>5 DEF SameAsLast, RowsOf
  <2> QED BY <1>1, <1>2, <1>5, <2>1 DEF CallFollows, JournalFollows, At, Holding
<1>10. ProfileFollows(p)' /\ GraphFollows(p)'
  BY <1>1, <1>2, <1>5 DEF CallFollows, ProfileFollows, GraphFollows, At
<1>11. CallFollows(p)'
  BY <1>8, <1>9, <1>10 DEF CallFollows
<1> QED BY <1>1, <1>6, <1>7, <1>11, ContinuingKeeps, TablesKept DEF IInv

\* What becomes of an edge: it is seen, or seen again, or lost.
LEMMA EdgeFate ==
  ASSUME TypeOK, NEW p \in Procs, MarkLostFriends(p), run[p].got \in Time,
         NEW f \in Friends
  PROVE  LET a == run[p].account
             t == run[p].got
             e == edges[a][f]
             new == edges'[a][f]
         IN  /\ a \in Accounts
             /\ f \in Listed(p) => new \in Edge /\ new = SeenAgain(e, t) /\ new.lost = Never
             /\ f \notin Listed(p) /\ Current(a, f) =>
                  /\ new \in Edge /\ new.lost = t
                  /\ new.first = e.first /\ new.last = e.last
             /\ f \notin Listed(p) /\ ~Current(a, f) => new = e
             /\ \A b \in Accounts \ {a} : edges'[b] = edges[b]
<1> PICK a, t : a = run[p].account /\ t = run[p].got
  OBVIOUS
<1>1. a \in Accounts /\ t \in Time
  BY CallIsRun DEF MarkLostFriends, At
<1>2. edges' = [edges EXCEPT ![a] =
                 [g \in Friends |->
                    IF g \in Listed(p) THEN SeenAgain(edges[a][g], t)
                    ELSE IF Current(a, g) THEN [edges[a][g] EXCEPT !.lost = t]
                    ELSE edges[a][g]]]
  BY DEF MarkLostFriends
<1>3. edges \in [Accounts -> [Friends -> Edge \cup {NoEdge}]]
  BY DEF TypeOK
<1>4. edges'[a][f] = IF f \in Listed(p) THEN SeenAgain(edges[a][f], t)
                     ELSE IF Current(a, f) THEN [edges[a][f] EXCEPT !.lost = t]
                     ELSE edges[a][f]
  BY <1>1, <1>2, <1>3
<1>5. edges[a][f] \in Edge \cup {NoEdge}
  BY <1>1, <1>3
<1>6. SeenAgain(edges[a][f], t) \in Edge /\ SeenAgain(edges[a][f], t).lost = Never
  BY <1>1, <1>5 DEF SeenAgain, Edge, Time
<1>7. Current(a, f) => edges[a][f] \in Edge
  BY <1>5 DEF Current
<1>8. Current(a, f) => LET new == [edges[a][f] EXCEPT !.lost = t] IN
        new \in Edge /\ new.lost = t /\ new.first = edges[a][f].first
        /\ new.last = edges[a][f].last
  BY <1>1, <1>7 DEF Edge
<1>9. \A b \in Accounts \ {a} : edges'[b] = edges[b]
  BY <1>1, <1>2, <1>3
<1> QED BY <1>1, <1>4, <1>6, <1>8, <1>9

\* What the list of p says is what the gateway has shown.
LEMMA MarkingWitnesses ==
  ASSUME IInv, NEW p \in Procs, MarkLostFriends(p)
  PROVE  /\ EdgesAreWitnessed'
         /\ edges' \in [Accounts -> [Friends -> Edge \cup {NoEdge}]]
<1> PICK a, t : a = run[p].account /\ t = run[p].got
  OBVIOUS
<1>1. TypeOK /\ At(p, {"upserted"}) /\ fetched' = fetched
  BY DEF IInv, MarkLostFriends
<1>2. CallFollows(p)
  BY DEF IInv
<1>3. t \in Time /\ TouchesGraph(p)
      /\ [account |-> a, at |-> t, list |-> Listed(p)] \in fetched
  BY <1>1, <1>2 DEF CallFollows, AnswerIsPast, ListIsFetched, At, Holding
<1>4. \A f \in Friends : IF f \in Listed(p) THEN Saw(a, f, t, TRUE) ELSE Saw(a, f, t, FALSE)
  BY <1>3 DEF Saw
<1>5. \A b, f, u, there : Saw(b, f, u, there)' <=> Saw(b, f, u, there)
  BY <1>1 DEF Saw
<1>6. edges \in [Accounts -> [Friends -> Edge \cup {NoEdge}]]
  BY <1>1 DEF TypeOK
<1>7. ASSUME NEW f \in Friends
      PROVE  LET e == edges'[a][f] IN
             /\ e \in Edge \cup {NoEdge}
             /\ e # NoEdge =>
                  /\ Saw(a, f, e.first, TRUE) /\ Saw(a, f, e.last, TRUE)
                  /\ e.first <= e.last
                  /\ e.lost # Never => Saw(a, f, e.lost, FALSE)
  <2> PICK e, new : e = edges[a][f] /\ new = edges'[a][f]
    OBVIOUS
  <2>1. /\ a \in Accounts
        /\ f \in Listed(p) => new \in Edge /\ new = SeenAgain(e, t) /\ new.lost = Never
        /\ f \notin Listed(p) /\ Current(a, f) =>
             /\ new \in Edge /\ new.lost = t
             /\ new.first = e.first /\ new.last = e.last
        /\ f \notin Listed(p) /\ ~Current(a, f) => new = e
    BY <1>1, <1>3, EdgeFate
  <2>2. e \in Edge \cup {NoEdge}
    BY <1>6, <2>1
  <2>3. e # NoEdge =>
          /\ e \in Edge
          /\ Saw(a, f, e.first, TRUE) /\ Saw(a, f, e.last, TRUE)
          /\ e.first <= e.last
          /\ e.lost # Never => Saw(a, f, e.lost, FALSE)
    BY <2>1, <2>2 DEF IInv, EdgesAreWitnessed
  <2>4. CASE f \in Listed(p) /\ e = NoEdge
    <3>1. new.first = t /\ new.last = t /\ new.lost = Never /\ new \in Edge
      BY <2>1, <2>4 DEF SeenAgain
    <3>2. t <= t
      BY <1>3 DEF Time
    <3> QED BY <1>4, <2>4, <3>1, <3>2
  <2>5. CASE f \in Listed(p) /\ e # NoEdge
    <3>1. /\ new.first = e.first /\ new.lost = Never /\ new \in Edge
          /\ new.last = IF e.last > t THEN e.last ELSE t
      BY <2>1, <2>3, <2>5 DEF SeenAgain, Edge
    <3>2. new.first <= new.last
      <4>1. e.first \in Nat /\ e.last \in Nat /\ e.first <= e.last /\ t \in Nat
        BY <1>3, <2>3, <2>5 DEF Edge, Time
      <4> QED BY <3>1, <4>1
    <3> QED BY <1>4, <2>3, <2>5, <3>1, <3>2
  <2>6. CASE f \notin Listed(p) /\ Current(a, f)
    <3>1. e # NoEdge
      BY <2>6 DEF Current
    <3> QED BY <1>4, <2>1, <2>3, <2>6, <3>1
  <2>7. CASE f \notin Listed(p) /\ ~Current(a, f)
    BY <2>1, <2>2, <2>3, <2>7
  <2> QED BY <2>4, <2>5, <2>6, <2>7
<1>8. a \in Accounts /\ \A b \in Accounts \ {a} : edges'[b] = edges[b]
  <2>1. CASE Friends = {}
    <3>1. run[p].account \in Accounts
      BY <1>1, CallIsRun DEF At
    <3> QED BY <1>1, <1>6, <3>1 DEF MarkLostFriends
  <2>2. CASE Friends # {}
    BY <1>1, <1>3, <2>2, EdgeFate
  <2> QED BY <2>1, <2>2
<1>9. edges' = [edges EXCEPT ![a] = edges'[a]] /\ DOMAIN edges'[a] = Friends
  BY <1>6, <1>8 DEF MarkLostFriends
<1>10. edges' \in [Accounts -> [Friends -> Edge \cup {NoEdge}]]
  <2>1. edges'[a] \in [Friends -> Edge \cup {NoEdge}]
    <3>1. edges'[a] = [f \in Friends |-> edges'[a][f]]
      BY <1>6, <1>8 DEF MarkLostFriends
    <3> QED BY <1>7, <3>1
  <2> QED BY <1>6, <1>8, <1>9, <2>1
<1>11. EdgesAreWitnessed'
  <2> SUFFICES ASSUME NEW b \in Accounts, NEW f \in Friends, edges'[b][f] # NoEdge
               PROVE  LET e == edges'[b][f] IN
                      /\ Saw(b, f, e.first, TRUE) /\ Saw(b, f, e.last, TRUE)
                      /\ e.first <= e.last
                      /\ e.lost # Never => Saw(b, f, e.lost, FALSE)
    BY <1>1 DEF EdgesAreWitnessed, Saw
  <2>1. CASE b = a
    BY <1>7, <2>1
  <2>2. CASE b # a
    BY <1>8, <2>2 DEF IInv, EdgesAreWitnessed
  <2> QED BY <2>1, <2>2
<1> QED BY <1>10, <1>11

LEMMA MarkLostFriendsKeeps ==
  ASSUME IInv, NEW p \in Procs, MarkLostFriends(p)
  PROVE  IInv'
<1> DEFINE next == [run[p] EXCEPT !.pc = "ok"]
<1>1. /\ TypeOK /\ At(p, {"upserted"}) /\ Goto(p, "ok")
      /\ UNCHANGED <<now, answers, snapshot, profile, watch, pass, fetched>>
  BY DEF IInv, MarkLostFriends, clocks
<1>2. CallFollows(p)
  BY DEF IInv
<1>3. run[p] \in Run /\ run[p].pc # "idle" /\ run[p].account \in Accounts
  BY <1>1, CallIsRun DEF At
<1>4. Moves(p, next)
  BY <1>1, <1>3, GotoMoves DEF Enriching, Marking
<1>5. /\ run'[p].account = run[p].account /\ run'[p].alone = run[p].alone
      /\ run'[p].got = run[p].got /\ run'[p].sources = run[p].sources
      /\ run'[p].pc = "ok" /\ run'[p].todo = run[p].todo
  BY <1>3, <1>4 DEF Moves, Run
<1>6. EdgesAreWitnessed' /\ edges' \in [Accounts -> [Friends -> Edge \cup {NoEdge}]]
  BY MarkingWitnesses
<1>7. TypeOK'
  BY <1>1, <1>4, <1>6 DEF TypeOK, Moves
<1>8. run[p].got \in Time
  BY <1>1, <1>2 DEF CallFollows, AnswerIsPast, At, Holding
<1>9. \A b \in Accounts \ {run[p].account} : edges'[b] = edges[b]
  BY <1>1, <1>3 DEF MarkLostFriends, TypeOK
<1>10. Continues(p)
  BY <1>1, <1>4, <1>5, <1>9 DEF Continues, Moves, At, Enriching, Working, Marking, Holding, TypeOK,
     Time
<1>11. RowsArePast' /\ NewestRowExists'
  BY <1>1 DEF IInv, RowsArePast, NewestRowExists, RowsOf
<1>12. AnswerIsPast(p)' /\ ListIsFetched(p)'
  BY <1>1, <1>2, <1>5 DEF CallFollows, AnswerIsPast, ListIsFetched, At, Holding, TouchesGraph, Listed
<1>13. JournalFollows(p)'
  <2>1. \A s \in Sources : SameAsLast(p, s)' <=> SameAsLast(p, s)
    BY <1>1, <1>5 DEF SameAsLast, RowsOf
  <2> QED BY <1>1, <1>2, <1>5, <2>1 DEF CallFollows, JournalFollows, At, Holding
<1>14. ProfileFollows(p)'
  BY <1>1, <1>2, <1>5 DEF CallFollows, ProfileFollows, At
<1>15. GraphFollows(p)'
  <2> SUFFICES ASSUME NEW f \in Friends
               PROVE  Current(run[p].account, f)' <=> f \in Listed(p)
    BY <1>5 DEF GraphFollows, Listed, Current
  <2> PICK a, t : a = run[p].account /\ t = run[p].got
    OBVIOUS
  <2>1. /\ f \in Listed(p) => edges'[a][f] \in Edge /\ edges'[a][f].lost = Never
        /\ f \notin Listed(p) /\ Current(a, f) => edges'[a][f].lost = t
        /\ f \notin Listed(p) /\ ~Current(a, f) => edges'[a][f] = edges[a][f]
    BY <1>1, <1>8, EdgeFate
  <2>2. f \in Listed(p) => edges'[a][f] # NoEdge
    <3>1. NoEdge \notin Edge
      BY DEF NoEdge, Edge, Time, Never
    <3> QED BY <2>1, <3>1
  <2>3. t # Never
    BY <1>8 DEF Time, Never
  <2> QED BY <1>5, <2>1, <2>2, <2>3 DEF Current
<1>16. CallFollows(p)'
  BY <1>12, <1>13, <1>14, <1>15 DEF CallFollows
<1> QED BY <1>6, <1>7, <1>10, <1>11, <1>16, ContinuingKeeps DEF IInv

-----------------------------------------------------------------------------
(* The other steps *)

LEMMA BeginningKeeps ==
  ASSUME IInv, NEW p \in Procs, NEW call \in Run, BeginEnrich(p, call),
         UNCHANGED <<answers, snapshot, profile, edges, fetched>>
  PROVE  /\ AnswersAreOwn' /\ AloneIsAlone'
         /\ RowsArePast' /\ NewestRowExists' /\ EdgesAreWitnessed'
         /\ \A q \in Procs : CallFollows(q)'
<1>1. /\ run'[p].pc = "fetch" /\ run'[p].account = call.account
      /\ run'[p].alone => \A q \in Procs \ {p} : ~Collects(q, call.account)
      /\ \A q \in Procs \ {p} :
           IF Collects(q, call.account)
           THEN run'[q] \in Run /\ run'[q] = [run[q] EXCEPT !.alone = FALSE]
           ELSE run'[q] = run[q]
  BY BeginningMoves DEF IInv
<1>2. ASSUME NEW q \in Procs \ {p}
      PROVE  /\ run'[q].pc = run[q].pc
             /\ run[q].pc # "idle" =>
                  /\ run'[q].account = run[q].account /\ run'[q].got = run[q].got
                  /\ run'[q].sources = run[q].sources /\ run'[q].todo = run[q].todo
             /\ run'[q] = run[q] \/ run'[q].alone = FALSE
             /\ Collects(q, call.account) => run'[q].alone = FALSE
  <2>1. CASE ~Collects(q, call.account)
    BY <1>1, <2>1
  <2>2. CASE Collects(q, call.account)
    <3>1. run[q] \in Run /\ run'[q] = [run[q] EXCEPT !.alone = FALSE]
      BY <1>1, <2>2, CallIsRun DEF IInv, Collects, At, Enriching, Working, Marking
    <3> QED BY <3>1 DEF Run
  <2> QED BY <2>1, <2>2
<1>3. \A q \in Procs : At(q, Holding)' =>
        q # p /\ At(q, Holding) /\ run'[q].got = run[q].got
  BY <1>1, <1>2 DEF At, Holding
<1>4. AnswersAreOwn'
  BY <1>3 DEF AnswersAreOwn, IInv
<1>5. AloneIsAlone'
  <2> SUFFICES ASSUME NEW q \in Procs, NEW r \in Procs, NEW a \in Accounts,
                      q # r, Collects(q, a)', Collects(r, a)'
               PROVE  ~run'[q].alone
    BY DEF AloneIsAlone
  <2>1. \A o \in Procs \ {p} : Collects(o, a)' => Collects(o, a)
    BY <1>2 DEF Collects, At, Enriching, Working, Marking
  <2>2. CASE q = p
    BY <1>1, <2>1, <2>2 DEF Collects
  <2>3. CASE r = p
    BY <1>1, <1>2, <2>1, <2>3 DEF Collects
  <2>4. CASE q # p /\ r # p
    BY <1>2, <2>1, <2>4 DEF AloneIsAlone, IInv
  <2> QED BY <2>2, <2>3, <2>4
<1>6. ASSUME NEW q \in Procs PROVE CallFollows(q)'
  <2>1. CASE ~At(q, Holding)'
    BY <2>1 DEF CallFollows, AnswerIsPast, ListIsFetched, JournalFollows, ProfileFollows,
                GraphFollows, At, Holding
  <2>2. CASE At(q, Holding)' /\ run'[q] = run[q]
    <3>1. Untouched(q)
      BY <2>2 DEF Untouched, RowsOf
    <3> QED BY <2>2, <3>1, CallKept DEF IInv, TypeOK, Time
  <2>3. CASE At(q, Holding)' /\ run'[q].alone = FALSE
    <3>1. q # p /\ At(q, Holding)
      BY <1>3, <2>3
    <3>2. /\ run'[q].account = run[q].account /\ run'[q].got = run[q].got
          /\ run'[q].sources = run[q].sources /\ run'[q].todo = run[q].todo
          /\ run'[q].pc = run[q].pc
      BY <1>2, <3>1 DEF At, Holding
    <3>3. CallFollows(q)
      BY DEF IInv
    <3>4. AnswerIsPast(q)' /\ ListIsFetched(q)'
      BY <3>2, <3>3 DEF CallFollows, AnswerIsPast, ListIsFetched, At, TouchesGraph, Listed
    <3>5. JournalFollows(q)' /\ ProfileFollows(q)' /\ GraphFollows(q)'
      BY <2>3 DEF JournalFollows, ProfileFollows, GraphFollows
    <3> QED BY <3>4, <3>5 DEF CallFollows
  <2> QED BY <1>1, <1>2, <1>3, <2>1, <2>2, <2>3
<1> QED BY <1>4, <1>5, <1>6, TablesKept

\* A step that keeps the tables of the invariant, and whose calls end.
LEMMA QuietStepKeeps ==
  ASSUME IInv, \A q \in Procs : Leaves(q), run' \in [Procs -> Run \cup {Idle}],
         UNCHANGED <<answers, snapshot, profile, edges, fetched>>,
         now' \in Time, watch' \in [Accounts -> Watched], pass' \subseteq Accounts
  PROVE  IInv'
<1>1. TypeOK'
  BY DEF IInv, TypeOK
<1> QED BY <1>1, LeavingKeeps DEF IInv

\* A call that moves on without an answer, or ends, leaves.
LEMMA MoveLeaves ==
  ASSUME NEW p \in Procs, NEW c, Moves(p, c),
         \/ c.pc \in {"idle", "read", "reply"}
         \/ c.pc = "failed" /\ ~c.alone /\ Collects(p, c.account)
  PROVE  run' \in [Procs -> Run \cup {Idle}] /\ \A q \in Procs : Leaves(q)
BY DEF Moves, Leaves

LEMMA EndingKeeps ==
  ASSUME IInv, NEW p \in Procs, StepFails(p) \/ MarkTry(p) \/ MarkTryFails(p) \/ CollectTimesOut(p)
  PROVE  IInv'
<1>1. TypeOK /\ now' = now /\ pass' = pass /\ UNCHANGED <<answers, snapshot, profile, edges, fetched>>
  BY DEF IInv, StepFails, MarkTry, MarkTryFails, CollectTimesOut, clocks, tables
<1>2. At(p, Enriching)
  BY DEF StepFails, MarkTry, MarkTryFails, CollectTimesOut, At, Enriching
<1>3. run[p] \in Run /\ run[p].account \in Accounts /\ run[p].at \in Time
  BY <1>1, <1>2, CallIsRun DEF At, Enriching, Working, Marking
<1>4. watch' \in [Accounts -> Watched]
  <2>1. CASE MarkTry(p)
    <3>1. watch' = [watch EXCEPT ![run[p].account] =
                      IF @.listed THEN [@ EXCEPT !.try = run[p].at] ELSE @]
      BY <2>1 DEF MarkTry
    <3>2. watch[run[p].account] \in Watched /\ watch \in [Accounts -> Watched]
      BY <1>1, <1>3 DEF TypeOK
    <3>3. [watch[run[p].account] EXCEPT !.try = run[p].at] \in Watched
      BY <1>3, <3>2 DEF Watched
    <3> QED BY <3>1, <3>2, <3>3
  <2>2. CASE ~MarkTry(p)
    BY <1>1, <2>2 DEF StepFails, MarkTryFails, CollectTimesOut, tables, TypeOK
  <2> QED BY <2>1, <2>2
<1>5. \A pc \in {"failed", "reply"} :
        LET c == Drop(run[p], pc) IN
        c \in Run /\ c.pc = pc /\ c.account = run[p].account /\ c.alone = FALSE
  <2>1. \A pc \in {"failed", "reply"} : Drop(run[p], pc) \in Run
    BY <1>1, <1>3, CallsAreRuns DEF TypeOK, Enriching, Marking
  <2> QED BY <2>1 DEF Drop, Call
<1>6. Idle.pc = "idle"
  BY DEF Idle
<1>7. CASE StepFails(p)
  <2>1. Moves(p, Drop(run[p], "failed"))
    BY <1>1, <1>5, <1>7, AssignmentMoves DEF StepFails
  <2>2. Collects(p, run[p].account)
    BY <1>2 DEF Collects
  <2>3. run' \in [Procs -> Run \cup {Idle}] /\ \A q \in Procs : Leaves(q)
    BY <1>5, <2>1, <2>2, MoveLeaves
  <2> QED BY <1>1, <1>4, <2>3, QuietStepKeeps DEF TypeOK
<1>8. CASE ~StepFails(p)
  <2>1. Return(p)
    BY <1>8 DEF MarkTry, MarkTryFails, CollectTimesOut
  <2>2. Moves(p, IF p = Loop THEN Idle ELSE Drop(run[p], "reply"))
    BY <1>1, <1>2, <2>1, ReturnMoves
  <2>3. run' \in [Procs -> Run \cup {Idle}] /\ \A q \in Procs : Leaves(q)
    BY <1>5, <1>6, <2>2, MoveLeaves
  <2> QED BY <1>1, <1>4, <2>3, QuietStepKeeps DEF TypeOK
<1> QED BY <1>7, <1>8

LEMMA LoopKeeps ==
  ASSUME IInv, ReadWatchlist \/ \E a \in Accounts : EnrichNext(a)
  PROVE  IInv'
<1>1. TypeOK /\ UNCHANGED <<now, answers, snapshot, profile, edges, watch, fetched>>
  BY DEF IInv, ReadWatchlist, EnrichNext, clocks, tables
<1>2. CASE ReadWatchlist
  <2>1. run' = run /\ pass' \subseteq Accounts
    BY <1>2 DEF ReadWatchlist, Due
  <2>2. \A q \in Procs : Leaves(q)
    BY <2>1 DEF Leaves
  <2> QED BY <1>1, <2>1, <2>2, QuietStepKeeps DEF TypeOK
<1>3. ASSUME NEW a \in Accounts, EnrichNext(a) PROVE IInv'
  <2>1. Loop \in Procs /\ Call(a) \in Run
    BY <1>1, CallsAreRuns DEF Procs, TypeOK
  <2>2. BeginEnrich(Loop, Call(a)) /\ pass' \subseteq Accounts
    BY <1>1, <1>3 DEF EnrichNext, TypeOK
  <2>3. run' \in [Procs -> Run \cup {Idle}]
    BY <1>1, <2>1, <2>2, BeginningMoves
  <2>4. TypeOK'
    BY <1>1, <2>2, <2>3 DEF TypeOK
  <2> QED BY <1>1, <2>1, <2>2, <2>4, BeginningKeeps DEF IInv
<1> QED BY <1>2, <1>3

LEMMA DossierKeeps ==
  ASSUME IInv, NEW p \in Callers, Dossier(p)
  PROVE  IInv'
<1>0. p \in Procs /\ TypeOK
  BY DEF Procs, IInv
<1>1. UNCHANGED <<now, answers, snapshot, profile, edges, pass, fetched>>
  BY DEF Dossier, AddToWatchlist, ReadProfile, SendDossier, Abandon, clocks, tables
<1>2. ASSUME NEW a \in Accounts, AddToWatchlist(p, a) PROVE IInv'
  <2>1. watch' \in [Accounts -> Watched]
    <3>1. [watch[a] EXCEPT !.listed = TRUE, !.enabled = TRUE] \in Watched
      BY <1>0 DEF TypeOK, Watched
    <3>2. watch' = [watch EXCEPT ![a] = [watch[a] EXCEPT !.listed = TRUE, !.enabled = TRUE]]
      BY <1>0, <1>2 DEF AddToWatchlist, TypeOK, Watched
    <3> QED BY <1>0, <3>1, <3>2 DEF TypeOK
  <2>2. Call(a) \in Run /\ Call(a).pc = "read"
    BY <1>0, CallsAreRuns DEF TypeOK, Call
  <2>3. Moves(p, Call(a))
    BY <1>0, <1>2, <2>2, AssignmentMoves DEF AddToWatchlist
  <2>4. run' \in [Procs -> Run \cup {Idle}] /\ \A q \in Procs : Leaves(q)
    BY <1>0, <2>2, <2>3, MoveLeaves
  <2> QED BY <1>0, <1>1, <2>1, <2>4, QuietStepKeeps DEF TypeOK
<1>3. CASE ReadProfile(p)
  <2>1. run[p] \in Run /\ run[p].pc # "idle" /\ watch' = watch
    BY <1>0, <1>3, CallIsRun DEF ReadProfile, At, tables
  <2>2. CASE IsFresh(profile[run[p].account])
    <3>1. Goto(p, "reply")
      BY <1>3, <2>2 DEF ReadProfile
    <3>2. Moves(p, [run[p] EXCEPT !.pc = "reply"])
      BY <1>0, <2>1, <3>1, GotoMoves
    <3>3. [run[p] EXCEPT !.pc = "reply"].pc = "reply"
      BY <2>1 DEF Run
    <3>4. run' \in [Procs -> Run \cup {Idle}] /\ \A q \in Procs : Leaves(q)
      BY <1>0, <3>2, <3>3, MoveLeaves
    <3> QED BY <1>0, <1>1, <2>1, <3>4, QuietStepKeeps DEF TypeOK
  <2>3. CASE ~IsFresh(profile[run[p].account])
    <3>1. BeginEnrich(p, run[p])
      BY <1>3, <2>3 DEF ReadProfile
    <3>2. run' \in [Procs -> Run \cup {Idle}]
      BY <1>0, <2>1, <3>1, BeginningMoves
    <3>3. TypeOK'
      BY <1>0, <1>1, <2>1, <3>2 DEF TypeOK
    <3> QED BY <1>0, <1>1, <2>1, <3>1, <3>3, BeginningKeeps DEF IInv
  <2> QED BY <2>2, <2>3
<1>4. CASE SendDossier(p) \/ Abandon(p)
  <2>1. run' = [run EXCEPT ![p] = Idle] /\ watch' = watch
    BY <1>4 DEF SendDossier, Abandon, tables
  <2>2. Moves(p, Idle) /\ Idle.pc = "idle"
    BY <1>0, <2>1, AssignmentMoves DEF Idle
  <2>3. run' \in [Procs -> Run \cup {Idle}] /\ \A q \in Procs : Leaves(q)
    BY <1>0, <2>2, MoveLeaves
  <2> QED BY <1>0, <1>1, <2>1, <2>3, QuietStepKeeps DEF TypeOK
<1> QED BY <1>2, <1>3, <1>4 DEF Dossier

\* The clock, a restart, and steps that change nothing.
LEMMA QuietKeeps ==
  ASSUME IInv, Tick \/ Restart \/ UNCHANGED vars
  PROVE  IInv'
<1>1. /\ TypeOK /\ now' \in Time /\ watch' = watch /\ pass' \subseteq Accounts
      /\ UNCHANGED <<answers, snapshot, profile, edges, fetched>>
  BY DEF IInv, TypeOK, Tick, Restart, vars, clocks, tables, Time
<1>2. run' \in [Procs -> Run \cup {Idle}] /\ \A q \in Procs : Leaves(q)
  <2>1. CASE run' = run
    BY <1>1, <2>1 DEF TypeOK, Leaves
  <2>2. CASE Restart
    BY <2>2 DEF Restart, Leaves, Idle
  <2> QED BY <2>1, <2>2 DEF Tick, vars
<1> QED BY <1>1, <1>2, QuietStepKeeps DEF TypeOK

LEMMA StepKeeps == ASSUME IInv, [Next]_vars PROVE IInv'
<1>1. ASSUME NEW p \in Procs, Enrich(p) PROVE IInv'
  <2>1. CASE FetchAnswers(p)
    BY <2>1, FetchAnswersKeeps
  <2>2. CASE CompareSnapshot(p)
    BY <2>2, CompareSnapshotKeeps
  <2>3. CASE InsertSnapshot(p)
    BY <2>3, InsertSnapshotKeeps
  <2>4. CASE SaveProfile(p)
    BY <2>4, SaveProfileKeeps
  <2>5. CASE UpsertFriends(p)
    BY <2>5, UpsertFriendsKeeps
  <2>6. CASE MarkLostFriends(p)
    BY <2>6, MarkLostFriendsKeeps
  <2>7. CASE StepFails(p) \/ MarkTry(p) \/ MarkTryFails(p) \/ CollectTimesOut(p)
    BY <2>7, EndingKeeps
  <2> QED BY <1>1, <2>1, <2>2, <2>3, <2>4, <2>5, <2>6, <2>7 DEF Enrich
<1> QED BY <1>1, LoopKeeps, DossierKeeps, QuietKeeps DEF Next

LEMMA IInvAlways == Spec => []IInv
BY InitIsInv, StepKeeps, PTL DEF Spec

-----------------------------------------------------------------------------
(* Theorems *)

\* Every state is typed: no row of service.go and steam_repo.go lacks its stamp.
THEOREM SteamIsTyped == Spec => []TypeOK
BY IInvAlways, PTL DEF IInv

\* The graph claims nothing that no list said (SaveFriends under any overlap).
THEOREM GraphIsWitnessed == Spec => []EdgesAreWitnessed
BY IInvAlways, PTL DEF IInv

\* An Enrich that no other one overlapped leaves everything as its answer has
\* it, whatever runs that overlapped or broke off left before.
THEOREM LoneRunsRepair == Spec => []LoneRunsAreFaithful
<1>1. ASSUME IInv PROVE LoneRunsAreFaithful
  <2> SUFFICES ASSUME NEW p \in Procs, At(p, {"ok"}), run[p].alone
               PROVE  LET a == run[p].account IN
                      /\ \A s \in Sources : run[p].sources[s].body # "no" => SameAsLast(p, s)
                      /\ \A s \in FieldSources :
                           run[p].sources[s].value # Unknown =>
                             profile[a].known[s] = run[p].sources[s].value
                      /\ \A s \in Shown : profile[a].shown[s] = Visible(run[p].sources, s)
                      /\ TouchesGraph(p) => {f \in Friends : Current(a, f)} = Listed(p)
    BY DEF LoneRunsAreFaithful
  <2>1. CallFollows(p) /\ At(p, Holding) /\ At(p, {"friends", "upserted", "ok"})
    BY <1>1 DEF IInv, At, Holding
  <2>2. run[p].todo = {}
    BY <2>1 DEF CallFollows, AnswerIsPast
  <2>3. \A s \in Sources : run[p].sources[s].body # "no" => SameAsLast(p, s)
    BY <2>1, <2>2 DEF CallFollows, JournalFollows
  <2>4. /\ \A s \in FieldSources :
             run[p].sources[s].value # Unknown =>
               profile[run[p].account].known[s] = run[p].sources[s].value
        /\ \A s \in Shown : profile[run[p].account].shown[s] = Visible(run[p].sources, s)
    BY <2>1 DEF CallFollows, ProfileFollows
  <2>5. TouchesGraph(p) => Listed(p) \subseteq Friends
    BY <1>1, <2>1, CallIsRun DEF IInv, At, Holding, TouchesGraph, Listing, Listed, Answer
  <2>6. TouchesGraph(p) => {f \in Friends : Current(run[p].account, f)} = Listed(p)
    BY <2>1, <2>5 DEF CallFollows, GraphFollows
  <2> QED BY <2>3, <2>4, <2>6
<1> QED BY <1>1, IInvAlways, PTL

\* Which steps write which table.
LEMMA TableWriters ==
  ASSUME [Next]_vars
  PROVE  /\ profile' = profile \/ \E p \in Procs : SaveProfile(p)
         /\ edges' = edges \/ \E p \in Procs : MarkLostFriends(p)
         /\ snapshot' = snapshot \/ \E p \in Procs : InsertSnapshot(p)
<1>1. ASSUME NEW p \in Procs, Enrich(p)
      PROVE  /\ profile' = profile \/ SaveProfile(p)
             /\ edges' = edges \/ MarkLostFriends(p)
             /\ snapshot' = snapshot \/ InsertSnapshot(p)
  BY <1>1 DEF Enrich, FetchAnswers, CompareSnapshot, InsertSnapshot, SaveProfile, UpsertFriends,
     MarkLostFriends, StepFails, MarkTry, MarkTryFails, CollectTimesOut, tables
<1>2. ASSUME NEW p \in Callers, Dossier(p) PROVE UNCHANGED <<profile, edges, snapshot>>
  BY <1>2 DEF Dossier, AddToWatchlist, ReadProfile, SendDossier, Abandon, tables
<1>3. ASSUME Tick \/ Restart \/ ReadWatchlist \/ (\E a \in Accounts : EnrichNext(a)) \/ UNCHANGED vars
      PROVE  UNCHANGED <<profile, edges, snapshot>>
  BY <1>3 DEF Tick, Restart, ReadWatchlist, EnrichNext, vars, tables
<1> QED BY <1>1, <1>2, <1>3 DEF Next

\* Nothing learned is forgotten: COALESCE and GREATEST in steam_repo.go.
THEOREM NothingIsForgotten == Spec => KnownIsKept
<1>1. ASSUME IInv, [Next]_vars, NEW a \in Accounts
      PROVE  /\ profile[a] # NoProfile => profile'[a] # NoProfile
             /\ \A s \in FieldSources :
                  profile[a].known[s] # Unknown => profile'[a].known[s] # Unknown
  <2>1. CASE profile' = profile
    BY <2>1
  <2>2. ASSUME NEW p \in Procs, SaveProfile(p)
        PROVE  /\ profile[a] # NoProfile => profile'[a] # NoProfile
               /\ \A s \in FieldSources :
                    profile[a].known[s] # Unknown => profile'[a].known[s] # Unknown
    <3>1. /\ profile \in [Accounts -> Profile \cup {NoProfile}] /\ now \in Time
          /\ profile' = [profile EXCEPT ![run[p].account] = Merged(@, run[p].sources)]
      BY <1>1, <2>2 DEF IInv, TypeOK, SaveProfile
    <3>2. CASE a = run[p].account
      <4>1. profile'[a] = Merged(profile[a], run[p].sources)
        BY <3>1, <3>2
      <4>2. profile'[a].updated = now /\ now # Never /\ NoProfile.updated = Never
        BY <3>1, <4>1 DEF Merged, NoProfile, Time, Never
      <4>3. \A s \in FieldSources :
              profile[a].known[s] # Unknown => profile'[a].known[s] # Unknown
        BY <4>1 DEF Merged
      <4> QED BY <4>2, <4>3
    <3>3. CASE a # run[p].account
      BY <3>1, <3>3
    <3> QED BY <3>2, <3>3
  <2> QED BY <1>1, <2>1, <2>2, TableWriters
<1>2. ASSUME IInv, [Next]_vars, NEW a \in Accounts, NEW f \in Friends, edges[a][f] # NoEdge
      PROVE  /\ edges'[a][f] # NoEdge
             /\ edges'[a][f].first = edges[a][f].first
             /\ edges'[a][f].last >= edges[a][f].last
  <2> PICK old, new : old = edges[a][f] /\ new = edges'[a][f]
    OBVIOUS
  <2>1. old \in Edge
    BY <1>2 DEF IInv, TypeOK
  <2>2. CASE new = old
    BY <1>2, <2>1, <2>2 DEF Edge, Time
  <2>3. ASSUME NEW p \in Procs, MarkLostFriends(p)
        PROVE  new # NoEdge /\ new.first = old.first /\ new.last >= old.last
    <3> PICK t : t = run[p].got
      OBVIOUS
    <3>1. TypeOK /\ t \in Time /\ NoEdge \notin Edge
      BY <1>2, <2>3 DEF IInv, CallFollows, AnswerIsPast, MarkLostFriends, At, Holding, NoEdge, Edge,
         Time, Never
    <3>2. /\ a = run[p].account /\ f \in Listed(p) => new \in Edge /\ new = SeenAgain(old, t)
          /\ a = run[p].account /\ f \notin Listed(p) /\ Current(a, f) =>
               new \in Edge /\ new.first = old.first /\ new.last = old.last
          /\ a = run[p].account /\ f \notin Listed(p) /\ ~Current(a, f) => new = old
          /\ a # run[p].account => new = old
      BY <2>3, <3>1, EdgeFate
    <3>3. CASE new = old
      BY <2>1, <3>1, <3>3 DEF Edge, Time
    <3>4. CASE new \in Edge /\ new.first = old.first /\ new.last = old.last
      BY <2>1, <3>1, <3>4 DEF Edge, Time
    <3>5. CASE new \in Edge /\ new = SeenAgain(old, t)
      <4>1. /\ new.first = old.first
            /\ new.last = IF old.last > t THEN old.last ELSE t
        BY <1>2, <2>1, <3>5 DEF SeenAgain, Edge
      <4>2. old.last \in Nat /\ t \in Nat
        BY <2>1, <3>1 DEF Edge, Time
      <4>3. new.last >= old.last
        BY <4>1, <4>2
      <4> QED BY <3>1, <3>5, <4>1, <4>3
    <3> QED BY <3>2, <3>3, <3>4, <3>5
  <2> QED BY <1>2, <2>2, <2>3, TableWriters
<1>3. ASSUME IInv, [Next]_vars
      PROVE  [\A a \in Accounts :
                /\ profile[a] # NoProfile => profile'[a] # NoProfile
                /\ \A s \in FieldSources :
                     profile[a].known[s] # Unknown => profile'[a].known[s] # Unknown
                /\ \A f \in Friends :
                     LET old == edges[a][f]
                         new == edges'[a][f]
                     IN  old # NoEdge => /\ new # NoEdge
                                         /\ new.first = old.first
                                         /\ new.last >= old.last]_vars
  BY <1>1, <1>2, <1>3
<1> QED BY <1>3, IInvAlways, PTL DEF KnownIsKept, Spec

\* The journal has a new row only for a body that changed, unless two Enrich of
\* the account overlapped: SaveSnapshot compares and inserts without a lock.
THEOREM JournalRepeatsNeedOverlap == Spec => RepeatsNeedOverlap
<1>1. ASSUME IInv, [Next]_vars, NEW r \in snapshot' \ snapshot, NEW p \in Procs,
             At(p, {"insert"}), run[p].got = r.at, run[p].alone,
             NEW x \in RowsOf(r.account, r.source)
      PROVE  /\ x.at < r.at
             /\ x.body = r.body =>
                  \E y \in RowsOf(r.account, r.source) : x.at < y.at /\ y.body # r.body
  <2>1. PICK q \in Procs : InsertSnapshot(q)
    BY <1>1, TableWriters
  <2>2. /\ r = [account |-> run[q].account, source |-> NextSource(q),
                at |-> run[q].got, body |-> run[q].sources[NextSource(q)]]
        /\ At(q, {"insert"})
    BY <1>1, <2>1 DEF InsertSnapshot
  <2>3. q = p
    BY <1>1, <2>2 DEF IInv, AnswersAreOwn, At, Holding
  <2>4. CallFollows(p) /\ At(p, Holding) /\ TypeOK
    BY <1>1 DEF IInv, At, Holding
  <2>5. /\ r.account = run[p].account /\ r.source = NextSource(p)
        /\ r.body = run[p].sources[NextSource(p)]
        /\ r.source \in run[p].todo
    BY <1>1, <2>2, <2>3, <2>4, NextSourceIsLeft DEF CallFollows, AnswerIsPast
  <2>6. r.account \in Accounts /\ r.source \in Sources
    BY <2>4, <2>5, CallIsRun DEF At, Holding
  <2>7. x.at < r.at
    BY <1>1, <2>4, <2>5 DEF CallFollows, JournalFollows, RowsOf
  <2>8. PICK n \in RowsOf(r.account, r.source) :
          \A y \in RowsOf(r.account, r.source) : y.at <= n.at
    BY <1>1, <2>6 DEF IInv, NewestRowExists
  <2>9. n.body # r.body
    BY <1>1, <2>4, <2>5, <2>8 DEF CallFollows, JournalFollows, SameAsLast
  <2>10. x.at \in Nat /\ n.at \in Nat /\ x.at <= n.at
    BY <1>1, <2>4, <2>8 DEF TypeOK, Snapshot, RowsOf, Time
  <2>11. ASSUME x.body = r.body PROVE x.at < n.at
    <3>1. CASE x.at = n.at
      BY <1>1, <2>4, <2>5, <2>8, <2>11, <3>1 DEF CallFollows, JournalFollows, SameAsLast
    <3> QED BY <2>10, <3>1
  <2> QED BY <2>7, <2>9, <2>11
<1>2. ASSUME IInv, [Next]_vars
      PROVE  [\A r \in snapshot' \ snapshot : \A p \in Procs :
                At(p, {"insert"}) /\ run[p].got = r.at /\ run[p].alone =>
                  \A x \in RowsOf(r.account, r.source) :
                    /\ x.at < r.at
                    /\ x.body = r.body =>
                         \E y \in RowsOf(r.account, r.source) :
                           x.at < y.at /\ y.body # r.body]_vars
  BY <1>1, <1>2
<1> QED BY <1>2, IInvAlways, PTL DEF RepeatsNeedOverlap, Spec

=============================================================================
