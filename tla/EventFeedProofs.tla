-------------------------- MODULE EventFeedProofs --------------------------
(***************************************************************************)
(* What the cursor of the event feed guarantees for any number of servers, *)
(* players, events, crashes and any page size: an event is lost on its     *)
(* subscriber only if it became visible after a higher id.                 *)
(***************************************************************************)
EXTENDS EventFeed, FiniteSetTheorems, WellFoundedInduction, TLAPS

-----------------------------------------------------------------------------
(* The inductive invariant *)

Finite == IsFiniteSet(table) /\ \A s \in Servers : IsFiniteSet(pending[s])

\* An id is given out once, in the order of the sequence.
IdsAreUnique ==
  /\ \A e \in committed : e.id <= seq
  /\ \A s \in Servers : \A e \in pending[s] :
       /\ e.id <= seq
       /\ \A d \in committed : d.id # e.id
       /\ \A t \in Servers : \A d \in pending[t] : s # t => d.id # e.id

OwedAreVisible ==
  /\ table \subseteq committed
  /\ owed \subseteq table
  /\ \A e \in owed : e.player \in subs /\ ~e.replay
  /\ cursor = None => owed = {}

\* The cursor, and the next one, is the id of an event that was visible.
CursorsAreIds ==
  /\ cursor > 0 => \E d \in committed : d.id = cursor
  /\ next > 0 => \E d \in committed : d.id = next
  /\ phase = "sending" => cursor # None /\ cursor <= next

Reached(e) == sent[e.id] > 0 \/ e \in overtaken

\* With a page in hand, what next_after will pass has been handled or is in
\* the page.
PageIsComplete ==
  phase = "sending" => \A e \in owed : e.id <= next => Reached(e) \/ e \in page

PageIsNews == \A e \in page : e \in committed /\ ~e.replay

IInv ==
  /\ TypeOK
  /\ Finite
  /\ IdsAreUnique
  /\ OwedAreVisible
  /\ CursorsAreIds
  /\ PageIsComplete
  /\ PageIsNews
  /\ SkipsAreLateCommits
  /\ NotificationsAreNews

-----------------------------------------------------------------------------
(* The page *)

\* ORDER BY and LIMIT: a page holds every matching row up to its last one.
LEMMA PageIsDownwardClosed ==
  ASSUME NEW rows, IsFiniteSet(rows), rows \subseteq Event,
         NEW e \in rows, NEW f \in FirstOf(rows), e.id <= f.id
  PROVE  e \in FirstOf(rows)
<1> DEFINE Upto(x) == {d \in rows : d.id <= x.id}
<1>1. FeedAssumption
  BY FeedAssumption
<1>2. f \in rows /\ Cardinality(Upto(f)) <= Limit
  BY DEF FirstOf
<1>3. IsFiniteSet(Upto(f)) /\ Upto(e) \subseteq Upto(f)
  <2>1. Upto(f) \subseteq rows
    OBVIOUS
  <2>2. \A d \in rows : d.id \in Int
    BY FeedAssumption DEF Event, Ids
  <2> QED BY <1>2, <2>1, <2>2, FS_Subset
<1>4. /\ IsFiniteSet(Upto(e)) 
      /\ Cardinality(Upto(e)) <= Cardinality(Upto(f))
  BY <1>3, FS_Subset
<1>5. Cardinality(Upto(e)) \in Nat /\ Cardinality(Upto(f)) \in Nat
  BY <1>3, <1>4, FS_CardinalityType
<1>6. Cardinality(Upto(e)) <= Limit
  BY <1>2, <1>4, <1>5, FeedAssumption
<1> QED BY <1>6 DEF FirstOf

\* A response: its rows are matching rows, its next_after is the cursor or an
\* id in the page, and it passes over no matching row.
LEMMA FetchedPage ==
  ASSUME IInv, Fetch
  PROVE  /\ page' \subseteq Matching(cursor)
         /\ next' \in 0 .. MaxEvents
         /\ cursor <= next'
         /\ next' > 0 => \E d \in committed : d.id = next'
         /\ \A e \in Matching(cursor) : e.id <= next' => e \in page'
<1> USE DEF IInv
<1> DEFINE M == Matching(cursor)
<1>1. M \subseteq table /\ M \subseteq Event /\ IsFiniteSet(M)
  <2>1. M \subseteq table
    BY DEF Matching
  <2> QED BY <2>1, FS_Subset DEF TypeOK, Finite
<1>2. page' = FirstOf(M) /\ next' \in 0 .. MaxEvents /\ IsNextAfter(page', cursor, next')
  BY DEF Fetch
<1>3. page' \subseteq M
  BY <1>2 DEF FirstOf
<1>4. \A e \in M : cursor < e.id /\ e.id \in Ids
  BY <1>1 DEF Matching, TypeOK, Event
<1>5. cursor \in 0 .. MaxEvents
  BY DEF Fetch, TypeOK
<1>6. CASE page' = {}
  <2>1. next' = cursor
    BY <1>2, <1>6 DEF IsNextAfter
  <2>2. \A e \in M : ~(e.id <= next')
    BY <2>1, <1>4, <1>5, FeedAssumption DEF Ids
  <2>3. next' > 0 => \E d \in committed : d.id = next'
    BY <2>1 DEF CursorsAreIds
  <2> QED BY <1>2, <1>3, <1>5, <2>1, <2>2, <2>3, FeedAssumption
<1>7. CASE page' # {}
  <2>1. PICK f \in page' : next' = f.id
    BY <1>2, <1>7 DEF IsNextAfter
  <2>2. f \in M /\ f \in committed
    BY <2>1, <1>3, <1>1 DEF OwedAreVisible
  <2>3. cursor <= next'
    BY <2>1, <2>2, <1>4, <1>5, FeedAssumption DEF Ids
  <2>4. \A e \in M : e.id <= next' => e \in page'
    BY <1>1, <1>2, <2>1, PageIsDownwardClosed
  <2> QED BY <1>2, <1>3, <2>1, <2>2, <2>3, <2>4
<1> QED BY <1>6, <1>7

-----------------------------------------------------------------------------
(* Initial states and steps *)

\* The invariant holds in the empty database with a consumer that never ran.
LEMMA InitIInv == Init => IInv
<1> SUFFICES ASSUME Init PROVE IInv
  OBVIOUS
<1>1. TypeOK
  BY FeedAssumption DEF Init, TypeOK, None
<1>2. Finite
  BY FS_EmptySet DEF Init, Finite
<1> QED BY <1>1, <1>2 DEF Init, IInv, IdsAreUnique, OwedAreVisible, CursorsAreIds,
           PageIsComplete, PageIsNews, SkipsAreLateCommits, NotificationsAreNews, None, Ids

\* AppendEvent: the new row's id is above every id there is.
LEMMA AppendKeepsIInv ==
  ASSUME IInv, NEW s \in Servers, AppendEvent(s)
  PROVE  IInv'
<1> USE FeedAssumption DEF IInv
<1> PICK p \in Players, r \in BOOLEAN :
         pending' = [pending EXCEPT ![s] = @ \cup {[id |-> seq + 1, player |-> p, replay |-> r]}]
  BY DEF AppendEvent
<1> DEFINE new == [id |-> seq + 1, player |-> p, replay |-> r]
<1>1. new \in Event /\ seq' = seq + 1 /\ seq' \in 0 .. MaxEvents
  BY DEF AppendEvent, Event, Ids, TypeOK
<1>2. \A t \in Servers : pending'[t] = IF t = s THEN pending[t] \cup {new} ELSE pending[t]
  BY DEF TypeOK
<1>3. UNCHANGED <<table, cursor, subs, page, next, phase, crashes, sent, committed, owed,
                  overtaken, start>>
  BY DEF AppendEvent, botVars
<1>4. TypeOK'
  <2>1. pending' \in [Servers -> SUBSET Event]
    BY <1>1, <1>2 DEF TypeOK
  <2> QED BY <1>1, <1>3, <2>1 DEF TypeOK
<1>5. Finite'
  <2>1. IsFiniteSet(pending[s]) /\ IsFiniteSet(pending[s] \cup {new})
    BY FS_AddElement DEF Finite
  <2> HIDE DEF new
  <2> QED BY <1>2, <1>3, <2>1 DEF Finite
<1>6. IdsAreUnique'
  <2>1. \A e \in committed : e.id \in Int /\ e.id <= seq
    BY DEF IdsAreUnique, TypeOK, Event, Ids
  <2>2. \A t \in Servers : \A e \in pending[t] : e.id \in Int /\ e.id <= seq
    BY DEF IdsAreUnique, TypeOK, Event, Ids
  <2>3. new.id = seq + 1 /\ seq \in Int
    BY DEF TypeOK
  <2>4. \A e \in committed : e.id <= seq' /\ e.id # new.id
    BY <1>1, <2>1, <2>3
  <2>5. \A t \in Servers : \A e \in pending[t] : e.id <= seq' /\ e.id # new.id
    BY <1>1, <2>2, <2>3
  <2>6. \A t \in Servers : \A e \in pending'[t] : e \in pending[t] \/ (e = new /\ t = s)
    BY <1>2
  <2>7. new.id <= seq'
    BY <1>1, <2>3
  <2> HIDE DEF new
  <2>8. ASSUME NEW t \in Servers, NEW e \in pending'[t]
        PROVE  /\ e.id <= seq'
               /\ \A d \in committed : d.id # e.id
               /\ \A u \in Servers : \A d \in pending'[u] : t # u => d.id # e.id
    BY <2>4, <2>5, <2>6, <2>7, <2>8 DEF IdsAreUnique
  <2> QED BY <1>3, <2>4, <2>8 DEF IdsAreUnique
<1> QED BY <1>3, <1>4, <1>5, <1>6 DEF OwedAreVisible, CursorsAreIds, PageIsComplete,
           PageIsNews, SkipsAreLateCommits, NotificationsAreNews, Reached, Ids

\* Commit, the step that matters: a row that becomes visible at or below a
\* cursor has been overtaken, because cursors are ids of visible rows.
LEMMA CommitKeepsIInv ==
  ASSUME IInv, NEW s \in Servers, Commit(s)
  PROVE  IInv'
<1> USE FeedAssumption DEF IInv
<1>1. /\ table' = table \cup pending[s]
      /\ pending' = [pending EXCEPT ![s] = {}]
      /\ committed' = committed \cup pending[s]
      /\ owed' = owed \cup {e \in pending[s] : e.player \in subs /\ ~e.replay /\ cursor # None}
      /\ overtaken' = overtaken \cup {e \in pending[s] : \E d \in committed : d.id > e.id}
      /\ UNCHANGED <<seq, subs, cursor, page, next, phase, crashes, sent, start>>
  BY DEF Commit, botVars
<1>2. pending[s] \subseteq Event
  BY DEF TypeOK
<1>3. \A t \in Servers : pending'[t] = IF t = s THEN {} ELSE pending[t]
  BY <1>1 DEF TypeOK
<1>4. TypeOK'
  <2>1. pending' \in [Servers -> SUBSET Event]
    BY <1>3, <1>1 DEF TypeOK
  <2> QED BY <1>1, <1>2, <2>1 DEF TypeOK
<1>5. Finite'
  BY <1>1, <1>3, FS_EmptySet, FS_Union DEF Finite
<1>6. IdsAreUnique'
  BY <1>1, <1>3 DEF IdsAreUnique
<1>7. OwedAreVisible'
  BY <1>1 DEF OwedAreVisible
<1>8. CursorsAreIds'
  BY <1>1 DEF CursorsAreIds
<1>9. ASSUME NEW e \in pending[s], NEW c \in 0 .. MaxEvents, e.id <= c,
             c > 0 => \E d \in committed : d.id = c
      PROVE  e \in overtaken'
  <2>1. e.id \in Ids
    BY <1>2 DEF Event
  <2>2. PICK d \in committed : d.id = c
    BY <1>9, <2>1 DEF Ids
  <2>3. d.id # e.id
    BY DEF IdsAreUnique
  <2>4. d.id > e.id
    BY <1>9, <2>1, <2>2, <2>3 DEF Ids
  <2> QED BY <1>1, <2>4
<1>10. SkipsAreLateCommits'
  <2> SUFFICES ASSUME NEW e \in owed', e.id <= cursor
               PROVE  sent[e.id] > 0 \/ e \in overtaken'
    BY <1>1 DEF SkipsAreLateCommits
  <2>1. CASE e \in owed
    BY <1>1, <2>1 DEF SkipsAreLateCommits
  <2>2. CASE e \in pending[s] /\ cursor # None
    BY <1>9, <2>2 DEF TypeOK, CursorsAreIds
  <2> QED BY <1>1, <2>1, <2>2
<1>11. PageIsComplete'
  <2> SUFFICES ASSUME phase = "sending", NEW e \in owed', e.id <= next
               PROVE  Reached(e)' \/ e \in page
    BY <1>1 DEF PageIsComplete
  <2>1. CASE e \in owed
    BY <1>1, <2>1 DEF PageIsComplete, Reached
  <2>2. CASE e \in pending[s]
    BY <1>9, <2>2 DEF TypeOK, CursorsAreIds, Reached
  <2> QED BY <1>1, <2>1, <2>2
<1>12. PageIsNews' /\ NotificationsAreNews'
  BY <1>1 DEF PageIsNews, NotificationsAreNews
<1> QED BY <1>4, <1>5, <1>6, <1>7, <1>8, <1>10, <1>11, <1>12

\* Rollback takes away rows nobody has seen.
LEMMA RollbackKeepsIInv ==
  ASSUME IInv, NEW s \in Servers, Rollback(s)
  PROVE  IInv'
<1> USE FeedAssumption DEF IInv
<1>1. /\ pending' = [pending EXCEPT ![s] = {}]
      /\ UNCHANGED <<seq, table, subs, cursor, page, next, phase, crashes, sent, committed,
                     owed, overtaken, start>>
  BY DEF Rollback, botVars
<1>2. \A t \in Servers : pending'[t] = IF t = s THEN {} ELSE pending[t]
  BY <1>1 DEF TypeOK
<1>3. TypeOK'
  <2>1. pending' \in [Servers -> SUBSET Event]
    BY <1>1, <1>2 DEF TypeOK
  <2> QED BY <1>1, <2>1 DEF TypeOK
<1>4. Finite' /\ IdsAreUnique'
  BY <1>1, <1>2, FS_EmptySet DEF Finite, IdsAreUnique
<1> QED BY <1>1, <1>3, <1>4 DEF OwedAreVisible, CursorsAreIds, PageIsComplete,
           PageIsNews, SkipsAreLateCommits, NotificationsAreNews, Reached

\* Expire takes a row from the table and from what is owed.
LEMMA ExpireKeepsIInv ==
  ASSUME IInv, Expire
  PROVE  IInv'
<1> USE FeedAssumption DEF IInv
<1> PICK e \in table : table' = table \ {e} /\ owed' = owed \ {e}
  BY DEF Expire
<1>1. UNCHANGED <<seq, pending, subs, cursor, page, next, phase, crashes, sent, committed,
                  overtaken, start>>
  BY DEF Expire, botVars
<1>2. TypeOK'
  BY <1>1 DEF TypeOK
<1>3. Finite' /\ IdsAreUnique'
  <2>1. IsFiniteSet(table')
    BY FS_Subset DEF Finite
  <2> QED BY <1>1, <2>1 DEF Finite, IdsAreUnique
<1> QED BY <1>1, <1>2, <1>3 DEF OwedAreVisible, CursorsAreIds, PageIsComplete,
           PageIsNews, SkipsAreLateCommits, NotificationsAreNews, Reached

\* TakeHead: nothing is owed to a consumer that has no cursor.
LEMMA TakeHeadKeepsIInv ==
  ASSUME IInv, TakeHead
  PROVE  IInv'
<1> USE FeedAssumption DEF IInv
<1>1. /\ UNCHANGED <<seq, pending, table, subs, page, next, phase, crashes, sent,
                     committed, owed, overtaken>>
      /\ cursor = None /\ cursor' \in 0 .. MaxEvents /\ IsHead(cursor') /\ start' = cursor'
  BY DEF TakeHead, feedVars
<1>2. TypeOK'
  BY <1>1 DEF TypeOK
<1>3. CursorsAreIds'
  BY <1>1 DEF CursorsAreIds, IsHead, OwedAreVisible
<1> QED BY <1>1, <1>2, <1>3 DEF Finite, IdsAreUnique, OwedAreVisible, PageIsComplete,
           PageIsNews, SkipsAreLateCommits, NotificationsAreNews, Reached

\* Fetch: the response passes over nothing the consumer waits for.
LEMMA FetchKeepsIInv ==
  ASSUME IInv, Fetch
  PROVE  IInv'
<1> USE FeedAssumption DEF IInv
<1>1. /\ UNCHANGED <<seq, pending, table, cursor, subs, crashes, sent, committed, owed,
                     overtaken, start>>
      /\ phase' = "sending" /\ cursor # None
  BY DEF Fetch, feedVars
<1>2. /\ page' \subseteq Matching(cursor)
      /\ next' \in 0 .. MaxEvents
      /\ cursor <= next'
      /\ next' > 0 => \E d \in committed : d.id = next'
      /\ \A e \in Matching(cursor) : e.id <= next' => e \in page'
  <2> HIDE DEF IInv
  <2> QED BY FetchedPage
<1>3. page' \subseteq table
  BY <1>2 DEF Matching
<1>4. TypeOK'
  BY <1>1, <1>2, <1>3 DEF TypeOK
<1>5. Finite' /\ IdsAreUnique' /\ OwedAreVisible' /\ SkipsAreLateCommits' /\ NotificationsAreNews'
  BY <1>1 DEF Finite, IdsAreUnique, OwedAreVisible, SkipsAreLateCommits, NotificationsAreNews
<1>6. CursorsAreIds'
  BY <1>1, <1>2 DEF CursorsAreIds
<1>7. PageIsNews'
  BY <1>1, <1>2, <1>3 DEF PageIsNews, Matching, OwedAreVisible
<1>8. PageIsComplete'
  <2> SUFFICES ASSUME NEW e \in owed, e.id <= next'
               PROVE  Reached(e)' \/ e \in page'
    BY <1>1 DEF PageIsComplete
  <2>1. CASE e.id <= cursor
    BY <1>1, <2>1 DEF SkipsAreLateCommits, Reached
  <2>2. CASE ~(e.id <= cursor)
    <3>1. e \in table /\ Wanted(e) /\ ~e.replay
      BY DEF OwedAreVisible, Wanted
    <3>2. e.id > cursor
      BY <1>1, <2>2, <3>1 DEF TypeOK, Event, Ids
    <3> QED BY <1>2, <3>1, <3>2 DEF Matching
  <2> QED BY <2>1, <2>2
<1> QED BY <1>4, <1>5, <1>6, <1>7, <1>8

\* Send: the event it takes from the page is notified if anyone is owed it.
LEMMA SendKeepsIInv ==
  ASSUME IInv, Send
  PROVE  IInv'
<1> USE FeedAssumption DEF IInv
<1> PICK e \in page :
         /\ page' = page \ {e}
         /\ sent' = IF e.player \in subs THEN [sent EXCEPT ![e.id] = @ + 1] ELSE sent
  BY DEF Send
<1>1. UNCHANGED <<seq, pending, table, cursor, subs, next, phase, crashes, committed, owed,
                  overtaken, start>>
  BY DEF Send, feedVars
<1>2. e.id \in Ids /\ e \in committed /\ ~e.replay
  BY DEF TypeOK, Event, PageIsNews
<1>3. sent' \in [Ids -> Nat]
  BY <1>2 DEF TypeOK
<1>4. \A i \in Ids : /\ sent[i] > 0 => sent'[i] > 0
                     /\ sent'[i] > 0 => sent[i] > 0 \/ i = e.id
  BY <1>2 DEF TypeOK
<1>5. e.player \in subs => sent'[e.id] > 0
  BY <1>2 DEF TypeOK
<1>6. TypeOK'
  BY <1>1, <1>3 DEF TypeOK
<1>7. \A d \in owed : d.id \in Ids
  BY DEF TypeOK, Event
<1>8. SkipsAreLateCommits'
  BY <1>1, <1>4, <1>7 DEF SkipsAreLateCommits
<1>9. PageIsComplete'
  BY <1>1, <1>4, <1>5, <1>7 DEF PageIsComplete, Reached, OwedAreVisible
<1>10. NotificationsAreNews'
  BY <1>1, <1>2, <1>4 DEF NotificationsAreNews
<1>11. PageIsNews'
  BY <1>1 DEF PageIsNews
<1> QED BY <1>1, <1>6, <1>8, <1>9, <1>10, <1>11 DEF Finite, IdsAreUnique, OwedAreVisible,
           CursorsAreIds

\* SaveCursor: the page is empty, so what the cursor passes has been handled.
LEMMA SaveCursorKeepsIInv ==
  ASSUME IInv, SaveCursor
  PROVE  IInv'
<1> USE FeedAssumption DEF IInv
<1>1. /\ UNCHANGED <<seq, pending, table, subs, page, crashes, sent, committed, owed,
                     overtaken, start>>
      /\ phase = "sending" /\ page = {} /\ cursor' = next /\ next' = 0 /\ phase' = "idle"
  BY DEF SaveCursor, feedVars
<1>2. TypeOK'
  BY <1>1 DEF TypeOK
<1>3. SkipsAreLateCommits'
  BY <1>1 DEF SkipsAreLateCommits, PageIsComplete, Reached
<1>4. CursorsAreIds'
  BY <1>1 DEF CursorsAreIds
<1>5. cursor' # None
  BY <1>1 DEF TypeOK, None
<1> QED BY <1>1, <1>2, <1>3, <1>4, <1>5 DEF Finite, IdsAreUnique, OwedAreVisible,
           PageIsComplete, PageIsNews, NotificationsAreNews

\* A crash of the consumer forgets the page, not the cursor.
LEMMA CrashKeepsIInv ==
  ASSUME IInv, CrashConsumer
  PROVE  IInv'
<1> USE FeedAssumption DEF IInv
<1>1. /\ UNCHANGED <<seq, pending, table, cursor, subs, sent, committed, owed, overtaken, start>>
      /\ crashes < MaxCrashes /\ crashes' = crashes + 1
      /\ phase' = "idle" /\ page' = {} /\ next' = 0
  BY DEF CrashConsumer, feedVars
<1>2. TypeOK'
  BY <1>1 DEF TypeOK
<1> QED BY <1>1, <1>2 DEF Finite, IdsAreUnique, OwedAreVisible, CursorsAreIds, PageIsComplete,
           PageIsNews, SkipsAreLateCommits, NotificationsAreNews

\* A new subscriber has no claim to what is already there, one who leaves
\* gives up his.
LEMMA SubscriptionsKeepIInv ==
  ASSUME IInv, NEW p \in Players, Subscribe(p) \/ Unsubscribe(p)
  PROVE  IInv'
<1> USE FeedAssumption DEF IInv
<1>1. UNCHANGED <<seq, pending, table, cursor, page, next, phase, crashes, sent, committed,
                  overtaken, start>>
  BY DEF Subscribe, Unsubscribe, feedVars, botVars
<1>2. \/ owed' = owed /\ subs' = subs \cup {p}
      \/ owed' = {e \in owed : e.player # p} /\ subs' = subs \ {p}
  BY DEF Subscribe, Unsubscribe
<1>3. owed' \subseteq owed /\ \A e \in owed' : e.player \in subs'
  BY <1>2 DEF OwedAreVisible
<1>4. TypeOK'
  BY <1>1, <1>2, <1>3 DEF TypeOK
<1>5. OwedAreVisible'
  BY <1>1, <1>3 DEF OwedAreVisible
<1> QED BY <1>1, <1>3, <1>4, <1>5 DEF Finite, IdsAreUnique, CursorsAreIds, PageIsComplete,
           PageIsNews, SkipsAreLateCommits, NotificationsAreNews, Reached

\* Every step keeps the invariant.
LEMMA NextIInv == IInv /\ [Next]_vars => IInv'
<1> SUFFICES ASSUME IInv, [Next]_vars PROVE IInv'
  OBVIOUS
<1>1. ASSUME NEW s \in Servers, AppendEvent(s) \/ Commit(s) \/ Rollback(s) PROVE IInv'
  BY <1>1, AppendKeepsIInv, CommitKeepsIInv, RollbackKeepsIInv
<1>2. ASSUME NEW p \in Players, Subscribe(p) \/ Unsubscribe(p) PROVE IInv'
  BY <1>2, SubscriptionsKeepIInv
<1>3. CASE Expire
  BY <1>3, ExpireKeepsIInv
<1>4. CASE TakeHead
  BY <1>4, TakeHeadKeepsIInv
<1>5. CASE Fetch
  BY <1>5, FetchKeepsIInv
<1>6. CASE Send
  BY <1>6, SendKeepsIInv
<1>7. CASE SaveCursor
  BY <1>7, SaveCursorKeepsIInv
<1>8. CASE CrashConsumer
  BY <1>8, CrashKeepsIInv
<1>9. CASE UNCHANGED vars
  BY <1>9 DEF vars, IInv, TypeOK, Finite, IdsAreUnique, OwedAreVisible, CursorsAreIds,
              PageIsComplete, PageIsNews, SkipsAreLateCommits, NotificationsAreNews, Reached
<1> QED BY <1>1, <1>2, <1>3, <1>4, <1>5, <1>6, <1>7, <1>8, <1>9 DEF Next

-----------------------------------------------------------------------------
(* The theorems *)

\* The inductive invariant holds in every reachable state.
THEOREM Invariance == Spec => []IInv
<1> QED BY InitIInv, NextIInv, PTL DEF Spec

\* Every id, cursor and page of the feed is of its type.
THEOREM FeedTypeCorrect == Spec => []TypeOK
<1>1. IInv => TypeOK
  BY DEF IInv
<1> QED BY <1>1, Invariance, PTL

\* Whatever crashes, expires, is paged or is subscribed to meanwhile: the
\* cursor passes an event somebody waits for only after notifying it, unless
\* the event became visible after a higher id.
THEOREM OnlyLateCommitsAreSkipped == Spec => []SkipsAreLateCommits
<1>1. IInv => SkipsAreLateCommits
  BY DEF IInv
<1> QED BY <1>1, Invariance, PTL

\* No notification is about a rolled back event or a startup replay.
THEOREM OnlyNewsIsNotified == Spec => []NotificationsAreNews
<1>1. IInv => NotificationsAreNews
  BY DEF IInv
<1> QED BY <1>1, Invariance, PTL

\* The saved cursor never moves back.
THEOREM CursorIsMonotone == Spec => CursorNeverFallsBack
<1>1. IInv /\ [Next]_vars => [cursor' >= cursor]_cursor
  <2> SUFFICES ASSUME IInv, [Next]_vars, cursor' # cursor PROVE cursor' >= cursor
    OBVIOUS
  <2>1. TakeHead \/ SaveCursor
    BY DEF Next, vars, AppendEvent, Commit, Rollback, Expire, Fetch, Send, CrashConsumer,
           Subscribe, Unsubscribe, botVars
  <2>2. CASE TakeHead
    BY <2>2, FeedAssumption DEF TakeHead, None
  <2>3. CASE SaveCursor
    BY <2>3, FeedAssumption DEF SaveCursor, IInv, TypeOK, CursorsAreIds
  <2> QED BY <2>1, <2>2, <2>3
<1> QED BY <1>1, Invariance, PTL DEF Spec, CursorNeverFallsBack

-----------------------------------------------------------------------------
(* Repeats *)

\* No two rows have one id.
RowsHaveTheirIds ==
  /\ \A d, e \in committed : d.id = e.id => d = e
  /\ \A s \in Servers : \A d, e \in pending[s] : d.id = e.id => d = e

\* Where the consumer is now, it will come to id i (again) without a crash.
Ahead(i) ==
  \/ phase = "idle" /\ i > cursor
  \/ phase = "sending" /\ (i > next \/ \E e \in page : e.id = i)

\* What the consumer has ahead was told at most once per crash; `next' is the
\* end of the page.
Ration ==
  /\ RowsHaveTheirIds
  /\ phase = "sending" => \A e \in page : e.id <= next
  /\ RepeatsNeedCrashes
  /\ \A i \in Ids : Ahead(i) => sent[i] <= crashes

\* The numbers the steps below compare.
LEMMA Numbers ==
  ASSUME TypeOK
  PROVE  /\ seq \in Int /\ cursor \in Int /\ next \in Int /\ crashes \in Int
         /\ \A i \in Ids : i \in Int /\ sent[i] \in Int
         /\ \A e \in committed : e.id \in Ids
         /\ \A e \in table : e.id \in Ids
         /\ \A e \in page : e.id \in Ids
         /\ \A s \in Servers : \A e \in pending[s] : e.id \in Ids
BY FeedAssumption DEF TypeOK, Event, Ids, None

\* Each row has an id of its own.
LEMMA IdsStayUnique ==
  ASSUME IInv, RowsHaveTheirIds, Next
  PROVE  RowsHaveTheirIds'
<1>1. ASSUME NEW s \in Servers, AppendEvent(s) PROVE RowsHaveTheirIds'
  <2>1. PICK p \in Players, r \in BOOLEAN :
           pending' = [pending EXCEPT ![s] = @ \cup {[id |-> seq + 1, player |-> p, replay |-> r]}]
    BY <1>1 DEF AppendEvent
  <2> DEFINE new == [id |-> seq + 1, player |-> p, replay |-> r]
  <2>2. new.id = seq + 1
    OBVIOUS
  <2>3. \A t \in Servers : \A e \in pending[t] : e.id # new.id
    BY <2>2, Numbers DEF IInv, IdsAreUnique, Ids
  <2>4. \A t \in Servers : pending'[t] = pending[t] \/ pending'[t] = pending[t] \cup {new}
    BY <2>1 DEF IInv, TypeOK
  <2> HIDE DEF new
  <2> QED BY <1>1, <2>3, <2>4 DEF AppendEvent, RowsHaveTheirIds
<1>2. ASSUME NEW s \in Servers, Commit(s) PROVE RowsHaveTheirIds'
  <2>1. /\ committed' = committed \cup pending[s]
        /\ \A t \in Servers : pending'[t] \subseteq pending[t]
    BY <1>2 DEF Commit, IInv, TypeOK
  <2> QED BY <1>2, <2>1 DEF IInv, IdsAreUnique, RowsHaveTheirIds
<1>3. ASSUME NEW s \in Servers, Rollback(s) PROVE RowsHaveTheirIds'
  BY <1>3 DEF Rollback, RowsHaveTheirIds, IInv, TypeOK
<1>4. CASE UNCHANGED <<pending, committed>>
  BY <1>4 DEF RowsHaveTheirIds
<1> QED BY <1>1, <1>2, <1>3, <1>4 DEF Next, Expire, TakeHead, Fetch, Send, SaveCursor,
           CrashConsumer, Subscribe, Unsubscribe, feedVars

\* Fetch puts nothing into the page that was not ahead.
LEMMA FetchKeepsRation ==
  ASSUME IInv, Ration, Fetch
  PROVE  /\ phase' = "sending" => \A e \in page' : e.id <= next'
         /\ \A i \in Ids : Ahead(i)' => sent'[i] <= crashes'
<1>1. /\ page' = FirstOf(Matching(cursor)) /\ phase = "idle"
      /\ IsNextAfter(page', cursor, next') /\ UNCHANGED <<sent, crashes>>
  BY DEF Fetch
<1>2. \A e \in page' : e.id > cursor /\ e.id \in Ids
  BY <1>1, Numbers DEF FirstOf, Matching, IInv
<1>3. \A e \in page' : e.id <= next'
  BY <1>1, FeedAssumption DEF IsNextAfter
<1>4. next' \in Int /\ cursor <= next'
  <2>1. CASE page' = {}
    BY <1>1, <2>1, Numbers DEF IsNextAfter, IInv
  <2>2. CASE page' # {}
    <3>1. PICK e \in page' : next' = e.id
      BY <1>1, <2>2 DEF IsNextAfter
    <3> QED BY <1>2, <3>1, Numbers DEF IInv, Ids
  <2> QED BY <2>1, <2>2
<1>5. \A i \in Ids : Ahead(i)' => i > cursor
  BY <1>2, <1>4, Numbers DEF Ahead, IInv, Fetch
<1> QED BY <1>1, <1>3, <1>5 DEF Ration, Ahead

\* What is sent leaves the page, and nothing else there has its id.
LEMMA SendKeepsRation ==
  ASSUME IInv, Ration, Send
  PROVE  /\ phase' = "sending" => \A e \in page' : e.id <= next'
         /\ RepeatsNeedCrashes'
         /\ \A i \in Ids : Ahead(i)' => sent'[i] <= crashes'
<1>1. PICK e \in page :
        /\ page' = page \ {e}
        /\ sent' = IF e.player \in subs THEN [sent EXCEPT ![e.id] = @ + 1] ELSE sent
  BY DEF Send
<1>2. phase = "sending" /\ UNCHANGED <<next, phase, cursor, crashes>>
  BY DEF Send
<1>3. e.id \in Ids /\ e.id <= next /\ sent[e.id] <= crashes
  BY <1>2, Numbers DEF IInv, Ration, Ahead
<1>4. \A i \in Ids : sent'[i] = sent[i] \/ (i = e.id /\ sent'[i] = sent[i] + 1)
  BY <1>1, <1>3 DEF IInv, TypeOK
<1>5. ~Ahead(e.id)'
  <2>1. \A d \in page' : d.id # e.id
    BY <1>1 DEF IInv, PageIsNews, Ration, RowsHaveTheirIds
  <2>2. ~(e.id > next)
    BY <1>3, Numbers DEF IInv
  <2> QED BY <1>2, <2>1, <2>2 DEF Ahead
<1>6. \A i \in Ids : Ahead(i)' => Ahead(i)
  BY <1>1, <1>2 DEF Ahead
<1>7. RepeatsNeedCrashes'
  BY <1>2, <1>3, <1>4, Numbers DEF IInv, Ration, RepeatsNeedCrashes
<1>8. ASSUME NEW i \in Ids, Ahead(i)' PROVE sent'[i] <= crashes'
  BY <1>2, <1>4, <1>5, <1>6, <1>8 DEF Ration
<1> QED BY <1>1, <1>2, <1>7, <1>8 DEF Ration

\* Every step keeps the ration.
LEMMA NextRation == IInv /\ Ration /\ [Next]_vars => Ration'
<1> SUFFICES ASSUME IInv, Ration, [Next]_vars PROVE Ration'
  OBVIOUS
<1>1. RowsHaveTheirIds'
  BY IdsStayUnique DEF vars, Ration, RowsHaveTheirIds
<1>2. CASE UNCHANGED <<cursor, page, next, phase, crashes, sent>>
  BY <1>1, <1>2 DEF Ration, RepeatsNeedCrashes, Ahead
<1>3. CASE TakeHead
  <2>1. /\ cursor' \in 0 .. MaxEvents /\ cursor = None
        /\ UNCHANGED <<page, next, phase, crashes, sent>>
    BY <1>3 DEF TakeHead
  <2>2. phase # "sending"
    BY <2>1 DEF IInv, CursorsAreIds
  <2>3. \A i \in Ids : Ahead(i)' => Ahead(i)
    BY <2>1, <2>2, FeedAssumption DEF Ahead, Ids, None
  <2> QED BY <1>1, <2>1, <2>2, <2>3 DEF Ration, RepeatsNeedCrashes
<1>4. CASE Fetch
  BY <1>1, <1>4, FetchKeepsRation DEF Fetch, Ration, RepeatsNeedCrashes
<1>5. CASE Send
  BY <1>1, <1>5, SendKeepsRation DEF Ration
<1>6. CASE SaveCursor
  <2>1. \A i \in Ids : Ahead(i)' => Ahead(i)
    BY <1>6 DEF SaveCursor, Ahead
  <2> QED BY <1>1, <1>6, <2>1 DEF Ration, RepeatsNeedCrashes, SaveCursor
<1>7. CASE CrashConsumer
  <2>1. crashes' = crashes + 1 /\ UNCHANGED sent /\ phase' = "idle"
    BY <1>7 DEF CrashConsumer
  <2>2. \A i \in Ids : sent'[i] <= crashes'
    BY <2>1 DEF Ration, RepeatsNeedCrashes
  <2>3. \A i \in Ids : sent'[i] <= crashes' + 1
    BY <2>1, <2>2, Numbers DEF IInv
  <2> QED BY <1>1, <2>1, <2>2, <2>3 DEF Ration, RepeatsNeedCrashes
<1> QED BY <1>2, <1>3, <1>4, <1>5, <1>6, <1>7 DEF Next, vars, AppendEvent, Commit, Rollback,
           Expire, Subscribe, Unsubscribe, botVars

\* An event is told at most once more than the consumer died.
THEOREM RepeatsAreCrashes == Spec => []RepeatsNeedCrashes
<1>1. Init => Ration
  <2> SUFFICES ASSUME Init PROVE Ration
    OBVIOUS
  <2>1. \A i \in Ids : sent[i] = 0 /\ crashes = 0
    BY DEF Init
  <2> QED BY <2>1 DEF Init, Ration, RowsHaveTheirIds, RepeatsNeedCrashes
<1>2. Ration => RepeatsNeedCrashes
  BY DEF Ration
<1> QED BY <1>1, <1>2, NextRation, Invariance, PTL DEF Spec

-----------------------------------------------------------------------------
(* EventFeed implements Delivery *)

\* What a claim names: an event somebody waits for, in the order of the ids.
Claimed == owed \ overtaken

\* Of the claims up to next_after those that are not behind the rest of the
\* page are in it.
ClaimsInHand ==
  phase = "sending" =>
    \A e \in Claimed, d \in page : e.id <= next /\ d.id <= e.id => e \in page

\* A page has a first row.
LEMMA PageHasFirst ==
  ASSUME NEW rows, rows # {}, \A e \in rows : e.id \in Nat
  PROVE  \E e \in rows : \A d \in rows : e.id <= d.id
<1> DEFINE T == {e.id : e \in rows}
<1>1. T \subseteq Nat /\ T # {}
  OBVIOUS
<1>2. PICK t \in T : \A u \in T : ~(<<u, t>> \in OpToRel(<, Nat))
  BY <1>1, NatLessThanWellFounded, WFMin
<1>3. \A u \in T : ~(u < t)
  BY <1>1, <1>2 DEF OpToRel
<1>4. PICK e \in rows : t = e.id
  OBVIOUS
<1>5. \A d \in rows : ~(d.id < e.id)
  BY <1>3, <1>4
<1> QED BY <1>4, <1>5

\* The position before, in and after a page.
LEMMA PositionOf ==
  ASSUME \A e \in page : e.id \in Nat
  PROVE  /\ phase = "idle" => Position = cursor
         /\ phase = "sending" /\ page = {} => Position = next
         /\ phase = "sending" => \A e \in page : (\A d \in page : e.id <= d.id) => Position = e.id - 1
<1>1. ASSUME phase = "sending", NEW e \in page, \A d \in page : e.id <= d.id
      PROVE  Position = e.id - 1
  <2>1. PICK c : c = CHOOSE f \in page : \A d \in page : f.id <= d.id
    OBVIOUS
  <2>2. c \in page /\ \A d \in page : c.id <= d.id
    BY <1>1, <2>1
  <2>3. c.id = e.id
    BY <1>1, <2>2
  <2> QED BY <1>1, <2>1, <2>3 DEF Position
<1> QED BY <1>1 DEF Position

\* The claims are in hand at first and after every step.
LEMMA NextClaims == IInv /\ Ration /\ ClaimsInHand /\ [Next]_vars => ClaimsInHand'
<1> SUFFICES ASSUME IInv, Ration, ClaimsInHand, [Next]_vars, phase' = "sending",
                    NEW e \in Claimed', NEW d \in page', e.id <= next', d.id <= e.id
             PROVE  e \in page'
  BY DEF ClaimsInHand
<1> USE FeedAssumption
<1>1. CASE /\ Claimed' \subseteq Claimed /\ UNCHANGED <<page, next, phase>>
  BY <1>1 DEF ClaimsInHand
<1>2. ASSUME NEW s \in Servers, Commit(s) PROVE e \in page'
  <2>1. UNCHANGED <<page, next, phase>>
    BY <1>2 DEF Commit, botVars
  <2>2. CASE e \in owed
    BY <1>2, <2>1, <2>2 DEF ClaimsInHand, Claimed, Commit
  <2>3. CASE e \in pending[s]
    <3>1. e.id \in Ids /\ next \in 0 .. MaxEvents
      BY <2>3 DEF IInv, TypeOK, Event
    <3>2. PICK c \in committed : c.id = next
      BY <2>1, <3>1 DEF IInv, CursorsAreIds, Ids
    <3>3. c.id # e.id
      BY <2>3 DEF IInv, IdsAreUnique
    <3>4. c.id > e.id
      BY <2>1, <3>1, <3>2, <3>3 DEF Ids
    <3>5. e \in overtaken'
      BY <1>2, <2>3, <3>4 DEF Commit
    <3> QED BY <3>5 DEF Claimed
  <2> QED BY <1>2, <2>2, <2>3 DEF Claimed, Commit
<1>3. CASE Fetch
  <2>1. /\ page' \subseteq Matching(cursor)
        /\ \A f \in Matching(cursor) : f.id <= next' => f \in page'
    BY <1>3, FetchedPage
  <2>2. e \in owed
    BY <1>3 DEF Claimed, Fetch
  <2>3. d.id > cursor /\ e.id > cursor
    <3>1. d.id \in Ids /\ e.id \in Ids /\ cursor \in Int /\ d.id > cursor
      BY <2>1, <2>2, Numbers DEF IInv, TypeOK, Matching
    <3> QED BY <3>1 DEF Ids
  <2>4. e \in Matching(cursor)
    BY <2>2, <2>3 DEF Matching, Wanted, IInv, OwedAreVisible
  <2> QED BY <2>1, <2>4
<1>4. CASE Send
  <2>1. PICK f \in page : page' = page \ {f} /\ \A g \in page : f.id <= g.id
    BY <1>4 DEF Send
  <2>2. UNCHANGED <<next, phase, owed, overtaken>>
    BY <1>4 DEF Send
  <2>3. d \in page /\ e \in page
    BY <2>1, <2>2 DEF ClaimsInHand, Claimed
  <2>4. d # f /\ d.id # f.id
    BY <2>1, <2>3 DEF IInv, PageIsNews, Ration, RowsHaveTheirIds
  <2>5. e # f
    BY <2>1, <2>3, <2>4, Numbers DEF IInv, Ids
  <2> QED BY <2>1, <2>3, <2>5
<1>5. CASE SaveCursor \/ CrashConsumer
  BY <1>5 DEF SaveCursor, CrashConsumer
<1>6. CASE TakeHead
  BY <1>6, <1>1 DEF TakeHead, Claimed
<1>7. ASSUME NEW p \in Players, Subscribe(p) \/ Unsubscribe(p) PROVE e \in page'
  BY <1>7, <1>1 DEF Subscribe, Unsubscribe, Claimed, botVars
<1>8. CASE Expire
  BY <1>8, <1>1 DEF Expire, Claimed, botVars
<1>9. ASSUME NEW s \in Servers, AppendEvent(s) \/ Rollback(s) PROVE e \in page'
  BY <1>9, <1>1 DEF AppendEvent, Rollback, Claimed, botVars
<1>10. CASE UNCHANGED vars
  BY <1>10, <1>1 DEF vars, Claimed
<1> QED BY <1>2, <1>3, <1>4, <1>5, <1>6, <1>7, <1>8, <1>9, <1>10 DEF Next

\* A step of the observer or of a subscriber moves the log, not the consumer.
LEMMA LogSteps ==
  ASSUME IInv, UNCHANGED <<cursor, page, next, phase, crashes, sent>>,
         \/ \E s \in Servers : Commit(s)
         \/ Claimed' \subseteq Claimed /\ UNCHANGED committed
  PROVE  D!Publish \/ D!Forgo
<1>1. Position' = Position
  BY DEF Position
<1>2. CASE Claimed' \subseteq Claimed /\ UNCHANGED committed
  BY <1>1, <1>2 DEF D!Forgo, Claimed, Claims, Published
<1>3. ASSUME NEW s \in Servers, Commit(s) PROVE D!Publish
  <2>1. /\ committed' = committed \cup pending[s]
        /\ owed' = owed \cup {e \in pending[s] : e.player \in subs /\ ~e.replay /\ cursor # None}
        /\ overtaken' = overtaken \cup {e \in pending[s] : \E d \in committed : d.id > e.id}
    BY <1>3 DEF Commit
  <2>2. /\ \A e \in committed : e.id \in Int
        /\ \A e \in pending[s] : e.id \in Int /\ \A d \in committed : d.id # e.id
        /\ owed \subseteq committed
    BY Numbers DEF IInv, IdsAreUnique, Ids, TypeOK
  <2>3. Claimed \subseteq Claimed'
    BY <2>1, <2>2 DEF Claimed
  <2>4. ASSUME NEW e \in Claimed', e \notin Claimed
        PROVE  e \in pending[s] /\ \A d \in committed : d.id < e.id
    <3>1. e \in pending[s] /\ e \notin overtaken'
      BY <2>1, <2>4 DEF Claimed
    <3> QED BY <2>1, <2>2, <3>1
  <2>5. Position = None => Claimed' = Claimed
    <3>1. ASSUME cursor # None PROVE Position # None
      <4>1. \A e \in page : e.id \in Nat /\ e.id > 0
        BY Numbers DEF IInv, Ids
      <4>2. cursor \in Nat /\ next \in Nat
        BY <3>1, FeedAssumption DEF IInv, TypeOK
      <4>3. CASE phase = "idle"
        BY <3>1, <4>1, <4>3, PositionOf
      <4>4. CASE phase = "sending" /\ page = {}
        BY <4>1, <4>2, <4>4, PositionOf DEF None
      <4>5. CASE phase = "sending" /\ page # {}
        <5>1. PICK e \in page : \A d \in page : e.id <= d.id
          BY <4>1, <4>5, PageHasFirst
        <5>2. Position = e.id - 1
          BY <4>1, <4>5, <5>1, PositionOf
        <5> QED BY <4>1, <5>2 DEF None
      <4> QED BY <4>3, <4>4, <4>5 DEF IInv, TypeOK
    <3>2. ASSUME cursor = None PROVE Claimed' = Claimed
      <4>1. owed' = {} /\ owed = {}
        BY <2>1, <3>2 DEF IInv, OwedAreVisible
      <4> QED BY <4>1 DEF Claimed
    <3> QED BY <3>1, <3>2
  <2>6. /\ {e.id : e \in committed} \subseteq {e.id : e \in committed'}
        /\ {e.id : e \in committed'} \subseteq Ids
    BY <2>1, Numbers DEF IInv
  <2>7. {e.id : e \in Claimed} \subseteq {e.id : e \in Claimed'}
    BY <2>3
  <2>8. ASSUME NEW i \in {e.id : e \in Claimed'} \ {e.id : e \in Claimed}
        PROVE  /\ i \in {e.id : e \in committed'} \ {e.id : e \in committed}
               /\ \A j \in {e.id : e \in committed} : j < i
    <3>1. PICK e \in Claimed' : i = e.id
      OBVIOUS
    <3>2. e \notin Claimed
      BY <2>8, <3>1
    <3>3. e \in pending[s] /\ \A d \in committed : d.id < e.id
      BY <2>4, <3>2
    <3> QED BY <2>1, <2>2, <3>1, <3>3
  <2> QED BY <1>1, <2>5, <2>6, <2>7, <2>8 DEF D!Publish, Claims, Claimed, Published
<1> QED BY <1>2, <1>3

\* The first head is where the consumer starts.
LEMMA HeadStarts ==
  ASSUME IInv, TakeHead
  PROVE  D!Start
<1>1. phase = "idle" /\ cursor = None /\ UNCHANGED <<phase, page, next>>
  BY DEF TakeHead, IInv, TypeOK, CursorsAreIds
<1>2. Position = cursor /\ Position' = cursor'
  BY <1>1 DEF Position
<1>3. Claimed = {}
  BY <1>1 DEF IInv, OwedAreVisible, Claimed
<1>4. cursor' = 0 \/ cursor' \in {e.id : e \in committed}
  BY DEF TakeHead, IsHead, IInv, OwedAreVisible
<1> QED BY <1>1, <1>2, <1>3, <1>4 DEF TakeHead, D!Start, D!log, Claims, Claimed, Published

\* A response takes the consumer to the place before its first row, and what he
\* passes on the way nobody has a claim to.
LEMMA FetchPasses ==
  ASSUME IInv, Fetch
  PROVE  D!Pass
<1> USE FeedAssumption
<1>1. /\ page' \subseteq Matching(cursor)
      /\ \A f \in Matching(cursor) : f.id <= next' => f \in page'
      /\ page' \subseteq committed /\ next' \in Int
  BY FetchedPage DEF Matching, IInv, OwedAreVisible
<1>2. /\ phase = "idle" /\ cursor # None /\ phase' = "sending"
      /\ UNCHANGED <<cursor, crashes, sent, committed, owed, overtaken>>
      /\ IsNextAfter(page', cursor, next')
  BY DEF Fetch
<1>3. \A e \in page' : e.id \in Nat /\ e.id > cursor /\ e.id <= next'
  <2>1. \A e \in page' : e.id \in Ids /\ e.id > cursor
    BY <1>1, Numbers DEF IInv, Matching
  <2> QED BY <1>2, <2>1 DEF IsNextAfter, Ids
<1>4. Position = cursor /\ cursor \in Int
  BY <1>2, Numbers DEF Position, IInv
<1>5. /\ Position' \in Int /\ Position <= Position'
      /\ Position' = Position \/ \E e \in committed : Position' <= e.id
      /\ \A e \in Claimed : ~(Position < e.id /\ e.id <= Position')
  <2>1. CASE page' = {}
    <3>1. Position' = cursor
      BY <1>2, <2>1 DEF Position, IsNextAfter
    <3> QED BY <1>4, <3>1, Numbers DEF IInv, Claimed, TypeOK, Ids
  <2>2. CASE page' # {}
    <3>1. PICK m \in page' : \A d \in page' : m.id <= d.id
      BY <1>3, <2>2, PageHasFirst
    <3>2. PICK c : c = CHOOSE f \in page' : \A d \in page' : f.id <= d.id
      OBVIOUS
    <3>3. c \in page' /\ \A d \in page' : c.id <= d.id
      BY <3>1, <3>2
    <3>4. Position' = c.id - 1
      BY <1>2, <2>2, <3>2 DEF Position
    <3>5. ASSUME NEW e \in Claimed, Position < e.id, e.id <= Position'
          PROVE  FALSE
      <4>1. e.id \in Int /\ e.id > cursor /\ e \in owed
        BY <1>4, <3>5, Numbers DEF Claimed, IInv, TypeOK, Ids
      <4>2. e \in Matching(cursor)
        BY <4>1 DEF Matching, Wanted, IInv, OwedAreVisible
      <4>3. e.id <= next'
        BY <1>1, <1>3, <3>3, <3>4, <3>5, <4>1
      <4>4. c.id <= e.id
        BY <1>1, <3>3, <4>2, <4>3
      <4> QED BY <1>3, <3>3, <3>4, <3>5, <4>1, <4>4
    <3> QED BY <1>1, <1>3, <1>4, <3>3, <3>4, <3>5
  <2> QED BY <2>1, <2>2
<1>6. \A i \in {e.id : e \in Claimed} : ~(Position < i /\ i <= Position')
  BY <1>5
<1>7. Position' = Position \/ \E j \in {e.id : e \in committed} : Position' <= j
  BY <1>5
<1>8. Position # None
  BY <1>2, <1>4
<1> QED BY <1>2, <1>5, <1>6, <1>7, <1>8 DEF D!Pass, D!Advance, D!Between, D!log, Claims, Claimed, Published

\* Sending the first row of the page tells it, if it has a claim, and passes
\* what lies between it and the next one.
LEMMA SendTells ==
  ASSUME IInv, Ration, ClaimsInHand, Send
  PROVE  D!Pass \/ \E i \in Ids : D!Tell(i)
<1> USE FeedAssumption
<1>1. PICK e \in page :
        /\ \A d \in page : e.id <= d.id
        /\ page' = page \ {e}
        /\ sent' = IF e.player \in subs THEN [sent EXCEPT ![e.id] = @ + 1] ELSE sent
  BY DEF Send
<1>2. /\ phase = "sending" /\ phase' = "sending"
      /\ UNCHANGED <<cursor, next, crashes, committed, owed, overtaken>>
  BY DEF Send
<1>3. /\ \A d \in page : d.id \in Nat /\ d.id > 0 /\ d.id <= next /\ d \in committed
      /\ next \in Int /\ e.id \in Ids
  BY <1>2, Numbers DEF IInv, Ids, PageIsNews, Ration
<1>4. Position = e.id - 1
  BY <1>1, <1>2, <1>3, PositionOf
<1>5. \A d \in page' : d \in page /\ e.id < d.id
  BY <1>1, <1>3 DEF Ration, RowsHaveTheirIds
<1>6. /\ e.id <= Position' /\ Position' \in Int
      /\ \E d \in committed : Position' <= d.id
      /\ \A f \in Claimed : e.id <= f.id /\ f.id <= Position' => f = e
  <2>1. ASSUME NEW f \in Claimed, e.id <= f.id, f.id <= next, f # e
        PROVE  f \in page'
    BY <1>1, <1>2, <2>1 DEF ClaimsInHand
  <2>2. \A f \in Claimed : f.id \in Int
    BY Numbers DEF Claimed, IInv, TypeOK, Ids
  <2>3. CASE page' = {}
    <3>1. Position' = next
      BY <1>2, <2>3 DEF Position
    <3>2. \E d \in committed : d.id = next
      BY <1>3 DEF IInv, CursorsAreIds
    <3> QED BY <1>1, <1>3, <2>1, <2>3, <3>1, <3>2
  <2>4. CASE page' # {}
    <3>1. PICK m \in page' : \A d \in page' : m.id <= d.id
      BY <1>3, <1>5, <2>4, PageHasFirst
    <3>2. PICK c : c = CHOOSE f \in page' : \A d \in page' : f.id <= d.id
      OBVIOUS
    <3>3. c \in page' /\ \A d \in page' : c.id <= d.id
      BY <3>1, <3>2
    <3>4. Position' = c.id - 1
      BY <1>2, <2>4, <3>2 DEF Position
    <3>5. c.id \in Int /\ c \in committed /\ e.id < c.id /\ c.id <= next
      BY <1>3, <1>5, <3>3
    <3>6. ASSUME NEW f \in Claimed, e.id <= f.id, f.id <= Position' PROVE f = e
      <4>1. f.id < c.id /\ f.id <= next
        BY <1>3, <2>2, <3>4, <3>5, <3>6
      <4>2. f # e => c.id <= f.id
        BY <2>1, <3>3, <3>6, <4>1
      <4> QED BY <2>2, <3>5, <4>1, <4>2
    <3> QED BY <1>3, <3>4, <3>5, <3>6
  <2> QED BY <2>3, <2>4
<1>7. D!Advance
  <2>1. Position # None /\ Position <= Position'
    BY <1>1, <1>3, <1>4, <1>6 DEF None
  <2>2. \E j \in {d.id : d \in committed} : Position' <= j
    BY <1>6
  <2> QED BY <1>2, <1>6, <2>1, <2>2 DEF D!Advance, D!log, Published, Claims
<1>8. \A f \in Claimed : Position < f.id /\ f.id <= Position' => f = e
  <2>1. \A f \in Claimed : f.id \in Int
    BY Numbers DEF Claimed, IInv, TypeOK, Ids
  <2> QED BY <1>1, <1>3, <1>4, <1>6, <2>1
<1>9. CASE e.player \in subs
  <2>1. \A j \in {f.id : f \in Claimed} : Position < j /\ j <= Position' => j = e.id
    BY <1>8
  <2>2. Position < e.id
    BY <1>1, <1>3, <1>4
  <2>3. D!Tell(e.id)
    BY <1>1, <1>6, <1>7, <1>9, <2>1, <2>2 DEF D!Tell, D!Between, Claims, Claimed
  <2> QED BY <1>3, <2>3
<1>10. CASE e.player \notin subs
  <2>1. e \notin Claimed
    BY <1>10 DEF Claimed, IInv, OwedAreVisible
  <2>2. \A j \in {f.id : f \in Claimed} : ~(Position < j /\ j <= Position')
    BY <1>8, <2>1
  <2> QED BY <1>1, <1>7, <1>10, <2>2 DEF D!Pass, D!Between, Claims, Claimed
<1> QED BY <1>9, <1>10

\* The feed, its pages and the consumer implement the log read in order: no
\* filter, limit, crash, expiry, change of subscriptions or transaction in
\* flight makes him pass a claim without telling it there and then.
THEOREM FeedImplementsDelivery == Spec => DeliversInOrder
<1>1. Init => Ration /\ ClaimsInHand
  BY DEF Init, ClaimsInHand, Ration, RowsHaveTheirIds, RepeatsNeedCrashes
<1>2. Init => D!Init
  BY DEF Init, D!Init, Position, Published, Claims
<1>3. IInv /\ Ration /\ ClaimsInHand /\ [Next]_vars => [D!Next]_D!vars
  <2> SUFFICES ASSUME IInv, Ration, ClaimsInHand, [Next]_vars
               PROVE  D!Next \/ UNCHANGED D!vars
    OBVIOUS
  <2>1. ASSUME NEW s \in Servers, Commit(s) PROVE D!Next
    BY <2>1, LogSteps DEF Commit, botVars, D!Next
  <2>2. CASE Expire \/ \E p \in Players : Unsubscribe(p)
    BY <2>2, LogSteps DEF Expire, Unsubscribe, botVars, feedVars, Claimed, D!Next
  <2>3. CASE TakeHead
    BY <2>3, HeadStarts DEF D!Next
  <2>4. CASE Fetch
    BY <2>4, FetchPasses DEF D!Next
  <2>5. CASE Send
    BY <2>5, SendTells DEF D!Next
  <2>6. CASE SaveCursor
    <3>1. Position = cursor' /\ Position' = cursor'
      BY <2>6 DEF SaveCursor, Position
    <3>2. D!Save
      BY <2>6, <3>1 DEF SaveCursor, D!Save, D!log, Published, Claims
    <3> QED BY <3>2 DEF D!Next
  <2>7. CASE CrashConsumer
    <3>1. Position' = cursor
      BY <2>7 DEF CrashConsumer, Position
    <3>2. D!Crash
      BY <2>7, <3>1 DEF CrashConsumer, D!Crash, D!log, Published, Claims
    <3> QED BY <3>2 DEF D!Next
  <2>8. CASE UNCHANGED <<committed, owed, overtaken, sent, cursor, page, next, phase, crashes>>
    BY <2>8 DEF D!vars, Position, Published, Claims
  <2> QED BY <2>1, <2>2, <2>3, <2>4, <2>5, <2>6, <2>7, <2>8
          DEF Next, AppendEvent, Rollback, Subscribe, vars, botVars
<1> QED BY <1>1, <1>2, <1>3, NextRation, NextClaims, Invariance, PTL
        DEF Spec, DeliversInOrder, D!Spec

\* Claimed are places of the log, and the consumer is nowhere beyond it.
LogInv ==
  /\ Published \subseteq Ids
  /\ Claims \subseteq Published
  /\ sent \in [Ids -> Nat]
  /\ Position \in Int /\ cursor \in Int
  /\ Position <= 0 \/ \E j \in Published : Position <= j
  /\ crashes \in Nat
  /\ D!ClaimsBehindAreTold
  /\ D!RepeatsAreRationed

\* What Delivery says is enough: whoever reads a log that way has told all that
\* has a claim up to his position, the saved one is never ahead of it, and he
\* repeats himself only after a crash.
THEOREM DeliveryTellsClaims ==
  D!Spec => [](D!ClaimsBehindAreTold /\ D!RepeatsAreRationed)
<1> USE FeedAssumption DEF Ids, None
<1>1. D!Init => LogInv
  BY DEF D!Init, LogInv, D!ClaimsBehindAreTold, D!RepeatsAreRationed
<1>2. LogInv /\ [D!Next]_D!vars => LogInv'
  <2> SUFFICES ASSUME LogInv, [D!Next]_D!vars PROVE LogInv'
    OBVIOUS
  <2> USE DEF LogInv, D!ClaimsBehindAreTold, D!RepeatsAreRationed
  <2>1. CASE D!Start
    <3>1. /\ cursor' = Position' /\ Claims' = {} /\ Published' = Published /\ sent' = sent
          /\ Position = None /\ crashes' = crashes
          /\ Position' = 0 \/ Position' \in Published
      BY ONLY <2>1 DEF D!Start, D!log
    <3>2. \A n \in Published : n \in Int /\ n <= n
      OBVIOUS
    <3>3. Position' \in Int /\ (Position' <= 0 \/ \E j \in Published : Position' <= j)
      BY ONLY <3>1, <3>2
    <3>4. \A i \in Ids : sent[i] <= crashes
      BY <3>1
    <3>5. D!RepeatsAreRationed'
      BY <3>1, <3>3, <3>4
    <3> QED BY <3>1, <3>3, <3>5
  <2>2. CASE D!Publish
    BY <2>2 DEF D!Publish
  <2>3. CASE D!Forgo
    BY <2>3 DEF D!Forgo
  <2>4. CASE D!Pass
    BY <2>4 DEF D!Pass, D!Advance, D!Between, D!log
  <2>5. ASSUME NEW i \in Ids, D!Tell(i) PROVE LogInv'
    <3>1. /\ Published' = Published /\ Claims' = Claims /\ cursor' = cursor /\ crashes' = crashes
          /\ Position' \in Int /\ Position < i /\ i <= Position'
          /\ Position' = Position \/ \E j \in Published : Position' <= j
          /\ \A j \in Claims : Position < j /\ j <= Position' => j = i
          /\ sent' = [sent EXCEPT ![i] = @ + 1]
      BY ONLY <2>5 DEF D!Tell, D!Advance, D!Between, D!log
    <3>2. sent' \in [Ids -> Nat] /\ sent'[i] = sent[i] + 1
          /\ \A j \in Ids : j # i => sent'[j] = sent[j]
      BY <3>1
    <3>3. D!RepeatsAreRationed'
      BY <3>1, <3>2
    <3>4. D!ClaimsBehindAreTold'
      BY <3>1, <3>2
    <3> QED BY <3>1, <3>2, <3>3, <3>4
  <2>6. CASE D!Save
    BY <2>6 DEF D!Save, D!log
  <2>7. CASE D!Crash
    BY <2>7 DEF D!Crash, D!log
  <2>8. CASE UNCHANGED D!vars
    BY <2>8 DEF D!vars
  <2> QED BY <2>1, <2>2, <2>3, <2>4, <2>5, <2>6, <2>7, <2>8 DEF D!Next
<1>3. LogInv => D!ClaimsBehindAreTold /\ D!RepeatsAreRationed
  BY DEF LogInv
<1> QED BY <1>1, <1>2, <1>3, PTL DEF D!Spec

-----------------------------------------------------------------------------
(* One transaction at a time *)

\* A row still to be committed has the highest id.
PendingIsNewest ==
  \A s \in Servers : \A e \in pending[s], d \in committed : d.id < e.id

SerialInv == PendingIsNewest /\ overtaken = {}

\* With POLL_CONCURRENCY = 1 the polls of a round run their transactions one after
\* the other: then no event after the first head is skipped,
\* as docs/bot.md has it.
THEOREM SerialCommitsSkipNothing ==
  ASSUME \A s, t \in Servers : s = t PROVE Spec => []NoEventSkipped
<1>1. \A s, t \in Servers : s = t
  OBVIOUS
<1>2. Init => SerialInv
  BY DEF Init, SerialInv, PendingIsNewest
<1>3. IInv /\ SerialInv /\ [Next]_vars
        => SerialInv'
  <2> SUFFICES ASSUME IInv, SerialInv, [Next]_vars
               PROVE  SerialInv'
    OBVIOUS
  <2> USE DEF SerialInv
  <2>1. ASSUME NEW s \in Servers, AppendEvent(s)
        PROVE  SerialInv'
    <3>1. PICK p \in Players, r \in BOOLEAN :
             pending' = [pending EXCEPT ![s] = @ \cup {[id |-> seq + 1, player |-> p, replay |-> r]}]
      BY <2>1 DEF AppendEvent
    <3> DEFINE new == [id |-> seq + 1, player |-> p, replay |-> r]
    <3>2. \A d \in committed : d.id < new.id
      BY Numbers DEF IInv, IdsAreUnique, Ids
    <3>3. \A t \in Servers : \A e \in pending'[t] : e \in pending[t] \/ e = new
      BY <3>1 DEF IInv, TypeOK
    <3> HIDE DEF new
    <3> QED BY <2>1, <3>2, <3>3 DEF AppendEvent, PendingIsNewest
  <2>2. ASSUME NEW s \in Servers, Commit(s)
        PROVE  SerialInv'
    <3>1. \A t \in Servers : pending'[t] = {}
      BY <1>1, <2>2 DEF Commit, IInv, TypeOK
    <3>2. \A e \in pending[s], d \in committed : ~(d.id > e.id)
      BY Numbers DEF IInv, Ids, PendingIsNewest
    <3>3. overtaken' = {}
      BY <2>2, <3>2 DEF Commit
    <3> QED BY <3>1, <3>3 DEF PendingIsNewest
  <2>3. ASSUME NEW s \in Servers, Rollback(s)
        PROVE  SerialInv'
    BY <2>3 DEF Rollback, PendingIsNewest, IInv, TypeOK
  <2>4. CASE UNCHANGED <<pending, committed, overtaken>>
    BY <2>4 DEF PendingIsNewest
  <2> QED BY <2>1, <2>2, <2>3, <2>4 DEF Next, Expire, TakeHead, Fetch, Send, SaveCursor,
             CrashConsumer, Subscribe, Unsubscribe, feedVars, vars
<1>4. IInv /\ SerialInv => NoEventSkipped
  BY DEF SerialInv, IInv, SkipsAreLateCommits, NoEventSkipped
<1> QED BY <1>2, <1>3, <1>4, Invariance, PTL DEF Spec

=============================================================================
