--------------------------- MODULE TrackerProofs ---------------------------
(***************************************************************************)
(* The rounds of polls and the token provider for any number of servers,   *)
(* slots and tokens: polls of one server never overlap, the semaphore      *)
(* counts the polls that run, and no token returns after its rejection.    *)
(***************************************************************************)
EXTENDS Tracker, FiniteSetTheorems, TLAPS

-----------------------------------------------------------------------------
(* The inductive invariant *)

\* Provider.mu is held over Fetch and only there.
FetchHoldsMutex == \A c \in Clients : phase[c] = "fetch" => mutex = c /\ asked

CacheIsAsked == valid => asked /\ cache # NoToken

\* A server still to be polled has no poll; between rounds none has.
RoundIsIdle ==
  /\ \A s \in round : phase[s] = "idle"
  /\ loop \in {"resting", "stopped"} => Running = {}

IInv ==
  /\ TypeOK
  /\ ConcurrencyIsKept
  /\ FetchHoldsMutex
  /\ CacheIsAsked
  /\ RoundIsIdle

-----------------------------------------------------------------------------
(* Clients and slots *)

Busy(c) == phase[c] \notin {"idle", "stopped"}

\* A free mutex is held by no client.
LEMMA NobodyIsNoClient == Nobody \notin Clients /\ Servers \subseteq Clients /\ Scan \in Clients
BY TrackerAssumption DEF Nobody, Clients

\* The polls that run can be counted.
LEMMA RunningIsFinite == ASSUME TypeOK PROVE IsFiniteSet(Running) /\ Running \subseteq Servers
<1>1. Running \subseteq Servers
  BY DEF Running
<1> QED BY <1>1, FS_Subset, TrackerAssumption

\* A client that goes from one call to the next keeps its slot.
LEMMA MovingKeepsSlots ==
  ASSUME IInv, NEW c \in Clients, Busy(c), NEW q \in Phase \ {"idle"},
         phase' = [phase EXCEPT ![c] = q], UNCHANGED <<slots, loop, round>>
  PROVE  /\ phase' \in [Clients -> Phase]
         /\ ConcurrencyIsKept'
         /\ RoundIsIdle'
<1>1. phase \in [Clients -> Phase]
  BY DEF IInv, TypeOK
<1>2. phase' \in [Clients -> Phase]
  BY <1>1
<1>3. phase[c] # "idle" /\ phase'[c] # "idle"
  BY <1>1 DEF Busy
<1>4. \A d \in Clients : phase'[d] # "idle" <=> phase[d] # "idle"
  BY <1>1, <1>3
<1>5. Running' = Running
  BY <1>4, NobodyIsNoClient DEF Running
<1>6. ConcurrencyIsKept'
  BY <1>5 DEF IInv, ConcurrencyIsKept
<1>7. RoundIsIdle'
  BY <1>4, <1>5, NobodyIsNoClient DEF IInv, RoundIsIdle, TypeOK
<1> QED BY <1>2, <1>6, <1>7

\* A client that ends gives its slot back, the scan has none.
LEMMA EndingFreesSlot ==
  ASSUME IInv, NEW c \in Clients, Busy(c), End(c), UNCHANGED <<loop, round>>
  PROVE  /\ phase' \in [Clients -> Phase]
         /\ holds' \in [Clients -> Token \cup {NoToken}]
         /\ slots' \in 0 .. Concurrency
         /\ \A d \in Clients \ {c} : phase'[d] = phase[d] /\ holds'[d] = holds[d]
         /\ phase'[c] = "idle"
         /\ ConcurrencyIsKept'
         /\ RoundIsIdle'
<1>1. phase \in [Clients -> Phase] /\ holds \in [Clients -> Token \cup {NoToken}]
  BY DEF IInv, TypeOK
<1>2. /\ phase' \in [Clients -> Phase]
      /\ holds' \in [Clients -> Token \cup {NoToken}]
      /\ \A d \in Clients \ {c} : phase'[d] = phase[d] /\ holds'[d] = holds[d]
      /\ phase'[c] = "idle"
  BY <1>1 DEF End, Phase
<1>3. phase[c] # "idle"
  BY DEF Busy
<1>4. Running' = Running \ {c}
  BY <1>2, NobodyIsNoClient DEF Running
<1>5. c \in Running <=> c # Scan
  BY <1>3, TrackerAssumption DEF Running, Clients
<1>6. IsFiniteSet(Running)
  BY RunningIsFinite DEF IInv
<1>7. slots = Cardinality(Running) /\ slots \in 0 .. Concurrency
  BY DEF IInv, ConcurrencyIsKept, TypeOK
<1>8. Cardinality(Running') = IF c \in Running THEN slots - 1 ELSE slots
  BY <1>4, <1>6, <1>7, FS_RemoveElement
<1>9. slots' = IF c \in Running THEN slots - 1 ELSE slots
  BY <1>5 DEF End
<1>10. slots' = Cardinality(Running')
  BY <1>8, <1>9
<1>11. slots' \in Nat
  <2>1. IsFiniteSet(Running')
    BY <1>4, <1>6, FS_RemoveElement
  <2> QED BY <2>1, <1>10, FS_CardinalityType
<1>12. slots' \in 0 .. Concurrency
  BY <1>7, <1>9, <1>11, TrackerAssumption
<1>13. ConcurrencyIsKept'
  BY <1>10, <1>12, TrackerAssumption DEF ConcurrencyIsKept
<1>14. RoundIsIdle'
  <2>1. \A s \in round : phase'[s] = "idle"
    BY <1>2, NobodyIsNoClient DEF IInv, RoundIsIdle, TypeOK
  <2> QED BY <2>1, <1>4 DEF IInv, RoundIsIdle
<1> QED BY <1>2, <1>12, <1>13, <1>14

-----------------------------------------------------------------------------
(* The steps *)

\* The observer starts with nothing running and nothing cached.
LEMMA InitIInv == Init => IInv
<1> SUFFICES ASSUME Init PROVE IInv
  OBVIOUS
<1> USE DEF Init
<1>1. Running = {}
  BY NobodyIsNoClient DEF Running
<1>2. TypeOK
  <2>1. phase \in [Clients -> Phase] /\ \A c \in Clients : phase[c] \notin Calling
    BY DEF Phase, Calling
  <2>2. newest \in Token /\ slots \in 0 .. Concurrency
    BY TrackerAssumption DEF Token
  <2>3. near \in 0 .. newest /\ dead \in 0 .. newest
    OBVIOUS
  <2> QED BY <2>1, <2>2, <2>3 DEF TypeOK
<1>3. ConcurrencyIsKept
  BY <1>1, FS_EmptySet, TrackerAssumption DEF ConcurrencyIsKept
<1>4. FetchHoldsMutex /\ CacheIsAsked
  BY DEF FetchHoldsMutex, CacheIsAsked
<1>5. RoundIsIdle
  BY <1>1 DEF RoundIsIdle
<1> QED BY <1>2, <1>3, <1>4, <1>5 DEF IInv

\* Steps that touch neither a client nor the provider.
LEMMA OutsideSteps ==
  ASSUME IInv, Issue \/ Approach \/ Die \/ Cancel
  PROVE  IInv'
<1>1. UNCHANGED <<loop, round, slots, phase, holds, mutex, cache, valid, asked>>
  BY DEF Issue, Approach, Die, Cancel, provider
<1>2. /\ newest \in 1 .. MaxTokens /\ near \in 0 .. newest /\ dead \in 0 .. newest
      /\ cancelled \in BOOLEAN
  BY DEF IInv, TypeOK, Token
<1>3. newest' \in 1 .. MaxTokens /\ near' \in 0 .. newest' /\ dead' \in 0 .. newest'
  <2>1. CASE Issue
    BY <2>1, <1>2, TrackerAssumption DEF Issue
  <2>2. CASE Approach
    BY <2>2, <1>2, TrackerAssumption DEF Approach
  <2>3. CASE Die
    BY <2>3, <1>2, TrackerAssumption DEF Die
  <2>4. CASE Cancel
    BY <2>4, <1>2 DEF Cancel
  <2> QED BY <2>1, <2>2, <2>3, <2>4
<1>4. cancelled' \in BOOLEAN
  BY <1>2 DEF Issue, Approach, Die, Cancel
<1>5. TypeOK'
  BY <1>1, <1>3, <1>4 DEF IInv, TypeOK, Token
<1>6. Running' = Running
  BY <1>1 DEF Running
<1> QED BY <1>1, <1>6, <1>5 DEF IInv, ConcurrencyIsKept, FetchHoldsMutex, CacheIsAsked, RoundIsIdle

\* Between rounds no poll runs, so a round may list every server.
LEMMA LoopSteps ==
  ASSUME IInv, StartRound \/ BreakRound \/ EndRound \/ StopLoop
  PROVE  IInv'
<1>1. UNCHANGED <<slots, phase, holds, mutex, cache, valid, asked, newest, near, dead, cancelled>>
  BY DEF StartRound, BreakRound, EndRound, StopLoop, provider, outside
<1>2. Running' = Running
  BY <1>1 DEF Running
<1>3. TypeOK'
  BY <1>1 DEF IInv, TypeOK, StartRound, BreakRound, EndRound, StopLoop
<1>4. RoundIsIdle'
  <2>1. CASE StartRound
    <3>1. \A s \in Servers : phase[s] = "idle"
      BY <2>1 DEF IInv, RoundIsIdle, StartRound, Running
    <3> QED BY <1>1, <3>1, <2>1 DEF StartRound, RoundIsIdle
  <2>2. CASE BreakRound
    BY <2>2 DEF BreakRound, RoundIsIdle
  <2>3. CASE EndRound
    BY <2>3, <1>1, <1>2 DEF EndRound, RoundIsIdle, IInv, AllEnded
  <2>4. CASE StopLoop
    BY <2>4, <1>1, <1>2 DEF StopLoop, RoundIsIdle, IInv
  <2> QED BY <2>1, <2>2, <2>3, <2>4
<1>5. ConcurrencyIsKept' /\ FetchHoldsMutex' /\ CacheIsAsked'
  BY <1>1, <1>2 DEF IInv, ConcurrencyIsKept, FetchHoldsMutex, CacheIsAsked
<1> QED BY <1>3, <1>4, <1>5 DEF IInv

\* The slot is taken together with the goroutine that will free it.
LEMMA StartPollStep ==
  ASSUME IInv, NEW s \in Servers, StartPoll(s)
  PROVE  IInv'
<1> USE DEF StartPoll
<1>1. /\ UNCHANGED <<holds, mutex, cache, valid, asked, newest, near, dead, cancelled>>
      /\ phase \in [Clients -> Phase] /\ s \in Clients /\ phase[s] = "idle"
  BY NobodyIsNoClient DEF IInv, TypeOK, RoundIsIdle, provider, outside
<1>2. /\ phase' \in [Clients -> Phase] /\ phase'[s] = "get"
      /\ \A d \in Clients \ {s} : phase'[d] = phase[d]
  BY <1>1 DEF Phase
<1>3. Running' = Running \cup {s} /\ s \notin Running
  BY <1>1, <1>2, NobodyIsNoClient DEF Running
<1>4. IsFiniteSet(Running) /\ slots = Cardinality(Running) /\ slots \in 0 .. Concurrency
  BY RunningIsFinite DEF IInv, ConcurrencyIsKept, TypeOK
<1>5. slots' = Cardinality(Running') /\ slots' \in 0 .. Concurrency
  <2>1. Cardinality(Running') = Cardinality(Running) + 1
    BY <1>3, <1>4, FS_AddElement
  <2>2. slots' = slots + 1 /\ slots < Concurrency
    OBVIOUS
  <2> QED BY <2>1, <2>2, <1>4, TrackerAssumption
<1>6. ConcurrencyIsKept'
  BY <1>5, TrackerAssumption DEF ConcurrencyIsKept
<1>7. TypeOK'
  <2>1. \A c \in Clients : phase'[c] \in Calling => holds'[c] # NoToken
    BY <1>1, <1>2 DEF IInv, TypeOK, Calling
  <2> QED BY <1>1, <1>2, <1>5, <2>1 DEF IInv, TypeOK
<1>8. FetchHoldsMutex' /\ CacheIsAsked'
  BY <1>1, <1>2 DEF IInv, FetchHoldsMutex, CacheIsAsked
<1>9. RoundIsIdle'
  <2>1. \A d \in round' : phase'[d] = "idle"
    BY <1>2, NobodyIsNoClient DEF IInv, RoundIsIdle, TypeOK
  <2> QED BY <2>1 DEF RoundIsIdle
<1> QED BY <1>6, <1>7, <1>8, <1>9 DEF IInv

\* The scan starts and stops without a slot.
LEMMA ScanSteps ==
  ASSUME IInv, StartScan \/ StopScan
  PROVE  IInv'
<1> USE DEF StartScan, StopScan
<1>1. /\ UNCHANGED <<loop, round, slots, holds, mutex, cache, valid, asked, newest, near, dead, cancelled>>
      /\ phase \in [Clients -> Phase]
  BY DEF IInv, TypeOK, provider, outside
<1>2. /\ phase' \in [Clients -> Phase] /\ phase'[Scan] \in {"get", "stopped"}
      /\ \A d \in Clients \ {Scan} : phase'[d] = phase[d]
  BY <1>1, NobodyIsNoClient DEF Phase
<1>3. \A s \in Servers : phase'[s] = phase[s]
  BY <1>2, TrackerAssumption DEF Clients
<1>4. Running' = Running
  BY <1>3 DEF Running
<1>5. TypeOK'
  BY <1>1, <1>2 DEF IInv, TypeOK, Calling
<1>6. FetchHoldsMutex' /\ CacheIsAsked'
  BY <1>1, <1>2 DEF IInv, FetchHoldsMutex, CacheIsAsked
<1>7. ConcurrencyIsKept' /\ RoundIsIdle'
  BY <1>1, <1>3, <1>4 DEF IInv, ConcurrencyIsKept, RoundIsIdle, TypeOK
<1> QED BY <1>5, <1>6, <1>7 DEF IInv

-----------------------------------------------------------------------------
(* The steps of a client *)

\* Provider.Get and the end of Fetch.
LEMMA GetCachedStep ==
  ASSUME IInv, NEW c \in Clients, GetCached(c)
  PROVE  IInv'
<1> DEFINE q == IF c = Scan THEN "pages" ELSE "resolve"
<1>1. /\ UNCHANGED <<loop, round, slots, mutex, cache, valid, asked, newest, near, dead, cancelled>>
      /\ phase' = [phase EXCEPT ![c] = q] /\ holds' = [holds EXCEPT ![c] = cache]
      /\ phase[c] = "get" /\ valid
  BY DEF GetCached, Proceed, provider, outside, Usable
<1>2. q \in Phase \ {"idle", "fetch"} /\ Busy(c)
  BY <1>1 DEF Phase, Busy
<1>3. phase' \in [Clients -> Phase] /\ ConcurrencyIsKept' /\ RoundIsIdle'
  <2> HIDE DEF q
  <2> QED BY <1>1, <1>2, MovingKeepsSlots
<1>4. cache \in Token /\ cache # NoToken
  BY <1>1 DEF IInv, TypeOK, CacheIsAsked
<1>5. /\ holds' \in [Clients -> Token \cup {NoToken}]
      /\ holds'[c] # NoToken
      /\ \A d \in Clients \ {c} : phase'[d] = phase[d] /\ holds'[d] = holds[d]
  BY <1>1, <1>4 DEF IInv, TypeOK
<1>6. TypeOK'
  BY <1>1, <1>3, <1>5 DEF IInv, TypeOK
<1>7. phase'[c] # "fetch"
  BY <1>1, <1>2 DEF IInv, TypeOK
<1>8. FetchHoldsMutex' /\ CacheIsAsked'
  BY <1>1, <1>5, <1>7 DEF IInv, FetchHoldsMutex, CacheIsAsked
<1> QED BY <1>3, <1>6, <1>8 DEF IInv

\* Who begins a Fetch holds the mutex, and no token was dropped since.
LEMMA BeginFetchStep ==
  ASSUME IInv, NEW c \in Clients, BeginFetch(c)
  PROVE  IInv'
<1>1. /\ UNCHANGED <<loop, round, slots, holds, cache, valid, newest, near, dead, cancelled>>
      /\ phase' = [phase EXCEPT ![c] = "fetch"] /\ mutex' = c /\ asked' = TRUE
      /\ phase[c] = "get" /\ mutex = Nobody
  BY DEF BeginFetch, outside
<1>2. phase' \in [Clients -> Phase] /\ ConcurrencyIsKept' /\ RoundIsIdle'
  BY <1>1, MovingKeepsSlots DEF Phase, Busy
<1>3. phase'[c] = "fetch" /\ \A d \in Clients \ {c} : phase'[d] = phase[d]
  BY <1>1 DEF IInv, TypeOK
<1>4. TypeOK'
  BY <1>1, <1>2, <1>3 DEF IInv, TypeOK, Calling
<1>5. FetchHoldsMutex' /\ CacheIsAsked'
  BY <1>1, <1>3, NobodyIsNoClient DEF IInv, FetchHoldsMutex, CacheIsAsked
<1> QED BY <1>2, <1>4, <1>5 DEF IInv

\* Whoever is in Fetch is alone there, so no one has dropped a token since.
LEMMA AloneInFetch ==
  ASSUME IInv, NEW c \in Clients, phase[c] = "fetch"
  PROVE  asked /\ \A d \in Clients \ {c} : phase[d] # "fetch"
BY DEF IInv, FetchHoldsMutex

\* The answer that fills the cache was asked for by the holder of the mutex.
LEMMA FetchReturnsStep ==
  ASSUME IInv, NEW c \in Clients, FetchReturns(c)
  PROVE  IInv'
<1> DEFINE q == IF c = Scan THEN "pages" ELSE "resolve"
<1>1. /\ UNCHANGED <<loop, round, slots, asked, newest, near, dead, cancelled>>
      /\ phase' = [phase EXCEPT ![c] = q] /\ holds' = [holds EXCEPT ![c] = newest]
      /\ cache' = newest /\ valid' = TRUE /\ mutex' = Nobody
      /\ phase[c] = "fetch"
  BY DEF FetchReturns, Proceed, outside
<1>2. q \in Phase \ {"idle", "fetch"} /\ Busy(c)
  BY <1>1 DEF Phase, Busy
<1>3. phase' \in [Clients -> Phase] /\ ConcurrencyIsKept' /\ RoundIsIdle'
  <2> HIDE DEF q
  <2> QED BY <1>1, <1>2, MovingKeepsSlots
<1>4. newest \in Token /\ newest # NoToken
  BY DEF IInv, TypeOK, Token, NoToken
<1>5. /\ holds' \in [Clients -> Token \cup {NoToken}]
      /\ holds'[c] # NoToken
      /\ \A d \in Clients \ {c} : phase'[d] = phase[d] /\ holds'[d] = holds[d]
  BY <1>1, <1>4 DEF IInv, TypeOK
<1>6. TypeOK'
  BY <1>1, <1>3, <1>4, <1>5 DEF IInv, TypeOK
<1>7. phase'[c] # "fetch"
  BY <1>1, <1>2 DEF IInv, TypeOK
<1>8. FetchHoldsMutex' /\ CacheIsAsked'
  BY <1>1, <1>4, <1>5, <1>7, AloneInFetch DEF FetchHoldsMutex, CacheIsAsked
<1> QED BY <1>3, <1>6, <1>8 DEF IInv

\* A client that ends in whatever way; the cache is dropped, or as it was.
LEMMA EndStep ==
  ASSUME IInv, NEW c \in Clients, Busy(c), End(c),
         UNCHANGED <<loop, round, cache, newest, near, dead, cancelled>>,
         \/ mutex' = Nobody /\ phase[c] = "fetch" /\ UNCHANGED <<valid, asked>>
         \/ UNCHANGED <<mutex, valid, asked>> /\ phase[c] # "fetch"
         \/ mutex = Nobody /\ UNCHANGED mutex /\ valid' = FALSE /\ asked' = FALSE
  PROVE  IInv'
<1>1. /\ phase' \in [Clients -> Phase]
      /\ holds' \in [Clients -> Token \cup {NoToken}]
      /\ slots' \in 0 .. Concurrency
      /\ \A d \in Clients \ {c} : phase'[d] = phase[d] /\ holds'[d] = holds[d]
      /\ phase'[c] = "idle"
      /\ ConcurrencyIsKept' /\ RoundIsIdle'
  BY EndingFreesSlot
<1>2. mutex' \in Clients \cup {Nobody} /\ valid' \in BOOLEAN /\ asked' \in BOOLEAN
  BY DEF IInv, TypeOK
<1>3. TypeOK'
  BY <1>1, <1>2 DEF IInv, TypeOK, Calling
<1>4. \A d \in Clients : phase'[d] = "fetch" => d # c /\ phase[d] = "fetch"
  BY <1>1
<1>5. FetchHoldsMutex'
  <2>1. CASE phase[c] = "fetch" /\ mutex' = Nobody
    BY <2>1, <1>4, AloneInFetch DEF FetchHoldsMutex
  <2>2. CASE UNCHANGED <<mutex, asked>>
    BY <2>2, <1>4 DEF IInv, FetchHoldsMutex
  <2>3. CASE mutex = Nobody
    BY <2>3, <1>4, NobodyIsNoClient DEF IInv, FetchHoldsMutex
  <2> QED BY <2>1, <2>2, <2>3
<1>6. CacheIsAsked'
  BY DEF IInv, CacheIsAsked
<1> QED BY <1>1, <1>3, <1>5, <1>6 DEF IInv

\* The requests of a poll and of the scan.
LEMMA CallSteps ==
  ASSUME IInv, NEW c \in Clients, CallEnds(c) \/ FetchFails(c) \/ Invalidate(c)
  PROVE  IInv'
<1>1. CASE FetchFails(c)
  <2>1. Busy(c)
    BY <1>1 DEF FetchFails, Busy
  <2> QED BY <1>1, <2>1, EndStep DEF FetchFails, outside
<1>2. CASE Invalidate(c)
  <2>1. Busy(c)
    BY <1>2 DEF Invalidate, Busy
  <2> QED BY <1>2, <2>1, EndStep DEF Invalidate, outside
<1>3. CASE phase[c] \in Calling /\ End(c) /\ UNCHANGED <<loop, round, provider, outside>>
  <2>1. Busy(c) /\ phase[c] # "fetch"
    BY <1>3 DEF Calling, Busy
  <2> QED BY <1>3, <2>1, EndStep DEF provider, outside
<1>4. ASSUME NEW q \in {"list", "drop"}, phase[c] \in Calling, phase' = [phase EXCEPT ![c] = q],
             UNCHANGED <<loop, round, slots, holds, provider, outside>>
      PROVE  IInv'
  <2>1. UNCHANGED <<loop, round, slots, holds, mutex, cache, valid, asked, newest, near, dead, cancelled>>
    BY <1>4 DEF provider, outside
  <2>2. phase' \in [Clients -> Phase] /\ ConcurrencyIsKept' /\ RoundIsIdle'
    BY <1>4, <2>1, MovingKeepsSlots DEF Phase, Busy, Calling
  <2>3. phase'[c] = q /\ \A d \in Clients \ {c} : phase'[d] = phase[d]
    BY <1>4 DEF IInv, TypeOK
  <2>4. TypeOK'
    BY <1>4, <2>1, <2>2, <2>3 DEF IInv, TypeOK
  <2>5. FetchHoldsMutex' /\ CacheIsAsked'
    BY <2>1, <2>3 DEF IInv, FetchHoldsMutex, CacheIsAsked
  <2> QED BY <2>2, <2>4, <2>5 DEF IInv
<1>5. CASE CallEnds(c)
  <2>1. CASE CallSucceeds(c)
    BY <2>1, <1>3, <1>4 DEF CallSucceeds
  <2>2. CASE CallRejected(c)
    BY <2>2, <1>4 DEF CallRejected
  <2>3. CASE CallFails(c)
    BY <2>3, <1>3 DEF CallFails
  <2> QED BY <1>5, <2>1, <2>2, <2>3 DEF CallEnds
<1> QED BY <1>1, <1>2, <1>5

\* Every step keeps the inductive invariant.
LEMMA NextIInv == IInv /\ [Next]_vars => IInv'
<1> SUFFICES ASSUME IInv, [Next]_vars PROVE IInv'
  OBVIOUS
<1>1. CASE Issue \/ Approach \/ Die \/ Cancel
  BY <1>1, OutsideSteps
<1>2. CASE LoopStep \/ BreakRound
  BY <1>2, LoopSteps, StartPollStep DEF LoopStep
<1>3. CASE StartScan \/ StopScan
  BY <1>3, ScanSteps
<1>4. ASSUME NEW c \in Clients, Get(c) \/ FetchEnds(c) \/ CallEnds(c) \/ Invalidate(c)
      PROVE  IInv'
  BY <1>4, GetCachedStep, BeginFetchStep, FetchReturnsStep, CallSteps DEF Get, FetchEnds
<1>5. CASE UNCHANGED vars
  <2>1. UNCHANGED <<loop, round, slots, phase, holds, mutex, cache, valid, asked, newest, near, dead, cancelled>>
    BY <1>5 DEF vars, provider, outside
  <2>2. Running' = Running
    BY <2>1 DEF Running
  <2> QED BY <2>1, <2>2
      DEF IInv, TypeOK, ConcurrencyIsKept, FetchHoldsMutex, CacheIsAsked, RoundIsIdle
<1> QED BY <1>1, <1>2, <1>3, <1>4, <1>5 DEF Next, Done

-----------------------------------------------------------------------------
(* The theorems *)

\* The inductive invariant holds throughout.
THEOREM Invariance == Spec => []IInv
BY InitIInv, NextIInv, PTL DEF Spec

\* The variables keep their types; in particular a request is made with a
\* token, and a slot is never freed that was not taken.
THEOREM TypeCorrect == Spec => []TypeOK
<1>1. IInv => TypeOK
  BY DEF IInv
<1> QED BY <1>1, Invariance, PTL

\* Tracker.PollAll: the semaphore holds exactly the polls that run, never more
\* than Concurrency.
THEOREM SlotsCountPolls == Spec => []ConcurrencyIsKept
<1>1. IInv => ConcurrencyIsKept
  BY DEF IInv
<1> QED BY <1>1, Invariance, PTL

\* Provider: what is cached was asked for after the last Invalidate.
THEOREM RejectedTokensAreGone == Spec => []CacheIsNewerThanRejections
<1>1. IInv => CacheIsNewerThanRejections
  BY DEF IInv, CacheIsAsked, CacheIsNewerThanRejections
<1> QED BY <1>1, Invariance, PTL

\* Tracker.RunLoop: a poll never starts while the previous poll of its server
\* still runs, so Service.Apply meets one observation of a server at a time.
THEOREM OnePollPerServer == Spec => PollsDoNotOverlap
<1>1. IInv /\ [Next]_vars
      => [\A s \in Servers : s \in round /\ phase'[s] = "get" /\ s \notin round'
            => phase[s] = "idle"]_vars
  BY DEF IInv, RoundIsIdle
<1> QED BY <1>1, Invariance, PTL DEF Spec, PollsDoNotOverlap

-----------------------------------------------------------------------------
(* Tracker implements TokenCache *)

\* What a client has, by the call it is in: nothing before it was given a
\* token, a rejected one when it goes to drop the cache.  While one is in Fetch
\* the cache stays of no use.
HandsAreHonest ==
  \A c \in Clients :
    /\ phase[c] \in {"idle", "get", "fetch", "stopped"} => holds[c] = NoToken
    /\ phase[c] = "drop" => holds[c] # NoToken /\ holds[c] <= dead
    /\ phase[c] = "fetch" => ~Usable

\* A step that is no client's.
LEMMA OthersKeepHands ==
  ASSUME IInv, HandsAreHonest, UNCHANGED <<holds, cache, valid>>,
         \A c \in Clients : phase'[c] = phase[c] \/ {phase[c], phase'[c]} \subseteq {"idle", "get", "stopped"},
         near' \in Int, near <= near', dead' \in Int, dead <= dead'
  PROVE  HandsAreHonest'
<1>1. near \in Int /\ dead \in Int /\ cache \in Int /\ \A c \in Clients : holds[c] \in Int
  BY TrackerAssumption DEF IInv, TypeOK, Token, NoToken
<1>2. ~Usable => ~Usable'
  BY <1>1 DEF Usable
<1> QED BY <1>1, <1>2 DEF HandsAreHonest

\* A step of client c, which leaves the hands and the places of the others as
\* they were and the cache too if one of them is in Fetch.
LEMMA ClientKeepsHands ==
  ASSUME HandsAreHonest, NEW c \in Clients, UNCHANGED <<near, dead>>,
         \A d \in Clients \ {c} : phase'[d] = phase[d] /\ holds'[d] = holds[d],
         \A d \in Clients \ {c} : phase[d] = "fetch" => UNCHANGED <<cache, valid>>,
         phase'[c] \in {"idle", "get", "fetch", "stopped"} => holds'[c] = NoToken,
         phase'[c] = "drop" => holds'[c] # NoToken /\ holds'[c] <= dead,
         phase'[c] = "fetch" => ~Usable'
  PROVE  HandsAreHonest'
BY DEF HandsAreHonest, Usable

\* Every step keeps the hands honest.
LEMMA NextHands == IInv /\ HandsAreHonest /\ [Next]_vars => HandsAreHonest'
<1> SUFFICES ASSUME IInv, HandsAreHonest, [Next]_vars PROVE HandsAreHonest'
  OBVIOUS
<1>1. /\ phase \in [Clients -> Phase] /\ holds \in [Clients -> Token \cup {NoToken}]
      /\ near \in Int /\ dead \in Int
  BY TrackerAssumption DEF IInv, TypeOK, Token
<1>2. CASE Issue \/ Approach \/ Die \/ Cancel
  BY <1>1, <1>2, OthersKeepHands DEF Issue, Approach, Die, Cancel, provider
<1>3. CASE StartRound \/ EndRound \/ StopLoop \/ BreakRound \/ UNCHANGED vars
  BY <1>1, <1>3, OthersKeepHands
     DEF StartRound, EndRound, StopLoop, BreakRound, vars, provider, outside
<1>4. ASSUME NEW s \in Servers, StartPoll(s) PROVE HandsAreHonest'
  <2>1. phase[s] = "idle" /\ s \in Clients
    BY <1>4, NobodyIsNoClient DEF StartPoll, IInv, RoundIsIdle
  <2> QED BY <1>1, <1>4, <2>1, OthersKeepHands DEF StartPoll, provider, outside
<1>5. CASE StartScan \/ StopScan
  BY <1>1, <1>5, NobodyIsNoClient, OthersKeepHands DEF StartScan, StopScan, provider, outside
<1>6. ASSUME NEW c \in Clients, Get(c) \/ FetchEnds(c) \/ CallEnds(c) \/ Invalidate(c)
      PROVE  HandsAreHonest'
  <2>1. \A d \in Clients : phase[d] = "fetch" => mutex = d
    BY DEF IInv, FetchHoldsMutex
  <2>2. CASE GetCached(c)
    BY <1>1, <2>2, ClientKeepsHands DEF GetCached, Proceed, provider, outside
  <2>3. CASE BeginFetch(c)
    <3>1. ~Usable' /\ holds[c] = NoToken
      BY <2>3 DEF BeginFetch, HandsAreHonest, Usable, outside
    <3> QED BY <1>1, <2>3, <3>1, ClientKeepsHands DEF BeginFetch, outside
  <2>4. CASE FetchReturns(c)
    BY <1>1, <2>1, <2>4, ClientKeepsHands DEF FetchReturns, Proceed, outside
  <2>5. CASE FetchFails(c)
    BY <1>1, <2>5, ClientKeepsHands DEF FetchFails, End, outside
  <2>6. CASE CallSucceeds(c) \/ CallFails(c)
    BY <1>1, <2>6, ClientKeepsHands DEF CallSucceeds, CallFails, End, provider, outside
  <2>7. CASE CallRejected(c)
    <3>1. holds[c] # NoToken /\ holds[c] <= dead
      BY <2>7 DEF CallRejected, IInv, TypeOK
    <3> QED BY <1>1, <2>7, <3>1, ClientKeepsHands DEF CallRejected, provider, outside
  <2>8. CASE Invalidate(c)
    BY <1>1, <2>1, <2>8, NobodyIsNoClient, ClientKeepsHands DEF Invalidate, End, outside
  <2> QED BY <1>6, <2>2, <2>3, <2>4, <2>5, <2>6, <2>7, <2>8 DEF Get, FetchEnds, CallEnds
<1> QED BY <1>2, <1>3, <1>4, <1>5, <1>6 DEF Next, LoopStep, Done

\* The hands are empty when the observer starts.
LEMMA InitHands == Init => HandsAreHonest
BY DEF Init, HandsAreHonest

Cached == IF valid THEN cache ELSE NoToken

\* A client's step is one of TokenCache, or none.
LEMMA ClientSteps ==
  ASSUME IInv, HandsAreHonest, NEW c \in Clients,
         Get(c) \/ FetchEnds(c) \/ CallEnds(c) \/ Invalidate(c)
  PROVE  Atomic!Next \/ UNCHANGED Atomic!vars
<1>1. /\ holds \in [Clients -> Token \cup {NoToken}] /\ near \in Int /\ dead \in Int
      /\ cache \in Int /\ 0 <= near
  BY TrackerAssumption DEF IInv, TypeOK, Token, NoToken
<1>2. Usable => Cached > near /\ Cached = cache
  BY DEF Usable, Cached
<1>3. ~Usable => Cached <= near
  BY <1>1 DEF Usable, Cached, NoToken
<1>4. CASE GetCached(c)
  <2>1. holds[c] = NoToken
    BY <1>4 DEF GetCached, HandsAreHonest
  <2>2. Atomic!Hit(c)
    BY <1>2, <1>4, <2>1
       DEF GetCached, Proceed, provider, outside, Atomic!Hit, Atomic!Lend, Atomic!world, Cached
  <2> QED BY <2>2 DEF Atomic!Next
<1>5. CASE FetchReturns(c)
  <2>1. holds[c] = NoToken /\ ~Usable
    BY <1>5 DEF FetchReturns, HandsAreHonest
  <2>2. Atomic!Refill(c)
    BY <1>3, <1>5, <2>1
       DEF FetchReturns, Proceed, outside, Atomic!Refill, Atomic!Lend, Atomic!world, Cached
  <2> QED BY <2>2 DEF Atomic!Next
<1>6. CASE Invalidate(c)
  <2>1. holds[c] # NoToken /\ holds[c] <= dead
    BY <1>6 DEF Invalidate, HandsAreHonest
  <2>2. NoToken < holds[c]
    BY <1>1, <2>1, TrackerAssumption DEF Token, NoToken
  <2>3. Atomic!Drop(c)
    BY <1>6, <2>1, <2>2 DEF Invalidate, End, outside, Atomic!Drop, Atomic!world
  <2> QED BY <2>3 DEF Atomic!Next
<1>7. CASE FetchFails(c) \/ (CallEnds(c) /\ End(c))
  <2>1. Atomic!GiveBack(c)
    BY <1>7 DEF FetchFails, CallEnds, CallSucceeds, CallRejected, CallFails, End, provider, outside,
                Atomic!GiveBack, Atomic!world
  <2> QED BY <2>1 DEF Atomic!Next
<1>8. CASE BeginFetch(c) \/ (CallEnds(c) /\ UNCHANGED holds)
  BY <1>8 DEF BeginFetch, CallEnds, CallSucceeds, CallRejected, CallFails, provider, outside,
              Atomic!vars
<1> QED BY <1>4, <1>5, <1>6, <1>7, <1>8
        DEF Get, FetchEnds, CallEnds, CallSucceeds, CallRejected, CallFails

\* Provider: although Get waits for the service, its clients cannot tell it from
\* a cache that is looked up and filled in one step, and no client empties it
\* who was not rejected himself.
THEOREM ProviderIsAtomic == Spec => ServesAtomically
<1>1. Init => Atomic!Init
  BY DEF Init, Atomic!Init, NoToken
<1>2. IInv /\ HandsAreHonest /\ [Next]_vars => [Atomic!Next]_Atomic!vars
  <2> SUFFICES ASSUME IInv, HandsAreHonest, [Next]_vars
               PROVE  Atomic!Next \/ UNCHANGED Atomic!vars
    OBVIOUS
  <2>1. newest \in Int /\ near \in 0 .. newest /\ dead \in 0 .. newest
    BY TrackerAssumption DEF IInv, TypeOK, Token
  <2>2. CASE Issue \/ Approach \/ Die
    <3>1. Atomic!Age
      BY <2>1, <2>2 DEF Issue, Approach, Die, provider, Atomic!Age
    <3> QED BY <3>1 DEF Atomic!Next
  <2>3. CASE UNCHANGED <<cache, valid, holds, newest, near, dead>>
    BY <2>3 DEF Atomic!vars
  <2>4. ASSUME NEW c \in Clients, Get(c) \/ FetchEnds(c) \/ CallEnds(c) \/ Invalidate(c)
        PROVE  Atomic!Next \/ UNCHANGED Atomic!vars
    BY <2>4, ClientSteps
  <2> QED BY <2>2, <2>3, <2>4
          DEF Next, Cancel, LoopStep, StartRound, EndRound, StopLoop, StartPoll, BreakRound,
              StartScan, StopScan, Done, vars, provider, outside
<1> QED BY <1>1, <1>2, Invariance, InitHands, NextHands, PTL
        DEF Spec, ServesAtomically, Atomic!Spec

=============================================================================
