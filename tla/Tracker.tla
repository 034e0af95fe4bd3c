------------------------------- MODULE Tracker -------------------------------
(***************************************************************************)
(* The rounds of polls, the lobby scan and the token they share.           *)
(* Tracker.PollAll starts one goroutine per tracked server, at most        *)
(* Concurrency at a time, and returns when the last has ended; the scan is *)
(* a loop of its own.  All of them ask one token.Provider, which asks the  *)
(* token service while it holds its mutex.  What a poll does with its      *)
(* answers is the matter of the modules Presence and Catalog; here a poll  *)
(* is the calls it makes and the ways they end.                            *)
(*                                                                         *)
(* Tokens are numbered in the order the service obtains them.  Bohemia     *)
(* rejects the tokens up to `dead'; those up to `near' expire within the   *)
(* provider's lead.  Neither bounds the other: a token can be revoked long *)
(* before it expires.                                                      *)
(***************************************************************************)
EXTENDS Integers, FiniteSets

CONSTANTS
  Servers,      \* the servers with tracking_enabled
  Scan,         \* the scan of the lobby, the other client of the provider
  Concurrency,  \* Config.Concurrency
  MaxTokens     \* bound of the tokens, for model checking only

ASSUME TrackerAssumption ==
  /\ IsFiniteSet(Servers) /\ Servers # {}
  /\ Scan \notin Servers
  /\ "nobody" \notin Servers \cup {Scan}
  /\ Concurrency \in Nat \ {0}
  /\ MaxTokens \in Nat \ {0}

VARIABLES
  loop,      \* where Tracker.RunLoop is
  round,     \* the servers this round has still to start
  slots,     \* filled places of the channel sem
  phase,     \* phase[c]: the call client c is in
  holds,     \* holds[c]: the token client c got
  mutex,     \* who holds Provider.mu over Fetch
  cache,     \* Provider.tok
  valid,     \* Provider.valid
  newest,    \* the token service: its newest token
  near,
  dead,
  cancelled, \* the context of the loops
  asked      \* history: no Invalidate since the newest Fetch began

provider == <<mutex, cache, valid, asked>>
outside == <<newest, near, dead, cancelled>>
vars == <<loop, round, slots, phase, holds, provider, outside>>

-----------------------------------------------------------------------------
Clients == Servers \cup {Scan}
Token == 1 .. MaxTokens
NoToken == 0
Nobody == "nobody"

\* "resolve" and "list" are a poll's two requests, "pages" those of the scan;
\* in "get" and "drop" a client is about to enter Get and Invalidate.
Phase == {"idle", "get", "fetch", "resolve", "list", "pages", "drop", "stopped"}
Calling == {"resolve", "list", "pages"}

TypeOK ==
  /\ loop \in {"resting", "starting", "waiting", "stopped"}
  /\ round \subseteq Servers
  /\ slots \in 0 .. Concurrency
  /\ phase \in [Clients -> Phase]
  /\ holds \in [Clients -> Token \cup {NoToken}]
  /\ mutex \in Clients \cup {Nobody}
  /\ cache \in Token \cup {NoToken}
  /\ valid \in BOOLEAN
  /\ newest \in Token
  /\ near \in 0 .. newest
  /\ dead \in 0 .. newest
  /\ cancelled \in BOOLEAN
  /\ asked \in BOOLEAN
  /\ \A c \in Clients : phase[c] \in Calling => holds[c] # NoToken

Init ==
  /\ loop = "resting"
  /\ round = {}
  /\ slots = 0
  /\ phase = [c \in Clients |-> "idle"]
  /\ holds = [c \in Clients |-> NoToken]
  /\ mutex = Nobody
  /\ cache = NoToken
  /\ valid = FALSE
  /\ newest = 1
  /\ near = 0
  /\ dead = 0
  /\ cancelled = FALSE
  /\ asked = FALSE

-----------------------------------------------------------------------------
(* Outside: the token service, Bohemia, the signal that stops the observer *)

Issue ==
  /\ newest < MaxTokens
  /\ newest' = newest + 1
  /\ UNCHANGED <<loop, round, slots, phase, holds, provider, near, dead, cancelled>>

Approach ==
  /\ near < newest
  /\ near' = near + 1
  /\ UNCHANGED <<loop, round, slots, phase, holds, provider, newest, dead, cancelled>>

Die ==
  /\ dead < newest
  /\ dead' = dead + 1
  /\ UNCHANGED <<loop, round, slots, phase, holds, provider, newest, near, cancelled>>

Cancel ==
  /\ ~cancelled
  /\ cancelled' = TRUE
  /\ UNCHANGED <<loop, round, slots, phase, holds, provider, newest, near, dead>>

-----------------------------------------------------------------------------
(* Tracker.RunLoop and Tracker.PollAll *)

\* A round whose list of servers cannot be read is over at once and changes
\* nothing.
StartRound ==
  /\ loop = "resting"
  /\ ~cancelled
  /\ loop' = "starting"
  /\ round' = Servers
  /\ UNCHANGED <<slots, phase, holds, provider, outside>>

\* The slot is taken before the goroutine exists.  A timer that fires together
\* with the cancellation may still win.
StartPoll(s) ==
  /\ loop = "starting"
  /\ s \in round
  /\ slots < Concurrency
  /\ slots' = slots + 1
  /\ phase' = [phase EXCEPT ![s] = "get"]
  /\ round' = round \ {s}
  /\ loop' = IF round = {s} THEN "waiting" ELSE "starting"
  /\ UNCHANGED <<holds, provider, outside>>

\* sleepCtx returns the error of the context; the first server has no pause
\* before it.
BreakRound ==
  /\ loop = "starting"
  /\ cancelled
  /\ round # Servers
  /\ round' = {}
  /\ loop' = "waiting"
  /\ UNCHANGED <<slots, phase, holds, provider, outside>>

\* wg.Wait
Running == {s \in Servers : phase[s] # "idle"}

\* Faulty variant: the round does not wait for its polls.
NotAwaited == TRUE

AllEnded == Running = {}

EndRound ==
  /\ loop = "waiting"
  /\ AllEnded
  /\ loop' = "resting"
  /\ UNCHANGED <<round, slots, phase, holds, provider, outside>>

StopLoop ==
  /\ loop = "resting"
  /\ cancelled
  /\ loop' = "stopped"
  /\ UNCHANGED <<round, slots, phase, holds, provider, outside>>

-----------------------------------------------------------------------------
(* Scanner.RunLoop *)

StartScan ==
  /\ phase[Scan] = "idle"
  /\ ~cancelled
  /\ phase' = [phase EXCEPT ![Scan] = "get"]
  /\ UNCHANGED <<loop, round, slots, holds, provider, outside>>

StopScan ==
  /\ phase[Scan] = "idle"
  /\ cancelled
  /\ phase' = [phase EXCEPT ![Scan] = "stopped"]
  /\ UNCHANGED <<loop, round, slots, holds, provider, outside>>

-----------------------------------------------------------------------------
(* The end of a client's work; the deferred receive frees a poll's slot *)

\* Faulty variant: a poll that ends without a token keeps its slot.
EndKeepsSlot(c) ==
  /\ phase' = [phase EXCEPT ![c] = "idle"]
  /\ holds' = [holds EXCEPT ![c] = NoToken]
  /\ slots' = IF c = Scan \/ holds[c] = NoToken THEN slots ELSE slots - 1

End(c) ==
  /\ phase' = [phase EXCEPT ![c] = "idle"]
  /\ holds' = [holds EXCEPT ![c] = NoToken]
  /\ slots' = IF c = Scan THEN slots ELSE slots - 1

Proceed(c, token) ==
  /\ phase' = [phase EXCEPT ![c] = IF c = Scan THEN "pages" ELSE "resolve"]
  /\ holds' = [holds EXCEPT ![c] = token]
  /\ UNCHANGED slots

-----------------------------------------------------------------------------
(* Provider.Get *)

Usable == valid /\ cache > near

GetCached(c) ==
  /\ phase[c] = "get"
  /\ mutex = Nobody
  /\ Usable
  /\ Proceed(c, cache)
  /\ UNCHANGED <<loop, round, provider, outside>>

\* Faulty variant: the mutex is not held over the request to the service.
BeginFetchUnlocked(c) ==
  /\ phase[c] = "get"
  /\ mutex = Nobody
  /\ ~Usable
  /\ asked' = TRUE
  /\ phase' = [phase EXCEPT ![c] = "fetch"]
  /\ UNCHANGED <<loop, round, slots, holds, mutex, cache, valid, outside>>

BeginFetch(c) ==
  /\ phase[c] = "get"
  /\ mutex = Nobody
  /\ ~Usable
  /\ mutex' = c
  /\ asked' = TRUE
  /\ phase' = [phase EXCEPT ![c] = "fetch"]
  /\ UNCHANGED <<loop, round, slots, holds, cache, valid, outside>>

\* Faulty variant: an answer without accessToken is taken for a token.
FetchReturnsEmpty(c) ==
  /\ phase[c] = "fetch"
  /\ \E token \in {newest, NoToken} :
       /\ cache' = token
       /\ Proceed(c, token)
  /\ valid' = TRUE
  /\ mutex' = Nobody
  /\ UNCHANGED <<loop, round, asked, outside>>

\* The service answers with its newest token, be it dead.
FetchReturns(c) ==
  /\ phase[c] = "fetch"
  /\ cache' = newest
  /\ valid' = TRUE
  /\ mutex' = Nobody
  /\ Proceed(c, newest)
  /\ UNCHANGED <<loop, round, asked, outside>>

\* Faulty variant: the error path returns with the mutex locked.
FetchFailsLocked(c) ==
  /\ phase[c] = "fetch"
  /\ End(c)
  /\ UNCHANGED <<loop, round, mutex, cache, valid, asked, outside>>

\* 404 when the service has no token, any other error, or the 5 seconds of the
\* HTTP client: the kind of the error is never AUTH_ERROR, so nothing is
\* dropped.
FetchFails(c) ==
  /\ phase[c] = "fetch"
  /\ mutex' = Nobody
  /\ End(c)
  /\ UNCHANGED <<loop, round, cache, valid, asked, outside>>

-----------------------------------------------------------------------------
(* Tracker.pollServer, Scanner.scan *)

\* A room without an answer by address ends the poll or is asked by its
\* previous id.
CallSucceeds(c) ==
  /\ phase[c] \in Calling
  /\ holds[c] > dead
  /\ \/ /\ phase[c] = "resolve"
        /\ phase' = [phase EXCEPT ![c] = "list"]
        /\ UNCHANGED <<holds, slots>>
     \/ End(c)
  /\ UNCHANGED <<loop, round, provider, outside>>

\* AUTH_ERROR
CallRejected(c) ==
  /\ phase[c] \in Calling
  /\ holds[c] <= dead
  /\ phase' = [phase EXCEPT ![c] = "drop"]
  /\ UNCHANGED <<loop, round, slots, holds, provider, outside>>

\* Any other error, the 15 seconds of the HTTP client and the context included.
CallFails(c) ==
  /\ phase[c] \in Calling
  /\ End(c)
  /\ UNCHANGED <<loop, round, provider, outside>>

\* Faulty variant: `valid' is set without the mutex.
InvalidateUnlocked(c) ==
  /\ phase[c] = "drop"
  /\ valid' = FALSE
  /\ asked' = FALSE
  /\ End(c)
  /\ UNCHANGED <<loop, round, mutex, cache, outside>>

\* Faulty variant: a token that is not about to expire is not dropped.
InvalidateExpired(c) ==
  /\ phase[c] = "drop"
  /\ mutex = Nobody
  /\ valid' = Usable
  /\ asked' = FALSE
  /\ End(c)
  /\ UNCHANGED <<loop, round, mutex, cache, outside>>

\* Provider.Invalidate: whatever is cached is dropped.
Invalidate(c) ==
  /\ phase[c] = "drop"
  /\ mutex = Nobody
  /\ valid' = FALSE
  /\ asked' = FALSE
  /\ End(c)
  /\ UNCHANGED <<loop, round, mutex, cache, outside>>

-----------------------------------------------------------------------------
CallEnds(c) == CallSucceeds(c) \/ CallRejected(c) \/ CallFails(c)
Get(c) == GetCached(c) \/ BeginFetch(c)
FetchEnds(c) == FetchReturns(c) \/ FetchFails(c)

\* Both loops have returned: the observer waits for the rest of its group.
Stopped == loop = "stopped" /\ phase[Scan] = "stopped"
Done == Stopped /\ UNCHANGED vars

LoopStep ==
  \/ StartRound \/ EndRound \/ StopLoop
  \/ \E s \in Servers : StartPoll(s)

Next ==
  \/ Issue \/ Approach \/ Die \/ Cancel
  \/ LoopStep \/ BreakRound
  \/ StartScan \/ StopScan
  \/ \E c \in Clients : Get(c) \/ FetchEnds(c) \/ CallEnds(c) \/ Invalidate(c)
  \/ Done

Spec == Init /\ [][Next]_vars

\* The loop of the tracker goes on when nothing keeps it: its ticker fires and
\* the database answers in the end.  Every HTTP call ends, for both clients have
\* a timeout.  A sync.Mutex starves nobody: a goroutine that waits for it is
\* served although others keep taking it.
Fairness ==
  /\ WF_vars(LoopStep)
  /\ WF_vars(StopScan)
  /\ \A c \in Clients :
       /\ WF_vars(FetchEnds(c) \/ CallEnds(c))
       /\ SF_vars(Get(c) \/ Invalidate(c))

FairSpec == Spec /\ Fairness
-----------------------------------------------------------------------------
(* Properties *)

\* Tracker.PollAll: at most Concurrency polls run, in whatever way earlier ones
\* ended; the semaphore neither leaks nor is freed twice.
ConcurrencyIsKept ==
  /\ slots = Cardinality(Running)
  /\ slots <= Concurrency

\* RunLoop and PollAll: a poll starts only when the previous poll of its server
\* has ended, however long that took.  Service.Apply relies on it: it locks
\* nothing and knows one observation of a server at a time.
PollsDoNotOverlap ==
  [][\A s \in Servers : s \in round /\ phase'[s] = "get" /\ s \notin round'
       => phase[s] = "idle"]_vars

\* Provider: a token in the cache was asked for after the last Invalidate, so a
\* client that saw its token rejected never gets back what was cached, or on
\* its way to the cache, when it said so.
CacheIsNewerThanRejections == valid => asked

Atomic == INSTANCE TokenCache WITH cached <- IF valid THEN cache ELSE NoToken, lent <- holds

\* Provider.Get and Invalidate take effect at once: what a client is given
\* after it waited for the service is what it would be given in an instant, a
\* token that ran out is replaced once however many clients find it so, and
\* nobody drops the cache who did not see his own token rejected.
ServesAtomically == Atomic!Spec

\* Provider: once the service has a living token for good, the rejections come
\* to an end.  Late clients may still drop the good token, each of them once.
RejectionsEnd ==
  <>[](dead < newest) => <>[](\A c \in Clients : phase[c] # "drop")

\* RunLoop: until the observer is stopped every server is polled again and
\* again, whatever fails: no slot, token or mutex is lost on the way.
PollsRecur == \A s \in Servers : []<>(phase[s] = "get" \/ cancelled)

\* RunLoop of the tracker and of the scanner: a cancelled context stops both,
\* after the polls of the round have ended.
CancelStops == cancelled ~> (Stopped /\ AllEnded)

=============================================================================
