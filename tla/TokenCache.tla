------------------------------ MODULE TokenCache ------------------------------
(***************************************************************************)
(* What the token provider promises its clients, without a mutex, calls or *)
(* polls: asking for a token is one indivisible step.  It hands out what   *)
(* is cached as long as that is usable and otherwise, in the same step,    *)
(* replaces it by the newest token of the service.  The cache is emptied   *)
(* only by a client who holds a token that was rejected.  Tracker          *)
(* implements it although Provider.Get waits for the service on the way.   *)
(***************************************************************************)
EXTENDS Integers

CONSTANTS
  Clients,  \* who asks for tokens
  NoToken   \* below every token

VARIABLES
  cached,  \* the token in the cache, or NoToken
  lent,    \* lent[c]: the token client c works with, or NoToken
  newest,  \* the newest token of the service
  near,    \* tokens up to here expire within the provider's lead
  dead     \* tokens up to here are rejected

vars == <<cached, lent, newest, near, dead>>
world == <<newest, near, dead>>

Init ==
  /\ cached = NoToken
  /\ lent = [c \in Clients |-> NoToken]
  /\ newest > NoToken
  /\ near = NoToken
  /\ dead = NoToken

Lend(c, token) ==
  /\ lent[c] = NoToken
  /\ lent' = [lent EXCEPT ![c] = token]

Hit(c) ==
  /\ cached > near
  /\ Lend(c, cached)
  /\ UNCHANGED <<cached, world>>

\* One request to the service for each token that ran out or was dropped.
Refill(c) ==
  /\ cached <= near
  /\ cached' = newest
  /\ Lend(c, newest)
  /\ UNCHANGED world

GiveBack(c) ==
  /\ lent' = [lent EXCEPT ![c] = NoToken]
  /\ UNCHANGED <<cached, world>>

\* The token that was rejected need not be the one that is dropped.
Drop(c) ==
  /\ NoToken < lent[c]
  /\ lent[c] <= dead
  /\ cached' = NoToken
  /\ lent' = [lent EXCEPT ![c] = NoToken]
  /\ UNCHANGED world

\* Tokens are issued, expire and die.
Age ==
  /\ newest <= newest' /\ near <= near' /\ dead <= dead'
  /\ near' <= newest' /\ dead' <= newest'
  /\ UNCHANGED <<cached, lent>>

Next ==
  \/ Age
  \/ \E c \in Clients : Hit(c) \/ Refill(c) \/ GiveBack(c) \/ Drop(c)

Spec == Init /\ [][Next]_vars

=============================================================================
