------------------------------- MODULE Delivery -------------------------------
(***************************************************************************)
(* What the event feed promises a consumer, without pages, tables, filters *)
(* or transactions: he reads a log from one position to the next, and on   *)
(* the way tells his subscribers what they have a claim to, one event at a *)
(* time and in the order of the log.  A crash sets him back to the         *)
(* position he saved; nothing else does.  An event has a claim only if it  *)
(* was published above all that was published before it.  EventFeed        *)
(* implements it.                                                          *)
(***************************************************************************)
EXTENDS Integers

CONSTANTS
  Ids,  \* the places of the log
  None  \* no position yet, below every place

VARIABLES
  published,  \* the places filled so far
  claims,     \* the places somebody must be told of
  told,       \* told[i]: how often place i was told
  position,   \* everything up to here is behind the consumer
  saved,      \* the position that survives a crash
  crashes

vars == <<published, claims, told, position, saved, crashes>>
log == <<published, claims>>

Init ==
  /\ published = {}
  /\ claims = {}
  /\ told = [i \in Ids |-> 0]
  /\ position = None
  /\ saved = None
  /\ crashes = 0

Start ==
  /\ position = None
  /\ position' = 0 \/ position' \in published
  /\ saved' = position'
  /\ claims = {}
  /\ UNCHANGED <<log, told, crashes>>

Publish ==
  /\ published \subseteq published' /\ published' \subseteq Ids
  /\ claims \subseteq claims'
  /\ position = None => claims' = claims
  /\ \A i \in claims' \ claims :
       i \in published' \ published /\ \A j \in published : j < i
  /\ UNCHANGED <<told, position, saved, crashes>>

\* A claim is given up: the event expires or its subscriber leaves.
Forgo ==
  /\ claims' \subseteq claims
  /\ UNCHANGED <<published, told, position, saved, crashes>>

Between(i) == position < i /\ i <= position'

Advance ==
  /\ position # None
  /\ position' \in Int /\ position <= position'
  /\ position' = position \/ \E j \in published : position' <= j
  /\ UNCHANGED <<log, saved, crashes>>

\* Nobody has a claim to what lies on the way.
Pass ==
  /\ Advance
  /\ \A i \in claims : ~Between(i)
  /\ UNCHANGED told

Tell(i) ==
  /\ Advance
  /\ Between(i)
  /\ \A j \in claims : Between(j) => j = i
  /\ told' = [told EXCEPT ![i] = @ + 1]

Save ==
  /\ saved' = position
  /\ UNCHANGED <<log, told, position, crashes>>

Crash ==
  /\ position' = saved
  /\ crashes' = crashes + 1
  /\ UNCHANGED <<log, told, saved>>

Next ==
  \/ Start \/ Publish \/ Forgo
  \/ Pass \/ (\E i \in Ids : Tell(i))
  \/ Save \/ Crash

Spec == Init /\ [][Next]_vars

\* Whatever has a claim and is behind the consumer was told, and he never
\* saves a position that he has not reached.
ClaimsBehindAreTold ==
  /\ saved <= position
  /\ \A i \in claims : i <= position => told[i] > 0

\* A place is told again only after a crash, and what is ahead of the consumer
\* was told at most once for each.
RepeatsAreRationed ==
  \A i \in Ids : told[i] <= IF i > position THEN crashes ELSE crashes + 1

=============================================================================
