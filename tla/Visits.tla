-------------------------------- MODULE Visits --------------------------------
(***************************************************************************)
(* What presence tracking promises about one server, without polls,        *)
(* clocks, tables or crashes: every subject (a player in the game, a       *)
(* player in the queue) makes visits one after the other.  A visit that    *)
(* was opened is current until it is either announced as left, after so    *)
(* many consecutive absences, or given up because the data stopped; both   *)
(* are final.  Presence implements it: the visits opened and left are what *)
(* the event outbox says, the visits given up what the session tables say. *)
(***************************************************************************)
EXTENDS Integers

CONSTANTS
  Subjects,      \* who makes visits
  Confirmations  \* absences that prove a departure

VARIABLES
  opened,  \* the visits opened, each named by the moment it began
  left,    \* the visits announced as over
  lost,    \* the visits given up at a data gap
  missed   \* consecutive absences of the current visit

vars == <<opened, left, lost, missed>>

Current(x) == opened[x] \ (left[x] \cup lost[x])

Init ==
  /\ opened = [x \in Subjects |-> {}]
  /\ left = [x \in Subjects |-> {}]
  /\ lost = [x \in Subjects |-> {}]
  /\ missed = [x \in Subjects |-> 0]

\* A visit begins: visits are named in the order they are made.
Opens(x) ==
  /\ \E t \in opened'[x] : /\ t \in Int
                           /\ opened'[x] = opened[x] \cup {t}
                           /\ \A u \in opened[x] : u < t
  /\ missed'[x] = 0

Ends(x) == opened'[x] = opened[x] /\ missed'[x] = 0

Away(x) ==
  /\ Current(x) = {}
  /\ UNCHANGED <<opened[x], left[x], lost[x], missed[x]>>

Arrive(x) ==
  /\ Current(x) = {}
  /\ Opens(x)
  /\ UNCHANGED <<left[x], lost[x]>>

Remain(x) ==
  /\ Current(x) # {}
  /\ missed'[x] = 0
  /\ UNCHANGED <<opened[x], left[x], lost[x]>>

Miss(x) ==
  /\ Current(x) # {}
  /\ missed[x] + 1 < Confirmations
  /\ missed'[x] = missed[x] + 1
  /\ UNCHANGED <<opened[x], left[x], lost[x]>>

Leave(x) ==
  /\ Current(x) # {}
  /\ missed[x] + 1 >= Confirmations
  /\ left'[x] = left[x] \cup Current(x)
  /\ Ends(x)
  /\ UNCHANGED lost[x]

\* The data stopped; if the player is there again a new visit begins at once.
Lose(x) ==
  /\ Current(x) # {}
  /\ lost'[x] = lost[x] \cup Current(x)
  /\ Ends(x) \/ Opens(x)
  /\ UNCHANGED left[x]

Move(x) == Away(x) \/ Arrive(x) \/ Remain(x) \/ Miss(x) \/ Leave(x) \/ Lose(x)

\* One observation moves every subject.
Next == \A x \in Subjects : Move(x)

Spec == Init /\ [][Next]_vars

\* At most one visit of a subject is current, and a visit ends in one way.
VisitsInSequence ==
  \A x \in Subjects :
    /\ left[x] \cup lost[x] \subseteq opened[x]
    /\ left[x] \cap lost[x] = {}
    /\ \A t, u \in Current(x) : t = u
    /\ \A t \in Current(x), u \in opened[x] : u <= t

=============================================================================
