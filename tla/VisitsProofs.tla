---------------------------- MODULE VisitsProofs ----------------------------
(***************************************************************************)
(* What the abstract machine of visits gives to whatever implements it.    *)
(***************************************************************************)
EXTENDS Visits, TLAPS

InSequence(x) ==
  /\ opened[x] \subseteq Int
  /\ left[x] \cup lost[x] \subseteq opened[x]
  /\ left[x] \cap lost[x] = {}
  /\ \A t \in Current(x), u \in opened[x] : u <= t

\* Every subject's visits follow each other.
IInv == \A x \in Subjects : InSequence(x)

\* One observation keeps the visits of one subject in sequence: a visit is
\* opened only above all others and only when none is current.
LEMMA MoveKeepsSequence ==
  ASSUME NEW x \in Subjects, InSequence(x), Move(x)
  PROVE  InSequence(x)'
<1> USE DEF InSequence, Current
<1>1. CASE Away(x)
  BY <1>1 DEF Away
<1>2. CASE Arrive(x)
  <2>1. left[x]' = left[x] /\ lost[x]' = lost[x] /\ opened[x] = left[x] \cup lost[x]
    BY <1>2 DEF Arrive
  <2>2. PICK t \in Int : opened'[x] = opened[x] \cup {t} /\ \A u \in opened[x] : u < t
    BY <1>2 DEF Arrive, Opens
  <2>3. Current(x)' \subseteq {t}
    BY <2>1, <2>2
  <2> QED BY <2>1, <2>2, <2>3
<1>3. CASE Remain(x)
  BY <1>3 DEF Remain
<1>4. CASE Miss(x)
  BY <1>4 DEF Miss
<1>5. CASE Leave(x)
  BY <1>5 DEF Leave, Ends
<1>6. CASE Lose(x)
  <2>1. left[x]' = left[x] /\ lost'[x] = lost[x] \cup Current(x)
    BY <1>6 DEF Lose
  <2>2. CASE Ends(x)
    BY <2>1, <2>2 DEF Ends
  <2>3. CASE Opens(x)
    <3>1. PICK t \in Int : opened'[x] = opened[x] \cup {t} /\ \A u \in opened[x] : u < t
      BY <2>3 DEF Opens
    <3>2. Current(x)' \subseteq {t}
      BY <2>1, <3>1
    <3> QED BY <2>1, <3>1, <3>2
  <2> QED BY <1>6, <2>2, <2>3 DEF Lose
<1> QED BY <1>1, <1>2, <1>3, <1>4, <1>5, <1>6 DEF Move

\* At most one visit is current, it is the latest, and a visit is either left
\* or lost: what an implementation of Visits inherits.
THEOREM VisitsFollowEachOther == Spec => []VisitsInSequence
<1>1. Init => IInv
  BY DEF Init, IInv, InSequence, Current
<1>2. IInv /\ [Next]_vars => IInv'
  <2> SUFFICES ASSUME IInv, [Next]_vars PROVE IInv'
    OBVIOUS
  <2>1. CASE Next
    BY <2>1, MoveKeepsSequence DEF Next, IInv
  <2>2. CASE UNCHANGED vars
    BY <2>2 DEF vars, IInv, InSequence, Current
  <2> QED BY <2>1, <2>2
<1>3. IInv => VisitsInSequence
  <2> SUFFICES ASSUME IInv, NEW x \in Subjects
               PROVE  /\ left[x] \cup lost[x] \subseteq opened[x]
                      /\ left[x] \cap lost[x] = {}
                      /\ \A t, u \in Current(x) : t = u
                      /\ \A t \in Current(x), u \in opened[x] : u <= t
    BY DEF VisitsInSequence
  <2> QED BY DEF IInv, InSequence, Current
<1> QED BY <1>1, <1>2, <1>3, PTL DEF Spec

=============================================================================
