------------------------------ MODULE MCPresence ------------------------------
(***************************************************************************)
(* Presence and Untracking for TLC, and the refinement mapping to Visits.  *)
(***************************************************************************)
EXTENDS Untracking

OpenedVisits ==
  [x \in Kinds \X Players |->
     {e.session : e \in {d \in events : d.type = "OPENED" /\ d.kind = x[1] /\ d.player = x[2]}}]

LeftVisits ==
  [x \in Kinds \X Players |->
     {e.session : e \in {d \in events : d.type = "LEFT" /\ d.kind = x[1] /\ d.player = x[2]}}]

LostVisits ==
  [x \in Kinds \X Players |->
     {s.first : s \in {r \in sessions : /\ r.status = "CLOSED_DATA_GAP"
                                        /\ r.kind = x[1] /\ r.player = x[2]}}]

MissedPolls ==
  [x \in Kinds \X Players |->
     LET open == {s \in OpenSessions(x[1]) : s.player = x[2]}
     IN  IF open = {} THEN 0 ELSE (CHOOSE s \in open : TRUE).absentPolls]

V == INSTANCE Visits WITH
       Subjects <- Kinds \X Players, Confirmations <- AbsentConfirmations,
       opened <- OpenedVisits, left <- LeftVisits,
       lost <- LostVisits, missed <- MissedPolls

\* Outbox and session tables together implement Visits: a consumer that
\* follows the events and the rows sees every player arrive, miss polls,
\* leave or get lost exactly as the state machine of ADR 0005 allows.
ImplementsVisits == V!Spec

=============================================================================
