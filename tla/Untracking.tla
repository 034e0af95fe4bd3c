----------------------------- MODULE Untracking -----------------------------
(***************************************************************************)
(* Presence and the list of tracked servers.  The rules of the catalog and *)
(* its merges take a server out of tracking while the tracker is anywhere  *)
(* in a poll of it, and may take it back later; the tracker reads the list *)
(* when a round begins and polls what it read.                             *)
(*                                                                         *)
(* One server again: here phase "asked" begins with the list, so it covers *)
(* the wait for the server's turn and for a slot too.                      *)
(***************************************************************************)
EXTENDS Presence

CONSTANT MaxDrop  \* when a server is dropped at the latest, for model checking only

VARIABLES
  tracked,  \* TrackedServers would list the server
  before    \* history: the observations made when it was taken out of tracking

trackingVars == <<tracked, before>>
uvars == <<vars, trackingVars>>

UInit ==
  /\ Init
  /\ tracked = TRUE
  /\ before = {}

\* Faulty variant: the list the process read at its start serves all rounds.
PollListed ==
  /\ StartPoll
  /\ UNCHANGED trackingVars

\* A round reads the list and the server is on it.
PollTracked ==
  /\ tracked
  /\ StartPoll
  /\ UNCHANGED trackingVars

\* Rule 3 of ApplyTrackingRules, or a merge that makes the server a victim.
\* Neither looks at the session tables.
Untrack ==
  /\ tracked
  /\ now <= MaxDrop
  /\ tracked' = FALSE
  /\ before' = observed
  /\ UNCHANGED vars

\* Rule 1 or 2 chooses the server again.
Track ==
  /\ ~tracked
  /\ tracked' = TRUE
  /\ before' = {}
  /\ UNCHANGED vars

\* Whatever else Presence does it does without a look at the list.
Answer == ListPlayersAnswers \/ PollFails
Apply == ApplyCommits \/ ApplyRollsBack \/ CommitUnacknowledged
Record == RecordSuccess \/ RecordFails

UNext ==
  \/ PollTracked
  \/ Untrack
  \/ Track
  \/ (Tick \/ Answer \/ Apply \/ Record \/ Restart) /\ UNCHANGED trackingVars

USpec == UInit /\ [][UNext]_uvars

-----------------------------------------------------------------------------
(* Properties *)

\* A server that was dropped is asked at most once more, by the round that
\* had read the list before, whatever crashes: no two observations of it were
\* committed after it was dropped.
OneAnswerAfterDrop ==
  ~tracked => \A x, y \in observed \ before : x = y

=============================================================================
