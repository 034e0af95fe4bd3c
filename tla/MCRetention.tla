---------------------------- MODULE MCRetention ----------------------------
(***************************************************************************)
(* Retention with the rollups of rollup_repo.go on a short clock: two      *)
(* ticks make a bucket and four a day; the rollup of poll_run has the      *)
(* shape of the daily one.                                                 *)
(***************************************************************************)
EXTENDS Retention

MCTables == {"server_observation", "poll_run"}
MCKinds == {"poll"}
MCRollups == {"load_10m", "load_daily"}
MCTableOf == [k \in MCKinds |-> "server_observation"]
MCReads == [r \in MCRollups |-> IF r = "load_10m" THEN {"poll"} ELSE MCKinds]
MCPeriod == [r \in MCRollups |-> IF r = "load_10m" THEN 2 ELSE 4]
MCOverlap == [r \in MCRollups |-> IF r = "load_10m" THEN 2 ELSE 4]
MCClosedOnly == [r \in MCRollups |-> r = "load_10m"]
MCKeep == [t \in MCTables |-> IF t = "server_observation" THEN 9 ELSE 0]
MCSteps == <<"load_10m", "load_daily", "server_observation", "poll_run">>

\* The theorems of RetentionProofs are about this instance, too.
ASSUME InstanceSuffices == RetentionSuffices

=============================================================================
