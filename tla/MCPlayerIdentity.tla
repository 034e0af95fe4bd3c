-------------------------- MODULE MCPlayerIdentity --------------------------
(***************************************************************************)
(* PlayerIdentity for TLC.                                                 *)
(***************************************************************************)
EXTENDS PlayerIdentity, TLC

\* Servers, players and nicknames differ in nothing but their name.
Symmetry == Permutations(Servers) \cup Permutations(Players) \cup Permutations(Nicks)

=============================================================================
