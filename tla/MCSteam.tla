------------------------------ MODULE MCSteam ------------------------------
(***************************************************************************)
(* Steam with two sources, one of fields that may be hidden and the list   *)
(* of friends, and with four answers of the gateway: both shown, the games *)
(* hidden and no friends left, both lost (one with the body null, one with *)
(* none), and games without minutes beside a list that does not parse.     *)
(***************************************************************************)
EXTENDS Steam

CONSTANTS a1, f1, v1

MCAccounts == {a1}
MCFriends == {f1}
MCValues == {v1}
MCSources == {"games", "friends"}
Reply(games, value, friends, list) ==
  [s \in MCSources |->
     IF s = "games" THEN [body |-> games, value |-> value, list |-> {}]
     ELSE [body |-> friends, value |-> Unknown, list |-> list]]
MCReplies ==
  {Reply("shown", v1, "shown", {f1}), Reply("hidden", Unknown, "shown", {}),
   Reply("null", Unknown, "no", {}), Reply("shown", Unknown, "odd", {})}

=============================================================================
