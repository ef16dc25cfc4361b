-------------------------------- MODULE MCRoom --------------------------------
(***************************************************************************)
(* A human and two agents for TLC. eve may start the team and alice, not   *)
(* bob; alice may start everybody, bob nobody.                             *)
(***************************************************************************)
EXTENDS MatrixRoom

CONSTANTS eve, alice, bob, team, dev

MCMember == {eve, alice, bob}
MCGroup == {team}
MCRole == {dev}
MCAgents == {alice, bob}
MCGroups == [g \in {team} |-> <<[who |-> alice, role |-> dev], [who |-> bob, role |-> dev]>>]
MCLate == {bob}

MCPolicies ==
  {[effect |-> "Allow", from |-> {eve, alice}, to |-> {team}, actions |-> {"Start"}],
   [effect |-> "Deny", from |-> {eve}, to |-> {bob}, actions |-> {}]}

(* The team; the team without one of its members; an agent; a message that  *)
(* mentions the operator too.                                               *)
MCTexts ==
  {[mentions |-> {team}, skip |-> {}],
   [mentions |-> {team, alice}, skip |-> {alice}],
   [mentions |-> {bob}, skip |-> {}],
   [mentions |-> {alice, operator}, skip |-> {}]}
================================================================================
