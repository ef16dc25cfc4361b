-------------------------------- MODULE MCStatus -------------------------------
(***************************************************************************)
(* For TLC: a Group that may hold itself, which does not expand; a         *)
(* Collaboration of the Group, and maybe of a Member of it; and a Policy   *)
(* whose effect may be missing.                                            *)
(***************************************************************************)
EXTENDS OrganizationStatus

CONSTANTS alice, team, lead, collab, policy

MCMember == {alice}
MCGroup == {team}
MCRole == {lead}
MCCollaboration == {collab}
MCPolicy == {policy}

Item(who) == [who |-> who, role |-> lead]

MCSpecs ==
  team :> {<<Item(alice)>>, <<Item(alice), Item(team)>>}
  @@ collab :> {<<team>>, <<team, alice>>}
  @@ policy :> {"Allow", ""}
================================================================================
