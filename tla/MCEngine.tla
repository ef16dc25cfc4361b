------------------------------- MODULE MCEngine -------------------------------
(***************************************************************************)
(* Instances of CollaborationEngine for TLC. The clusters are built with   *)
(* Organization: their grants and expansions are what Check and            *)
(* ResolveTargets compute from Groups and Policies.                        *)
(***************************************************************************)
EXTENDS CollaborationEngine, FiniteSets, TLC

CONSTANTS alice, be1, be2, team, dev, lead, e1, normal, denying, shrunk

O == INSTANCE Organization WITH
       Member <- Members, Group <- Groups, Role <- {dev, lead, NoRole}, Leader <- lead

MCMembers == {alice, be1, be2}
MCGroups == {team}
MCRoles == {dev}
MCEventIds == {e1}

TeamOf(second) == team :> <<[who |-> be1, role |-> lead], [who |-> second, role |-> dev]>>

(* The lead may do anything to the team and cancel her own runs; the team   *)
(* may continue with anybody. NoStart takes be2 out of new runs.            *)
Allowed ==
  {[effect |-> "Allow", from |-> {alice}, to |-> {team, alice}, actions |-> {}],
   [effect |-> "Allow", from |-> {team}, to |-> {team, alice}, actions |-> {"Continue"}]}
NoStart == [effect |-> "Deny", from |-> {}, to |-> {be2}, actions |-> {"Start"}]

Org(policies, strategy, limit, present, accounts) ==
  LET groups == TeamOf(be2)
      how(role) == IF role = NoRole THEN strategy ELSE "Role"
      keys == {<<g, role>> \in MCGroups \X (MCRoles \union {NoRole}) :
                 O!Resolves(groups, how(role), role, g)}
  IN [grants |-> O!Grants(groups, policies),
      resolves |-> keys,
      expand |-> [k \in MCGroups \X (MCRoles \union {NoRole}) |->
                    IF k \in keys THEN O!Resolved(groups, how(k[2]), k[2], k[1]) ELSE {}],
      limit |-> limit, members |-> present, agents |-> {be1, be2}, mxids |-> accounts]

MCOrgs == {normal, denying, shrunk}
MCFewOrgs == {denying, shrunk}
MCConfig ==
  normal  :> Org(Allowed, "All", 2, MCMembers, {be1, be2}) @@
  denying :> Org(Allowed \union {NoStart}, "Leader", 1, MCMembers, {be1, be2}) @@
  shrunk  :> Org(Allowed, "All", 0, {alice, be1}, {be1})
(* Here be2 is not gone but has no Matrix account yet.                      *)
MCFewConfig == [o \in MCFewOrgs |-> [MCConfig[o] EXCEPT !.members = MCMembers]]

Start(from, to, role, only, skip) ==
  [from |-> from, to |-> to, role |-> role, only |-> only, skip |-> skip]
MCFewStarts == {Start(alice, {team}, NoRole, {}, {})}
MCStarts ==
  {Start(alice, {team}, NoRole, {}, {}),
   Start(alice, {team, be1}, dev, {}, {be1})}

Event(type, source, targets, id, status) ==
  [type |-> type, source |-> source, targets |-> targets, id |-> id, status |-> status]
MCEvents ==
  {Event("Message", be1, {alice}, NoId, "absent"),
   Event("MemberRequest", be2, {team}, NoId, "absent"),
   Event("Result", be2, {}, NoId, "absent"),
   Event("Cancel", alice, {}, NoId, "absent"),
   Event("Cancel", be1, {}, NoId, "absent"),
   Event("Error", be2, {}, NoId, "absent"),
   Event("Other", be2, {}, NoId, "absent")}

(* A wake-up and an end of a run, and two different events of one id.       *)
MCOverlappingEvents ==
  {Event("Message", be1, {alice}, NoId, "absent"),
   Event("Message", be1, {}, e1, "absent"),
   Event("MemberRequest", be2, {team}, NoId, "absent"),
   Event("Result", be1, {}, e1, "failed")}

MCFewEvents ==
  {Event("Message", be1, {alice}, e1, "absent"),
   Event("MemberRequest", be2, {team}, NoId, "absent"),
   Event("Result", be2, {}, NoId, "absent"),
   Event("Cancel", alice, {}, NoId, "absent")}

(* Requests are interchangeable.                                            *)
Symmetry == Permutations(Requests)
================================================================================
