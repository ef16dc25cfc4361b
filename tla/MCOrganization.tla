---------------------------- MODULE MCOrganization ----------------------------
(***************************************************************************)
(* A small organization for TLC: two Members, three Groups, and the shapes *)
(* of nest that the walk could get wrong: a Group in itself, a Group in two*)
(* Groups of the same nest, a Group that is not there.                     *)
(***************************************************************************)
EXTENDS OrganizationAdmin

CONSTANTS alice, bob, inner, outer, top, dev, lead

MCMember == {alice, bob}
MCGroup == {inner, outer, top}
MCRole == {dev, lead}

Item(who, role) == [who |-> who, role |-> role]

MCGroupSpecs ==
  {<<Item(alice, lead)>>,
   <<Item(bob, dev), Item(alice, dev)>>,
   <<Item(inner, dev), Item(alice, dev)>>,
   <<Item(outer, dev), Item(inner, dev)>>,
   <<Item(bob, lead), Item(outer, dev), Item(bob, dev)>>}

(* A Deny for the members of inner, an Allow to act on outer, and an Allow  *)
(* for everybody on bob, in every action.                                   *)
MCPolicySpecs ==
  {[effect |-> "Deny", from |-> {}, to |-> {inner}, actions |-> {"Start"}],
   [effect |-> "Allow", from |-> {alice, top}, to |-> {outer, top}, actions |-> {"Start", "Cancel"}],
   [effect |-> "Allow", from |-> {}, to |-> {bob}, actions |-> {}]}
================================================================================
