----------------------------- MODULE Organization -----------------------------
(***************************************************************************)
(* Who belongs to a Group, and what a Policy lets a Member do: the pure    *)
(* functions of internal/organization and internal/policy.                 *)
(*                                                                         *)
(* A name stands for its kind too, so Members and Groups are disjoint. Role*)
(* and member names are compared with EqualFold in places: a name here is  *)
(* its folded form.                                                        *)
(*                                                                         *)
(* groups   : a function from the names of the Groups that exist to their  *)
(*            spec.members, sequences of [who, role]                       *)
(* policies : the set of Policy specs                                      *)
(***************************************************************************)
EXTENDS Naturals, Sequences, SequencesExt

CONSTANTS
  Member,     \* names of Members
  Group,      \* names of Groups
  Role,       \* roles in a Group, the empty role included
  Leader      \* the role the Leader strategy looks for

ASSUME DisjointNames == Member \intersect Group = {}
ASSUME LeaderAssumption == Leader \in Role

Target == Member \union Group
Action == {"Start", "Continue", "Cancel"}
Strategy == {"All", "Any", "Role", "Leader"}
Effect == {"Allow", "Deny", "other"}   \* nothing validates it: Check skips "other"

GroupItem == [who : Target, role : Role]
PolicyType ==
  [effect : Effect, from : SUBSET Target, to : SUBSET Target, actions : SUBSET Action]

--------------------------------------------------------------------------------
(* Resolver.                                                                *)

(* Mutant: names are not compared.                                          *)
AddAll(list, more) == list \o more

(* Append the members whose name is not in the list yet: the first role     *)
(* a member is met with is the one it keeps.                                *)
AddOne(list, m) == IF \E i \in DOMAIN list : list[i].who = m.who THEN list ELSE Append(list, m)

AddUnseen(list, more) ==
  LET added[n \in 0 .. Len(more)] == IF n = 0 THEN list ELSE AddOne(added[n - 1], more[n])
  IN added[Len(more)]

(* Mutant: a nested Group that does not expand is left out.                 *)
AddItemAnyway(expand, acc, item) ==
  IF item.who \in Member
  THEN [acc EXCEPT !.list = AddUnseen(@, <<item>>)]
  ELSE LET nested == expand[<<item.who, acc.visited>>]
       IN [acc EXCEPT !.visited = nested.visited, !.list = AddUnseen(@, nested.list)]

(* One item of a Group's list; expand is what expandGroup returns for the   *)
(* nested ones. The visited map is passed by reference and never shrinks.   *)
AddItem(expand, acc, item) ==
  IF ~acc.ok THEN acc
  ELSE IF item.who \in Member
  THEN [acc EXCEPT !.list = AddUnseen(@, <<item>>)]
  ELSE LET nested == expand[<<item.who, acc.visited>>]
       IN [ok |-> nested.ok,
           visited |-> nested.visited,
           list |-> AddUnseen(acc.list, nested.list)]

AddItems(expand, items, entered) ==
  LET walked[n \in 0 .. Len(items)] ==
        IF n = 0 THEN [ok |-> TRUE, visited |-> entered, list |-> <<>>]
        ELSE AddItem(expand, walked[n - 1], items[n])
  IN walked[Len(items)]

(* expandGroup marks a group when it enters it and never unmarks it: a group *)
(* met twice is an error, even when no cycle leads back to it.               *)
Expansion(groups, root) ==
  LET expandGroup[at \in Group \X SUBSET Group] ==
        LET g == at[1]
            visited == at[2] IN
        IF g \in visited \/ g \notin DOMAIN groups
        THEN [ok |-> FALSE, visited |-> visited, list |-> <<>>]
        ELSE AddItems(expandGroup, groups[g], visited \union {g})
  IN expandGroup[<<root, {}>>]

Expands(groups, g) == Expansion(groups, g).ok
ExpandGroup(groups, g) == Expansion(groups, g).list
Names(list) == {list[i].who : i \in DOMAIN list}
WithRole(list, role) == {m \in Names(list) : \E i \in DOMAIN list : list[i] = [who |-> m, role |-> role]}

(* ResolveTargets for one target: whether it succeeds, and the names.       *)
Resolves(groups, strategy, role, target) ==
  target \in Group =>
    LET list == ExpandGroup(groups, target) IN
    /\ Expands(groups, target)
    /\ strategy = "Any" => list # <<>>
    /\ strategy = "Role" => WithRole(list, role) # {}
    /\ strategy = "Leader" => \E m \in Member : WithRole(list, Leader) = {m}

Resolved(groups, strategy, role, target) ==
  LET list == ExpandGroup(groups, target) IN
  IF target \in Member THEN {target}
  ELSE CASE strategy = "All"    -> Names(list)
         [] strategy = "Any"    -> {list[1].who}
         [] strategy = "Role"   -> WithRole(list, role)
         [] strategy = "Leader" -> WithRole(list, Leader)

--------------------------------------------------------------------------------
(* Evaluator.                                                               *)

(* Mutant: a Group that does not expand matches everybody.                  *)
InGroupUnlessBroken(groups, g, m) ==
  Expands(groups, g) => m \in Names(ExpandGroup(groups, g))

(* A Group that does not expand matches nobody: the error is skipped, for a *)
(* Deny as for an Allow.                                                    *)
InGroup(groups, g, m) == Expands(groups, g) /\ m \in Names(ExpandGroup(groups, g))

MatchesAction(pol, action) == pol.actions = {} \/ action \in pol.actions

MatchesSource(groups, pol, source) ==
  \/ pol.from = {}
  \/ source \in pol.from
  \/ \E g \in pol.from \intersect Group : InGroup(groups, g, source)

(* Mutant: a Group in spec.to stands for itself only.                       *)
MatchesNamedTarget(groups, pol, target) == pol.to = {} \/ target \in pol.to

MatchesTarget(groups, pol, target) ==
  \/ pol.to = {}
  \/ target \in pol.to
  \/ target \in Member /\ \E g \in pol.to \intersect Group : InGroup(groups, g, target)

Matches(groups, pol, source, target, action) ==
  /\ MatchesAction(pol, action)
  /\ MatchesSource(groups, pol, source)
  /\ MatchesTarget(groups, pol, target)

(* Mutant: an organization without Policies is open.                        *)
CheckUnlessNone(groups, policies, source, target, action) ==
  LET matching == {pol \in policies : Matches(groups, pol, source, target, action)} IN
  policies # {} =>
    /\ \A pol \in matching : pol.effect # "Deny"
    /\ \E pol \in matching : pol.effect = "Allow"

(* Check: the order of the Policies does not matter, a matching Deny wins   *)
(* and no matching Allow is a Deny.                                         *)
Check(groups, policies, source, target, action) ==
  LET matching == {pol \in policies : Matches(groups, pol, source, target, action)} IN
  /\ \A pol \in matching : pol.effect # "Deny"
  /\ \E pol \in matching : pol.effect = "Allow"

Grants(groups, policies) ==
  {g \in Member \X Target \X Action : Check(groups, policies, g[1], g[2], g[3])}
================================================================================
