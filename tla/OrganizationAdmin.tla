-------------------------- MODULE OrganizationAdmin --------------------------
(***************************************************************************)
(* An organization under edit: Groups and Policies are applied and deleted *)
(* one object at a time, in any order, with nothing that validates a       *)
(* reference between them. Organization says what the controller then      *)
(* computes; the properties say what an administrator may rely on.         *)
(***************************************************************************)
EXTENDS Organization, FiniteSets

CONSTANTS
  GroupSpecs,     \* bodies of spec.members a Group may be given
  PolicySpecs     \* bodies a Policy may be given

ASSUME GroupSpecsAssumption == GroupSpecs \subseteq Seq(GroupItem)
ASSUME PolicySpecsAssumption == PolicySpecs \subseteq PolicyType

VARIABLES
  groups,     \* the Groups of the namespace
  policies    \* the Policies of the namespace

ovars == <<groups, policies>>

AdminInit ==
  /\ groups = [g \in {} |-> <<>>]
  /\ policies = {}

ApplyGroup(g, items) ==
  /\ groups' = [h \in DOMAIN groups \union {g} |-> IF h = g THEN items ELSE groups[h]]
  /\ UNCHANGED policies

DeleteGroup(g) ==
  /\ g \in DOMAIN groups
  /\ groups' = [h \in DOMAIN groups \ {g} |-> groups[h]]
  /\ UNCHANGED policies

ApplyPolicy(pol) ==
  /\ policies' = policies \union {pol}
  /\ UNCHANGED groups

DeletePolicy(pol) ==
  /\ pol \in policies
  /\ policies' = policies \ {pol}
  /\ UNCHANGED groups

AdminNext ==
  \/ \E g \in Group, items \in GroupSpecs : ApplyGroup(g, items)
  \/ \E g \in Group : DeleteGroup(g)
  \/ \E pol \in PolicySpecs : ApplyPolicy(pol)
  \/ \E pol \in policies : DeletePolicy(pol)

AdminSpec == AdminInit /\ [][AdminNext]_ovars

--------------------------------------------------------------------------------
(* What a nest of Groups means, apart from how it is walked.                *)

Items(gs, g) == IF g \in DOMAIN gs THEN gs[g] ELSE <<>>
Lists(gs, g, who) == \E i \in DOMAIN Items(gs, g) : Items(gs, g)[i].who = who

(* The Groups in g: the least set that has g and the Groups its Groups name.*)
Below(gs, g) ==
  {h \in Group :
     \A S \in SUBSET Group :
       g \in S /\ (\A a \in S, b \in Group : Lists(gs, a, b) => b \in S) => h \in S}

Complete(gs, g) == Below(gs, g) \subseteq DOMAIN gs
Acyclic(gs, g) ==
  \A a, b \in Below(gs, g) : Lists(gs, a, b) => a \notin Below(gs, b)

(* A tree names each of its Groups in one place.                            *)
Places(gs, g, h) ==
  UNION {{a} \X {i \in DOMAIN Items(gs, a) : Items(gs, a)[i].who = h} : a \in Below(gs, g)}
Tree(gs, g) ==
  Acyclic(gs, g) /\ \A h \in Below(gs, g) \ {g} : Cardinality(Places(gs, g, h)) = 1

Belongs(gs, g, m) ==
  Complete(gs, g) /\ Tree(gs, g) /\ \E h \in Below(gs, g) : Lists(gs, h, m)

(* What ExpandGroup accepts is sound, and every tree of Groups that exist   *)
(* is accepted: a missing Group or a cycle anywhere below is always found.  *)
(* Between the two lies the nest that is acyclic but reaches a Group in two *)
(* places. The documents allow it and the code refuses it, as a cycle; this *)
(* property takes no side, TreesExpand says what is the case.               *)
SoundNestsExpand ==
  \A g \in Group :
    /\ Expands(groups, g) => Complete(groups, g) /\ Acyclic(groups, g)
    /\ Complete(groups, g) /\ Tree(groups, g) => Expands(groups, g)

(* What the code accepts, exactly.                                          *)
TreesExpand ==
  \A g \in Group : Expands(groups, g) <=> Complete(groups, g) /\ Tree(groups, g)

(* What it returns lists every Member of the nest once.                     *)
ExpansionIsMembership ==
  \A g \in Group : Expands(groups, g) =>
    LET list == ExpandGroup(groups, g) IN
    /\ Names(list) = {m \in Member : \E h \in Below(groups, g) : Lists(groups, h, m)}
    /\ Len(list) = Cardinality(Names(list))

(* Whoever may act on a Group may act on each of its Members, unless a Deny *)
(* names that Member or another Group of theirs: StartCollaboration checks  *)
(* the Group first and then every Member it resolves to.                    *)
GroupGrantsReachMembers ==
  \A source \in Member, g \in Group, action \in Action :
    Check(groups, policies, source, g, action) =>
      \A m \in Member :
        \/ ~InGroup(groups, g, m)
        \/ Check(groups, policies, source, m, action)
        \/ \E pol \in policies :
             pol.effect = "Deny" /\ Matches(groups, pol, source, m, action)

(* Adding a Deny or taking an Allow away never allows anything new; adding  *)
(* an Allow or taking a Deny away never forbids anything.                   *)
Stricter(pols, more) ==
  /\ \A pol \in more \ pols : pol.effect # "Allow"
  /\ \A pol \in pols \ more : pol.effect # "Deny"

PolicyEditsAreMonotone ==
  [][groups' = groups =>
       /\ Stricter(policies, policies') =>
            Grants(groups, policies') \subseteq Grants(groups, policies)
       /\ Stricter(policies', policies) =>
            Grants(groups, policies) \subseteq Grants(groups, policies')]_ovars

(* Editing Groups changes what is allowed only for Members that enter or    *)
(* leave some Group: the rest of the organization keeps its rights, whatever*)
(* state the edit leaves the Groups in.                                     *)
Moved(old, new) ==
  {m \in Member : \E g \in Group : Belongs(old, g, m) # Belongs(new, g, m)}

GroupEditsAreLocal ==
  [][policies' = policies =>
       \A source \in Member \ Moved(groups, groups'),
          target \in Target \ Moved(groups, groups'), action \in Action :
         Check(groups, policies, source, target, action)
           = Check(groups', policies, source, target, action)]_ovars
================================================================================
