SPECIFICATION FairSpec
CONSTANTS
  Member <- MCMember
  Group <- MCGroup
  Role <- MCRole
  Leader = lead
  Collaboration <- MCCollaboration
  Policy <- MCPolicy
  Specs <- MCSpecs
  MaxChanges = 2
  MaxFaults = 1
  alice = alice
  team = team
  lead = lead
  collab = collab
  policy = policy
INVARIANTS
  TypeOK
  VerdictsAreOfTheirVersion
PROPERTIES
  NothingIsUndone
  LastSpecIsApplied
  StatusesSettle
