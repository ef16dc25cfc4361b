SPECIFICATION AdminSpec
CONSTANTS
  Member <- MCMember
  Group <- MCGroup
  Role <- MCRole
  Leader = lead
  GroupSpecs <- MCGroupSpecs
  PolicySpecs <- MCPolicySpecs
  alice = alice
  bob = bob
  inner = inner
  outer = outer
  top = top
  dev = dev
  lead = lead
INVARIANTS
  SoundNestsExpand
  ExpansionIsMembership
  GroupGrantsReachMembers
PROPERTIES
  PolicyEditsAreMonotone
  GroupEditsAreLocal
