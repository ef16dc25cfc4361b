SPECIFICATION FairSpec
CONSTANTS
  Member <- MCMember
  Group <- MCGroup
  Role <- MCRole
  Leader = dev
  Handlers = {h1, h2}
  Agents <- MCAgents
  operator = operator
  Groups <- MCGroups
  Policies <- MCPolicies
  GroupStrategy = "All"
  GroupRole = dev
  Late <- MCLate
  Texts <- MCTexts
  FixedToken = TRUE
  MaxSaid = 2
  MaxReplies = 1
  MaxBoots = 2
  MaxFaults = 1
  eve = eve
  alice = alice
  bob = bob
  team = team
  dev = dev
INVARIANTS
  WakesAreAskedFor
  DropsNeedARestart
PROPERTIES
  AsksAreAnswered
CHECK_DEADLOCK FALSE
