SPECIFICATION Spec
CONSTANTS
  Members <- MCMembers
  Groups <- MCGroups
  Roles <- MCRoles
  Orgs <- MCOrgs
  Config <- MCConfig
  normal = normal
  denying = denying
  shrunk = shrunk
  Starts <- MCFewStarts
  Events <- MCEvents
  EventIds <- MCEventIds
  NoRole = NoRole
  NoId = NoId
  NoEvent = NoEvent
  NoRun = NoRun
  NoWork = NoWork
  alice = alice
  be1 = be1
  be2 = be2
  team = team
  dev = dev
  lead = lead
  e1 = e1
  Requests = {r1, r2, r3}
  Serial = TRUE
SYMMETRY Symmetry
INVARIANTS
  RoundsBoundWakes
PROPERTIES
  TerminalIsFinal
  ImplementsLifecycle
CHECK_DEADLOCK FALSE
