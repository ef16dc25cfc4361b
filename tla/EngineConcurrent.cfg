SPECIFICATION Spec
CONSTANTS
  Members <- MCMembers
  Groups <- MCGroups
  Roles <- MCRoles
  Orgs <- MCFewOrgs
  Config <- MCFewConfig
  normal = normal
  denying = denying
  shrunk = shrunk
  Starts <- MCStarts
  Events <- MCOverlappingEvents
  EventIds <- MCEventIds
  NoRole = NoRole
  NoId = NoId
  NoEvent = NoEvent
  NoRun = NoRun
  NoWork = NoWork
  alice = alice
  be1 = be1
  be2 = be2
  team = team
  dev = dev
  lead = lead
  e1 = e1
  Requests = {r1, r2, r3}
  Serial = FALSE
SYMMETRY Symmetry
INVARIANTS
  WakesAreRecorded
  WakesAreAuthorised
  AnsweredWakesArePosted
PROPERTY
  RunIdentityIsFixed
CHECK_DEADLOCK FALSE
