SPECIFICATION FairSpec
CONSTANTS
  Handlers = {h1, h2, h3}
  Messages <- MCMessages
  Mentions <- MCMentions
  Log <- MCLog
  MaxBoots = 2
  MaxTimeouts = 2
  ask = ask
  follow = follow
  chat = chat
  later = later
INVARIANTS
  OneStartPerBoot
  AcknowledgedIsAccountedFor
PROPERTIES
  AcknowledgedStaysHandled
  EverythingIsAcknowledged
CHECK_DEADLOCK FALSE
