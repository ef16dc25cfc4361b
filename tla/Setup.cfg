SPECIFICATION FairSpec
CONSTANTS
  Users = {u1, u2}
  MaxRooms = 2
  MaxFaults = 2
  MaxResets = 1
INVARIANTS
  TypeOK
  OneRoom
PROPERTY
  ParticipantsGetIn
