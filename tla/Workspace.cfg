SPECIFICATION FairSpec
CONSTANTS
  MaxRooms = 1
  MaxNotes = 2
  MaxFaults = 2
INVARIANTS
  TypeOK
  OnlyReseedingCutsAChannel
PROPERTIES
  EditsSurvive
  MemoryIsKept
  WorkIsPushed
