SPECIFICATION Spec
CONSTANTS
  MaxRooms = 1
  MaxNotes = 0
  MaxFaults = 1
PROPERTIES
  StartsAreConfigured
