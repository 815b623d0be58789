\* The console's pages, and visitors that register.  The bounds end the run.
SPECIFICATION Spec
CONSTANTS
  v1 = v1  v2 = v2  v3 = v3  ann = ann  bob = bob
  MaxInputs = 4
  MaxTroubles = 1
  MaxDevices = 3
  OldDevices = 1
  MaxUsers = 4
  OldUsers = 3
  PAGE_SIZE = 2
  Days <- MCDays
  MaxClips = 5
  OldClips = 3
  CLIPS_LIMIT = 2
  MaxPages = 2
  Visitors = {v1, v2}
  Names = {ann, bob}
  MaxSubmits = 3
  MaxBreaks = 1
  MaxRegistered = 3
SYMMETRY Symmetry
INVARIANTS TypeOK SpinnersStop  NoDeadPage CountedOnce CodeAdmitsOne NoStrangers
PROPERTIES TokenKept
CHECK_DEADLOCK FALSE
