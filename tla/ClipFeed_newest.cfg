\* Three clips from the start and room for two: nothing fails, nothing is deleted.
SPECIFICATION Spec
CONSTANTS
  MaxRows = 3  OldRows = 3
  Kinds = {"text", "image"}
  KindOf <- MCKindOf
  All = "all"
  MAX_DISPLAY = 2  PAGE_SIZE = 1  SYNC_LIMIT = 2  SEND_BUFFER = 2
  MaxDeletes = 0  MaxFaults = 0  MaxInputs = 1
INVARIANT ShowsNewest
CHECK_DEADLOCK FALSE
