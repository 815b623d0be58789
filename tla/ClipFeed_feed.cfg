\* Two clips are there and one comes, with a lower id than theirs or not; one is
\* deleted, one fault, two inputs.  It stops when the bounds are used up.
SPECIFICATION Spec
CONSTANTS
  MaxRows = 3  OldRows = 2
  Kinds = {"text", "image"}
  KindOf <- MCKindOf
  All = "all"
  MAX_DISPLAY = 2  PAGE_SIZE = 1  SYNC_LIMIT = 2  SEND_BUFFER = 2
  MaxDeletes = 1  MaxFaults = 1  MaxInputs = 2
INVARIANTS TypeOK OneSocket NoDuplicates ShowsFilter NoGaps NoGhosts
CHECK_DEADLOCK FALSE
