\* One file upload, one DELETE slot, two faults, both databases; safety and liveness.
SPECIFICATION FairSpec
CONSTANTS
  u1 = u1  u2 = u2  f1 = f1  t1 = t1  t2 = t2  t3 = t3
  Users = {u1}
  Files = {f1}
  Texts = {}
  Owner <- MCOwner
  Size <- MCSize
  Quotas = {0, 1}
  Requests = {d1}
  Dialects = {"sqlite", "postgres"}
  Batch = 1
  Grace = 3
  StaleTmp = 3
  SaveLag = 1
  RoundLag = 1
  MaxSecond = 1
  MaxFaults = 2
INVARIANTS TypeOK UploadsIntact RowsServable
PROPERTIES KeepsPromise OrphansReclaimed ExpiredRemoved
