\* One file upload on SQLite, one fault.
SPECIFICATION Spec
CONSTANTS
  u1 = u1  u2 = u2  f1 = f1  t1 = t1  t2 = t2  t3 = t3
  Users = {u1}
  Files = {f1}
  Texts = {}
  Owner <- MCOwner
  Size <- MCSize
  Quotas = {1}
  Requests = {}
  Dialects = {"sqlite"}
  Batch = 1
  Grace = 3
  StaleTmp = 3
  SaveLag = 1
  RoundLag = 1
  MaxSecond = 1
  MaxFaults = 1
INVARIANTS NoDanglingRow
