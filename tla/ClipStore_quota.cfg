\* Two text uploads of u1, which go over its quota together; u2 may send DELETE too.
SPECIFICATION Spec
CONSTANTS
  u1 = u1  u2 = u2  f1 = f1  t1 = t1  t2 = t2  t3 = t3
  Users = {u1, u2}
  Files = {}
  Texts = {t1, t2}
  Owner <- MCOwner
  Size <- MCSize
  Quotas = {2}
  Requests = {d1}
  Dialects = {"sqlite"}
  Batch = 2
  Grace = 3
  StaleTmp = 3
  SaveLag = 1
  RoundLag = 1
  MaxSecond = 3
  MaxFaults = 0
PROPERTIES KeepsPromise EvictsOldestFirst
