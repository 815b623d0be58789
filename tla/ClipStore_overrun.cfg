\* Three text uploads of sizes 1, 2 and 1 against a quota of 2: all may pass the
\* check together, and the excess may take several rows or a part of the last one.
SPECIFICATION FairSpec
CONSTANTS
  u1 = u1  u2 = u2  f1 = f1  t1 = t1  t2 = t2  t3 = t3
  Users = {u1}
  Files = {}
  Texts = {t1, t2, t3}
  Owner <- MCOwner
  Size <- MCSize
  Quotas = {2}
  Requests = {}
  Dialects = {"sqlite"}
  Batch = 2
  Grace = 1
  StaleTmp = 1
  SaveLag = 0
  RoundLag = 0
  MaxSecond = 4
  MaxFaults = 0
PROPERTIES QuotaRestored
