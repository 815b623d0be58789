\* One tab with two requests at a time; the server may be unreachable or fail
\* to create a successor while no GET /api/me waits.
SPECIFICATION FairSpec
CONSTANTS
  t1 = t1  t2 = t2  me = me  r1 = r1
  Tabs = {t1}
  Reqs = {me, r1}
  Me = me
  Pairs <- MCPairs
  NoPair = 0
  MaxFaults = 1
  FaultKinds = {"unreachable", "create"}
  MeFaults = FALSE
INVARIANTS TypeOK SessionKept
PROPERTIES RequestsEnd LogoutLeaves
