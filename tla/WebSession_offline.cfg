\* One tab; the server is unreachable for one refresh, at any time.
SPECIFICATION Spec
CONSTANTS
  t1 = t1  t2 = t2  me = me  r1 = r1
  Tabs = {t1}
  Reqs = {me, r1}
  Me = me
  Pairs <- MCPairs
  NoPair = 0
  MaxFaults = 1
  FaultKinds = {"unreachable"}
  MeFaults = TRUE
INVARIANT SessionKept
