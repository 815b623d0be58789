\* One connection that leaves at once, then Stop. The process may end.
SPECIFICATION Spec
CONSTANTS
  u1 = u1  u2 = u2  c1 = c1  c2 = c2  p1 = p1  p2 = p2
  Conns = {c1}
  Posts = {}
  Users = {u1, u2}
  UserOf <- MCUserOf
  RegisterCap = 1
  UnregisterCap = 1
  BroadcastCap = 1
  SendCap = 1
INVARIANTS ClosesOnce
CHECK_DEADLOCK FALSE
