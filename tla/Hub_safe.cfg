\* Two connections of one user, two events for different users. The process may end.
SPECIFICATION Spec
CONSTANTS
  u1 = u1  u2 = u2  c1 = c1  c2 = c2  p1 = p1  p2 = p2
  Conns = {c1, c2}
  Posts = {p1, p2}
  Users = {u1, u2}
  UserOf <- MCUsersOf
  RegisterCap = 1
  UnregisterCap = 1
  BroadcastCap = 1
  SendCap = 2
INVARIANTS TypeOK DeliversInOrder CountTellsConnections
CHECK_DEADLOCK FALSE
