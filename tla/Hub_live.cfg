\* Two connections and one event of one user; liveness. The process may end.
SPECIFICATION FairSpec
CONSTANTS
  u1 = u1  u2 = u2  c1 = c1  c2 = c2  p1 = p1  p2 = p2
  Conns = {c1, c2}
  Posts = {p1}
  Users = {u1, u2}
  UserOf <- MCUserOf
  RegisterCap = 1
  UnregisterCap = 1
  BroadcastCap = 1
  SendCap = 1
PROPERTIES PostsServed HandlersEnd EventsDelivered
CHECK_DEADLOCK FALSE
