\* Everything that can be asked, one request at a time, and one device that
\* leaves, call that fails or instance that dies; what is stored arrives.
CONSTANTS
  u1 = u1
  u2 = u2
  d1 = d1
  d2 = d2
  i1 = i1
  i2 = i2
  p1 = p1
  p2 = p2
  Users = {u1, u2}
  Devices = {d1, d2}
  Instances = {i1, i2}
  UserOf <- MCUserOf
  Offline = Offline
  Start <- MCStart
  Primary = i1
  Home <- MCHome
  Procs = {p2}
  Talks <- MCTalksOne
  Kinds = {"send", "open", "read", "user.message", "user.typing", "getOnlineUsers"}
  MaxRequests = 2
  MaxUpsets = 1
SPECIFICATION FairSpec
INVARIANTS TypeOK PushedToItsEnds InOrderOnce
PROPERTY MessageReachesEnds
CHECK_DEADLOCK FALSE
