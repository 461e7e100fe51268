\* Two requests at a time, and socket messages: both users send, open and read,
\* in one instance; one user writes to himself, too.  The two requests in
\* flight are alike.
CONSTANTS
  u1 = u1
  u2 = u2
  d1 = d1
  d2 = d2
  i1 = i1
  i2 = i2
  p1 = p1
  p2 = p2
  Users = {u1, u2}
  Devices = {d1, d2}
  Instances = {i1}
  UserOf <- MCUserOf
  Offline = Offline
  Start <- MCStart
  Primary = i1
  Home <- MCHome
  Procs = {p1, p2}
  Talks <- MCTalksSelf
  Kinds = {"send", "open", "read", "user.message", "user.typing", "getOnlineUsers"}
  MaxRequests = 3
  MaxUpsets = 0
SPECIFICATION Spec
SYMMETRY MCAlike
INVARIANTS LateRequestsReuse ReceiptCovered
PROPERTY ReadOnlyByReader
CHECK_DEADLOCK FALSE
