\* Webhooks handled two at a time, in any order, delivered twice and
\* interrupted.  Stripe's API is newer than its webhooks.
CONSTANTS
  u1 = u1
  Users = {u1}
  Subs = {s1}
  Labelled = {s1}
  Owner <- MCOwner
  Workers = {h1, h2}
  Requests = {}
  Crons = {}
  Period = 2
  HookDays = 1
  CronDays = 2
  PageLimit = 10
  HookLegacy = TRUE
  FetchLegacy = TRUE
  InOrder = FALSE
  Refunds = TRUE
  MaxNow = 2
  MaxEvents = 5
  MaxSessions = 1
  MaxDup = 1
  MaxFail = 0
  MaxCrash = 1
SPECIFICATION Spec
SYMMETRY Symmetry
INVARIANTS TypeOK CreatedMailOnce AccessIsBilled
CHECK_DEADLOCK FALSE
