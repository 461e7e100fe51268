\* The nightly job against a renewal, every webhook in order.
CONSTANTS
  u1 = u1
  Users = {u1}
  Subs = {s1}
  Labelled = {s1}
  Owner <- MCOwner
  Workers = {h1}
  Requests = {}
  Crons = {c1}
  Period = 2
  HookDays = 1
  CronDays = 2
  PageLimit = 10
  HookLegacy = TRUE
  FetchLegacy = FALSE
  InOrder = TRUE
  Refunds = FALSE
  MaxNow = 3
  MaxEvents = 5
  MaxSessions = 1
  MaxDup = 0
  MaxFail = 0
  MaxCrash = 0
SPECIFICATION Spec
INVARIANT PaidMeansAccess
CHECK_DEADLOCK FALSE
