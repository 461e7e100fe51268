\* Two instances of the nightly job beside the webhooks, with a failing call and
\* a crash.
CONSTANTS
  u1 = u1
  Users = {u1}
  Subs = {s1}
  Labelled = {s1}
  Owner <- MCOwner
  Workers = {h1}
  Requests = {}
  Crons = {c1, c2}
  Period = 1
  HookDays = 1
  CronDays = 2
  PageLimit = 10
  HookLegacy = TRUE
  FetchLegacy = FALSE
  InOrder = TRUE
  Refunds = FALSE
  MaxNow = 2
  MaxEvents = 5
  MaxSessions = 1
  MaxDup = 0
  MaxFail = 1
  MaxCrash = 1
SPECIFICATION Spec
INVARIANT WarningsPerSender
CHECK_DEADLOCK FALSE
