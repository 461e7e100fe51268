\* One webhook at a time, in the order Stripe emits them, beside user requests,
\* markExpiredSubscriptions and a crash.  Stripe's API is newer than its webhooks.
CONSTANTS
  u1 = u1
  Users = {u1}
  Subs = {s1}
  Labelled = {s1}
  Owner <- MCOwner
  Workers = {h1}
  Requests = {r1}
  Crons = {}
  Period = 1
  HookDays = 1
  CronDays = 2
  PageLimit = 10
  HookLegacy = TRUE
  FetchLegacy = FALSE
  InOrder = TRUE
  Refunds = FALSE
  MaxNow = 2
  MaxEvents = 7
  MaxSessions = 1
  MaxDup = 0
  MaxFail = 0
  MaxCrash = 1
SPECIFICATION Spec
INVARIANT MirrorsWhenSettled
PROPERTY CanceledIsFinal
CHECK_DEADLOCK FALSE
