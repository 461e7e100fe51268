\* Two calls fail while a new subscription is announced.
CONSTANTS
  u1 = u1
  Users = {u1}
  Subs = {s1, s2}
  Labelled = {s1}
  Owner <- MCOwner
  Workers = {h1, h2}
  Requests = {}
  Crons = {}
  Period = 1
  HookDays = 1
  CronDays = 2
  PageLimit = 10
  HookLegacy = TRUE
  FetchLegacy = FALSE
  InOrder = FALSE
  Refunds = FALSE
  MaxNow = 1
  MaxEvents = 5
  MaxSessions = 1
  MaxDup = 0
  MaxFail = 2
  MaxCrash = 0
SPECIFICATION FairSpec
INVARIANT OnlyLabelledStored
PROPERTY EventuallyStored
CHECK_DEADLOCK FALSE
