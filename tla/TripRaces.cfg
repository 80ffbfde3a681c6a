SPECIFICATION Spec
CONSTANTS
  NoUser = NoUser
  Trips = {t1}
  Users = {u1}
  Subscribed = {}
  Requests = {r1, r2}
  Handlers = {"post", "track", "untrack"}
  Serial = FALSE
  Polling = TRUE
  Timelines = FALSE
  MaxPushes = 2
  MaxSms = 0
  TrialTrips = 1
  MaxCount = 1
  MaxAborts = 0
SYMMETRY RequestSymmetry
INVARIANTS TypeOK DualWrite FeedbackOnce NotificationBudget
PROPERTY PollerForwardOnly
