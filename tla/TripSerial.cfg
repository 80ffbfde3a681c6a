SPECIFICATION Spec
CONSTANTS
  NoUser = NoUser
  Trips = {t1, t2}
  Users = {u1}
  Subscribed = {}
  Requests = {r1}
  Handlers = {"post", "track", "untrack", "update"}
  Serial = TRUE
  Polling = TRUE
  Timelines = TRUE
  MaxPushes = 1
  MaxSms = 1
  TrialTrips = 1
  MaxCount = 2
  MaxAborts = 1
INVARIANTS PhaseFieldsCleared TripCountExact NotificationBudget
PROPERTY ImplementsLedger
