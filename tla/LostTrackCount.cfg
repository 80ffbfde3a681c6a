SPECIFICATION Spec
CONSTANTS
  NoUser = NoUser
  Trips = {t1, t2}
  Users = {u1}
  Subscribed = {}
  Requests = {r1, r2}
  Handlers = {"post", "track"}
  Serial = FALSE
  Polling = FALSE
  Timelines = TRUE
  MaxPushes = 1
  MaxSms = 1
  TrialTrips = 3
  MaxCount = 3
  MaxAborts = 0
INVARIANT EveryTrackCounts
