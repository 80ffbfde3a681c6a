SPECIFICATION Spec
CONSTANTS
  NoUser = NoUser
  Trips = {t1}
  Users = {u1}
  Subscribed = {}
  Requests = {r1}
  Handlers = {"post", "track", "untrack"}
  Serial = FALSE
  Polling = TRUE
  Timelines = TRUE
  MaxPushes = 1
  MaxSms = 1
  TrialTrips = 3
  MaxCount = 3
  MaxAborts = 0
PROPERTY CompleteIsNotUntracked
