SPECIFICATION MCSpec
CONSTANTS
  None = None
  Budgets <- TrafficOnly
  Journeys = {3, 4, 5}
  Gates = {"g1", "g2"}
  Delays = {2}
  Departure = 8
  Noon = 11
  Fallback = 6
  Horizon = 11
  Backoffs = {2}
  AtAirport = 2
  PastSecurity = 1
  FarOut = 5
  Interval = 2
  TapWindow = 1
  ShiftMin = 2
  SmsDelay = 1
  Closing = 1
  ForceClose = 3
  MaxPushes = 2
  MaxSms = 1
  Trips = {t1, t2}
  NoTrip = NoTrip
  MaxFaults = 22
INVARIANT UnansweredNudgeEscalates
CHECK_DEADLOCK FALSE
