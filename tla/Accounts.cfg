SPECIFICATION MCSpec
CONSTANTS
  People = {p1, p2}
  Null = Null
  Slots = {s1, s2}
  Hooks = {h1, h2}
  MaxAccounts = 3
  Budgets <- AccountsOrPayments
  Users = {u1}
  Devices = {d1}
  Sessions = {r1, r2}
  NoUser = NoUser
  NoThing = NoThing
  MaxRows = 3
SYMMETRY AccountSymmetry
INVARIANT NobodyEntersAnothersAccount
INVARIANTS RefusedOnlyWhenRacedOrSplit
INVARIANTS StatusFollowsStripe PaymentReachesAccount
INVARIANTS OnlyOrphanTripsSurvive RefusedOnlyWhenDisturbed TokenRowsBounded
CHECK_DEADLOCK FALSE
