SPECIFICATION AccountSpec
CONSTANTS
  Users = {u1}
  Devices = {d1}
  Sessions = {r1, r2}
  NoUser = NoUser
  NoThing = NoThing
  MaxRows = 3
INVARIANT DeletedLeavesNothing
