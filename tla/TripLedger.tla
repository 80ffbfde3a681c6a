----------------------------- MODULE TripLedger -----------------------------
(***************************************************************************)
(* What the trip lifecycle promises, with every handler a single step:     *)
(* the phase of each trip, the user it belongs to, and the number of trips *)
(* each user is charged for.  TripLifecycle, where handlers are split at   *)
(* their awaits, is checked to implement this module.                      *)
(***************************************************************************)
EXTENDS TripState, FiniteSets

CONSTANTS Trips, Users, NoUser

(* What the theorems assume of the constants.                              *)
LedgerAssumption == IsFiniteSet(Trips) /\ NoUser \notin Users

VARIABLES
  phase,    \* phase[t]: trip_status of the row, "absent" before it exists
  owner,    \* owner[t]: user_id of the row
  charged   \* charged[u]: trip_count of the user

ledgerVars == <<phase, owner, charged>>

Untracked == {"absent"} \union TRACKABLE_STATUSES

LedgerTypeOK ==
  /\ phase \in [Trips -> Statuses \union {"absent"}]
  /\ owner \in [Trips -> Users \union {NoUser}]
  /\ charged \in [Users -> Nat]

LedgerInit ==
  /\ phase = [t \in Trips |-> "absent"]
  /\ owner = [t \in Trips |-> NoUser]
  /\ charged = [u \in Users |-> 0]

(* POST /v1/trips: a trip nobody is charged for, possibly anonymous.       *)
Post(t) ==
  /\ phase[t] = "absent"
  /\ phase' = [phase EXCEPT ![t] = "created"]
  /\ \E u \in Users \union {NoUser} : owner' = [owner EXCEPT ![t] = u]
  /\ UNCHANGED charged

(* POST /v1/trips/{id}/track: claim the trip and charge it.                *)
Track(t, u) ==
  /\ phase[t] \in TRACKABLE_STATUSES
  /\ owner[t] \in {u, NoUser}
  /\ phase' = [phase EXCEPT ![t] = "active"]
  /\ owner' = [owner EXCEPT ![t] = u]
  /\ charged' = [charged EXCEPT ![u] = @ + 1]

(* POST /v1/trips/{id}/untrack: refund it, while it is still under way.    *)
Untrack(t, u) ==
  /\ phase[t] \in UNTRACKABLE_STATUSES
  /\ owner[t] = u
  /\ phase' = [phase EXCEPT ![t] = "draft"]
  /\ charged' = [charged EXCEPT ![u] = IF @ > 0 THEN @ - 1 ELSE 0]
  /\ UNCHANGED owner

(* The polling agent: a trip under way moves forward, never back.          *)
Advance(t) ==
  /\ phase[t] \in MONITORABLE_STATUSES
  /\ \E s \in Successors(phase[t]) : phase' = [phase EXCEPT ![t] = s]
  /\ UNCHANGED <<owner, charged>>

LedgerNext ==
  \/ \E t \in Trips : Post(t) \/ Advance(t)
  \/ \E t \in Trips, u \in Users : Track(t, u) \/ Untrack(t, u)

LedgerSpec == LedgerInit /\ [][LedgerNext]_ledgerVars

-----------------------------------------------------------------------------
(* The trips user u is charged for: tracked once, complete or under way.   *)
TrackedBy(u) == {t \in Trips : owner[t] = u /\ phase[t] \notin Untracked}

(* A user's trip_count is the number of their trips that are tracked:      *)
(* track_trip charges each trip once and untrack_trip refunds what was     *)
(* charged, so the floor of untrack_trip (trips.py:345) is never needed.   *)
CountExact == \A u \in Users : charged[u] = Cardinality(TrackedBy(u))
=============================================================================
