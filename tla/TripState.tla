----------------------------- MODULE TripState -----------------------------
(***************************************************************************)
(* The trip status vocabulary (app/services/trip_state.py), the trial rule *)
(* (app/services/trial.py, notifications/__init__.py) and the status sets  *)
(* the trip routes test (app/api/routes/trips.py).  No state: every module *)
(* of the trip components extends this one.                                *)
(***************************************************************************)
EXTENDS Integers, Sequences

(* The statuses in the order they may be reached.                          *)
STATUS_ORDER == <<"draft", "created", "active", "en_route", "at_airport",
                  "at_gate", "complete">>

Statuses == {"draft", "created", "active", "en_route", "at_airport",
             "at_gate", "complete"}

(* The statuses the polling agent fetches.                                 *)
MONITORABLE_STATUSES == {"active", "en_route", "at_airport", "at_gate"}

(* What untrack_trip accepts: the same four statuses, spelled out again.   *)
UNTRACKABLE_STATUSES == {"active", "en_route", "at_airport", "at_gate"}

(* What track_trip promotes.                                               *)
TRACKABLE_STATUSES == {"draft", "created"}

(* What update_trip lets the client edit.                                  *)
EDITABLE_STATUSES == {"draft", "created", "active"}

(* STATUS_ORDER.index(status), counted from 1.                             *)
Rank(s) == CHOOSE i \in 1..7 : STATUS_ORDER[i] = s

(* The guard of advance_status: anything else raises ValueError.           *)
CanAdvance(from, to) == Rank(to) > Rank(from)

(* What _advance_trip_state may move a trip to: the force close at         *)
(* departure + 24h, or the trigger of the current phase.                   *)
Successors(s) ==
  CASE s = "active"     -> {"en_route", "complete"}
    [] s = "en_route"   -> {"at_airport", "complete"}
    [] s = "at_airport" -> {"at_gate", "complete"}
    [] s = "at_gate"    -> {"complete"}
    [] OTHER            -> {}

(* is_pro / is_pro_user: a subscription, or the trial is not used up.      *)
IsPro(subscribed, count, trialTrips) == subscribed \/ count <= trialTrips
=============================================================================
