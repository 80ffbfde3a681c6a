---------------------------- MODULE TripMonitor ----------------------------
(***************************************************************************)
(* One tracked trip over time: what _process_trip of                       *)
(* app/services/polling_agent.py does at each tick as the clock passes the *)
(* times of the plan, while the flight changes, the traffic changes, and   *)
(* the traveller edits the trip (update_trip) or taps on the phone.        *)
(*                                                                         *)
(* TripLifecycle interleaves requests with the steps of a tick and leaves  *)
(* the clock open; here the clock and the data decide, and requests run    *)
(* between two ticks.  A tick may be cut short after any of its commits,   *)
(* by an exception or by a restart, which also loses the flight cache.     *)
(* The trip was created from a flight number; times are in ticks of an     *)
(* abstract clock in which only the order of the limits below matters.     *)
(***************************************************************************)
EXTENDS TripState

CONSTANTS
  None,
  Budgets,        \* how often what may happen in a behaviour (see Init)
  Journeys,       \* from the door to the gate, buffer included
  Gates,
  Delays,         \* what a delay adds to the scheduled departure
  Departure,      \* the scheduled departure; tracking is at time 0
  Noon,           \* the departure date, at twelve o'clock UTC
  Fallback,       \* the departure assumed while AeroDataBox does not answer
  Horizon,        \* the last time of the clock
  Backoffs,       \* longer times between two ticks, after an error
  AtAirport,      \* security and walk: what a plan keeps after the drive
  PastSecurity,   \* the walk to the gate, with its buffer
  FarOut,         \* PATH_B_MIN_SECONDS_TO_DEPARTURE
  Interval,       \* _get_poll_interval of a trip that is far out
  TapWindow,      \* a tap counts for ten minutes
  ShiftMin,       \* should_notify_leave_by_shift: threshold_minutes
  SmsDelay,       \* five minutes from the nudge to the SMS
  Closing,        \* departure + 30 min
  ForceClose,     \* departure + 24 h
  MaxPushes,      \* MAX_PUSHES_PER_TRIP
  MaxSms

(* The flight as AeroDataBox may report it, and the times of a plan.       *)
FlightStates ==
  [gate : Gates \union {None}, status : {"Expected", "Delayed", "Cancelled"},
   delay : Delays \union {0}]
Plans == [leave : Int, arrive : Int, clear : Int]

ASSUME MonitorAssumption ==
  /\ None \notin Int \union FlightStates \union Plans
  /\ {Departure, Noon, Fallback, Horizon, MaxPushes, MaxSms} \subseteq Nat
  /\ {FarOut, Interval, TapWindow, Closing, ForceClose} \subseteq Nat
  /\ AtAirport \in Nat /\ PastSecurity \in 0..AtAirport
  /\ \A j \in Journeys : j \in Nat /\ j > AtAirport
  /\ Delays \subseteq Nat /\ Backoffs \subseteq Nat
  /\ Closing < ForceClose
  /\ ShiftMin \in Nat \ {0} /\ SmsDelay \in Nat \ {0}

VARIABLES
  now,
  budget,   \* what may still happen
  flight,   \* what AeroDataBox would say: gate, status, delay
  journey,  \* what the trip needs now, by its preferences and the traffic
  pro,      \* is_pro_user(trip.user)
  row,      \* the trip's row
  cache,    \* _flight_cache: the departure of the trip's flight, or None
  pc,       \* the next step of the tick, or "sleep"
  changes,  \* the fields refresh_flight_status found changed in this tick
  tap,      \* tap[k]: the time of the last tap of kind k, or None
  seen      \* what the properties look back on (see Init)

vars == <<now, budget, flight, journey, pro, row, cache, pc, changes, tap,
          seen>>

Spend(what) ==
  budget[what] > 0 /\ budget' = [budget EXCEPT ![what] = @ - 1]

Distance(a, b) == IF a > b THEN a - b ELSE b - a

(* The projected timeline of a recommendation for this departure.          *)
Plan(departure, minutes) ==
  [leave |-> departure - minutes, arrive |-> departure - AtAirport,
   clear |-> departure - PastSecurity]

NotCancelled(status) == status # "Cancelled"

-----------------------------------------------------------------------------
(* Tracking, at time 0, has stored a plan and the flight, unless the       *)
(* recommendation or AeroDataBox failed.  known: selected_departure_utc is *)
(* set.  In seen: what the phone was told, the time of the flight's last   *)
(* change, the plan the tick began with, the last edit, whether the last   *)
(* tick went through, and what was lost: messages that are not sent again, *)
(* and the last lookup.                                                    *)
Init ==
  /\ now = 0 /\ budget \in Budgets /\ pro = TRUE
  /\ flight = [gate |-> None, status |-> "Expected", delay |-> 0]
  /\ journey \in Journeys
  /\ \E info, known, planned \in BOOLEAN :
       row = [status |-> "active", known |-> known, info |-> info,
              timeline |-> IF planned THEN Plan(Departure, journey) ELSE None,
              flight |-> IF info THEN flight ELSE None,
              updated |-> IF info THEN 0 ELSE None,
              pushed |-> None, pushes |-> 0, time_to_go |-> None, sms |-> 0,
              depart |-> None, feedback |-> FALSE]
  /\ cache = IF row.info THEN Departure ELSE None
  /\ pc = "sleep" /\ changes = {}
  /\ tap = [k \in {"timetogo_tap", "nav_tap"} |-> None]
  /\ seen = [gate |-> None, cancelled |-> FALSE, leave |-> None, news |-> 0,
             began |-> None, edited |-> None, through |-> FALSE, lost |-> {}]

-----------------------------------------------------------------------------
(* Between two ticks.                                                      *)

(* The airline: another gate, or none, a delay, or a cancellation.         *)
News ==
  /\ pc = "sleep" /\ Spend("news") /\ NotCancelled(flight.status)
  /\ flight' \in
       {[flight EXCEPT !.gate = g] :
          g \in (Gates \union {None}) \ {flight.gate}}
       \union {[flight EXCEPT !.status = "Delayed", !.delay = d] :
                 d \in Delays \ {flight.delay}}
       \union {[flight EXCEPT !.status = "Cancelled"]}
  /\ seen' = [seen EXCEPT !.news = now]
  /\ UNCHANGED <<now, journey, pro, row, cache, pc, changes, tap>>

(* The road.                                                               *)
Traffic ==
  /\ pc = "sleep" /\ Spend("traffic")
  /\ journey' \in Journeys \ {journey}
  /\ seen' = [seen EXCEPT !.through = FALSE]
  /\ UNCHANGED <<now, flight, pro, row, cache, pc, changes, tap>>

(* The departures build_flight_snapshot may come to, not strict: the one   *)
(* in the cache, else the flight as it is, delay included, else the guess. *)
Snapshots ==
  IF cache # None THEN {cache} ELSE {Departure + flight.delay, Fallback}

Remembered(departure) == IF departure = Fallback THEN cache ELSE departure

(* update_trip.  The recommendation reads the trip in a session of its     *)
(* own, in which the flushed edit is not yet visible: the plan is that of  *)
(* the old preferences.  It may also fail and leave the plan as it was.    *)
Edit ==
  /\ pc = "sleep" /\ row.status = "active" /\ Spend("edits")
  /\ journey' \in Journeys \ {journey}
  /\ \/ \E departure \in Snapshots :
          /\ row' = [row EXCEPT !.timeline = Plan(departure, journey)]
          /\ cache' = Remembered(departure)
     \/ UNCHANGED <<row, cache>>
  /\ seen' = [seen EXCEPT !.edited = now, !.through = FALSE]
  /\ UNCHANGED <<now, flight, pro, pc, changes, tap>>

Tap ==
  /\ pc = "sleep" /\ Spend("taps")
  /\ \E k \in DOMAIN tap : tap' = [tap EXCEPT ![k] = now]
  /\ UNCHANGED <<now, flight, journey, pro, row, cache, pc, changes, seen>>

(* A webhook ends the subscription and the trial is used up: _process_trip *)
(* returns on the trip from now on.                                        *)
Lapse ==
  /\ pc = "sleep" /\ pro /\ Spend("lapses")
  /\ pro' = FALSE
  /\ UNCHANGED <<now, flight, journey, row, cache, pc, changes, tap, seen>>

-----------------------------------------------------------------------------
(* The tick.  `now' is read once, when it begins.                          *)

Latest(time) == IF time > Horizon THEN Horizon ELSE time

Wake ==
  /\ pc = "sleep" /\ pro /\ row.status \in MONITORABLE_STATUSES
  /\ \/ now' = Latest(now + 1) /\ UNCHANGED budget
     \/ Spend("faults") /\ \E nap \in Backoffs : now' = Latest(now + nap)
  /\ pc' = "refresh"
  /\ seen' = [seen EXCEPT !.began = row.timeline, !.through = FALSE]
  /\ UNCHANGED <<flight, journey, pro, row, cache, changes, tap>>

(* The tick ends here; through: it has done everything it had to.          *)
Sleep(through) ==
  /\ pc' = "sleep" /\ changes' = {}
  /\ seen' = [seen EXCEPT !.through = through]

(* _seconds_to_departure: noon stands in for a departure nobody stored,    *)
(* whatever time of that day the flight really leaves.                     *)
SecondsToDeparture == (IF row.known THEN Departure ELSE Noon) - now

(* Faulty variant: the age of what is stored is not looked at.             *)
SkipRefreshWhenStable ==
  /\ SecondsToDeparture > FarOut
  /\ row.flight # None /\ row.flight.status = "Expected"

(* _should_skip_refresh.                                                   *)
SkipRefresh ==
  /\ SecondsToDeparture > FarOut
  /\ row.flight # None /\ row.flight.status = "Expected"
  /\ now - row.updated < Interval

(* What differs between the stored flight and the one just reported.       *)
Differences ==
  {field \in DOMAIN flight :
     row.flight = None \/ row.flight[field] # flight[field]}

(* refresh_flight_status: flight_status is replaced as a whole.            *)
Refresh ==
  /\ pc = "refresh"
  /\ \/ /\ SkipRefresh
        /\ pc' = "advance" /\ UNCHANGED <<budget, row, changes, seen>>
     \/ /\ ~ SkipRefresh
        /\ row' = [row EXCEPT !.flight = flight, !.updated = now]
        /\ changes' = Differences
        /\ pc' = "cancellation"
        /\ seen' = [seen EXCEPT !.lost = @ \ {"lookup"}]
        /\ UNCHANGED budget
     \/ /\ ~ SkipRefresh /\ Spend("faults")
        /\ pc' = "advance"
        /\ seen' = [seen EXCEPT !.lost = @ \union {"lookup"}]
        /\ UNCHANGED <<row, changes>>
  /\ UNCHANGED <<now, flight, journey, pro, cache, tap>>

(* Faulty variant: no limit.                                               *)
ReachedNoLimit(reached) ==
  \/ reached /\ UNCHANGED budget
  \/ ~ reached /\ Spend("faults")

(* send_trip_notification: whether it reaches the phone, and the row then. *)
(* A trip that has had its pushes gets none; no device token, or one that  *)
(* does not work, is a fault.                                              *)
Reached(reached) ==
  \/ reached /\ row.pushes < MaxPushes /\ UNCHANGED budget
  \/ ~ reached /\ row.pushes = MaxPushes /\ UNCHANGED budget
  \/ ~ reached /\ row.pushes < MaxPushes /\ Spend("faults")

Pushed(reached) == IF reached THEN [row EXCEPT !.pushes = @ + 1] ELSE row

(* The phone is told, or the message is lost for good.                     *)
Told(reached, what, value) ==
  IF reached THEN [seen EXCEPT ![what] = value, !.lost = @ \ {what}]
  ELSE [seen EXCEPT !.lost = @ \union {what}]

(* _handle_status_change_notifications, its two parts.                     *)
AnnounceCancellation ==
  /\ pc = "cancellation" /\ pc' = "gate_change"
  /\ IF "status" \in changes /\ row.flight.status = "Cancelled"
     THEN \E reached \in BOOLEAN :
            /\ Reached(reached)
            /\ row' = Pushed(reached)
            /\ seen' = Told(reached, "cancelled", TRUE)
     ELSE UNCHANGED <<budget, row, seen>>
  /\ UNCHANGED <<now, flight, journey, pro, cache, changes, tap>>

AnnounceGate ==
  /\ pc = "gate_change" /\ pc' = "advance"
  /\ IF "gate" \in changes /\ row.flight.gate # None
     THEN \E reached \in BOOLEAN :
            /\ Reached(reached)
            /\ row' = Pushed(reached)
            /\ seen' = Told(reached, "gate", row.flight.gate)
     ELSE UNCHANGED <<budget, row, seen>>
  /\ UNCHANGED <<now, flight, journey, pro, cache, changes, tap>>

(* Whether the clock has passed departure + delta: never without one.      *)
Past(delta) == row.known /\ now >= Departure + delta

(* ... and whether it has passed a time of the plan.                       *)
Due(time) == row.timeline # None /\ now >= row.timeline[time]

(* Faulty variant: only a tap starts the journey.                          *)
NextPhaseByTap ==
  CASE Past(ForceClose)                          -> "complete"
    [] row.status = "en_route" /\ Due("arrive")  -> "at_airport"
    [] row.status = "at_airport" /\ Due("clear") -> "at_gate"
    [] row.status = "at_gate" /\ Past(Closing)   -> "complete"
    [] OTHER                                     -> row.status

(* Faulty variant: no force close.                                         *)
NextPhaseInTurn ==
  CASE row.status = "active" /\ Due("leave")     -> "en_route"
    [] row.status = "en_route" /\ Due("arrive")  -> "at_airport"
    [] row.status = "at_airport" /\ Due("clear") -> "at_gate"
    [] row.status = "at_gate" /\ Past(Closing)   -> "complete"
    [] OTHER                                     -> row.status

(* The phase by the clock: at most one further a tick, but for the force   *)
(* close.                                                                  *)
NextPhase ==
  CASE Past(ForceClose)                          -> "complete"
    [] row.status = "active" /\ Due("leave")     -> "en_route"
    [] row.status = "en_route" /\ Due("arrive")  -> "at_airport"
    [] row.status = "at_airport" /\ Due("clear") -> "at_gate"
    [] row.status = "at_gate" /\ Past(Closing)   -> "complete"
    [] OTHER                                     -> row.status

(* The taps of the last ten minutes, which start the journey as well.      *)
RecentTaps ==
  {tap[k] : k \in {j \in DOMAIN tap :
                     tap[j] # None /\ tap[j] >= now - TapWindow}}

LastTap == CHOOSE t \in RecentTaps : \A u \in RecentTaps : t >= u

(* Faulty variant: plans are kept up to date in every phase.               *)
AfterAnyPhase(status) ==
  IF status = "complete" THEN "feedback" ELSE "recompute"

(* Where _process_trip goes on after a trip has entered a phase.           *)
After(status) ==
  CASE status = "complete" -> "feedback"
    [] status = "active"   -> "recompute"
    [] OTHER               -> "sleep"

(* _advance_trip_state.                                                    *)
Advance ==
  /\ pc = "advance"
  /\ LET tapped == /\ NextPhase = "active" /\ row.status = "active"
                   /\ RecentTaps # {}
         next == IF tapped THEN "en_route" ELSE NextPhase
     IN  /\ row' = [row EXCEPT !.status = next,
                      !.depart = IF tapped THEN LastTap ELSE @]
         /\ IF After(next) = "sleep" THEN Sleep(TRUE)
            ELSE pc' = After(next) /\ UNCHANGED <<changes, seen>>
  /\ UNCHANGED <<now, budget, flight, journey, pro, cache, tap>>

(* Faulty variant: feedback is asked for a day after departure.            *)
FeedbackDueNextDay == ~ row.feedback /\ Past(ForceClose)

FeedbackDue == ~ row.feedback /\ Past(Closing)

(* _handle_feedback_request: the mark is set whether or not the push has   *)
(* reached anybody.                                                        *)
RequestFeedback ==
  /\ pc = "feedback"
  /\ Sleep(TRUE)
  /\ IF FeedbackDue
     THEN \E reached \in BOOLEAN :
            /\ Reached(reached)
            /\ row' = [Pushed(reached) EXCEPT !.feedback = TRUE]
     ELSE UNCHANGED <<budget, row>>
  /\ UNCHANGED <<now, flight, journey, pro, cache, tap>>

(* The recomputation: from the frozen flight_info, which has the schedule, *)
(* or else as a request would.                                             *)
Recompute ==
  /\ pc = "recompute"
  /\ \/ \E departure \in IF row.info THEN {Departure} ELSE Snapshots :
          /\ row' = [row EXCEPT !.timeline = Plan(departure, journey)]
          /\ cache' = IF row.info THEN cache ELSE Remembered(departure)
          /\ pc' = "leave_by_shift" /\ UNCHANGED <<budget, changes, seen>>
     \/ Spend("faults") /\ Sleep(FALSE) /\ UNCHANGED <<row, cache>>
  /\ UNCHANGED <<now, flight, journey, pro, tap>>

(* Faulty variant: the new plan is compared with the plan before it.       *)
ShiftedSinceLastPlan ==
  \/ row.pushed = None
  \/ /\ seen.began # None
     /\ Distance(seen.began.leave, row.timeline.leave) >= ShiftMin

(* should_notify_leave_by_shift: against what was announced last.          *)
Shifted ==
  \/ row.pushed = None
  \/ Distance(row.pushed, row.timeline.leave) >= ShiftMin

(* The push, and last_pushed_leave_home_at whether or not it has reached   *)
(* anybody.                                                                *)
AnnounceLeave ==
  /\ pc = "leave_by_shift" /\ pc' = "time_to_go"
  /\ IF Shifted
     THEN \E reached \in BOOLEAN :
            /\ Reached(reached)
            /\ row' = [Pushed(reached) EXCEPT !.pushed = row.timeline.leave]
            /\ seen' = Told(reached, "leave", row.timeline.leave)
     ELSE UNCHANGED <<budget, row, seen>>
  /\ UNCHANGED <<now, flight, journey, pro, cache, changes, tap>>

(* The time-to-go nudge.  The trip is active here, which makes the rest of *)
(* its condition true.                                                     *)
Nudge ==
  /\ pc = "time_to_go" /\ pc' = "escalate"
  /\ IF Due("leave")
     THEN \E reached \in BOOLEAN :
            /\ Reached(reached)
            /\ row' = [Pushed(reached) EXCEPT !.time_to_go =
                         IF reached /\ @ = None THEN now ELSE @]
     ELSE UNCHANGED <<budget, row>>
  /\ UNCHANGED <<now, flight, journey, pro, cache, changes, tap, seen>>

(* The user has a phone number.                                            *)
SmsDue ==
  /\ row.time_to_go # None /\ now - row.time_to_go >= SmsDelay
  /\ row.sms < MaxSms
  /\ \/ tap["timetogo_tap"] = None
     \/ tap["timetogo_tap"] < row.time_to_go

Escalate ==
  /\ pc = "escalate"
  /\ Sleep(TRUE)
  /\ IF SmsDue
     THEN \/ row' = [row EXCEPT !.sms = @ + 1] /\ UNCHANGED budget
          \/ Spend("faults") /\ UNCHANGED row
     ELSE UNCHANGED <<budget, row>>
  /\ UNCHANGED <<now, flight, journey, pro, cache, tap>>

(* What a tick that ends here never comes back to: the next one compares   *)
(* with the stored flight, and a complete trip is not looked at again.     *)
Abandoned ==
  {what \in {"gate", "cancelled", "feedback"} :
     CASE what = "gate"      -> "gate" \in changes
                                /\ pc \in {"cancellation", "gate_change"}
       [] what = "cancelled" -> "status" \in changes /\ pc = "cancellation"
       [] what = "feedback"  -> pc = "feedback"}

(* A commit fails, or the process stops, between two steps of the tick.    *)
TickCut ==
  /\ pc # "sleep" /\ Spend("cuts")
  /\ pc' = "sleep" /\ changes' = {}
  /\ cache' \in {cache, None}
  /\ seen' = [seen EXCEPT !.lost = @ \union Abandoned]
  /\ UNCHANGED <<now, flight, journey, pro, row, tap>>

-----------------------------------------------------------------------------
Between == News \/ Traffic \/ Edit \/ Tap \/ Lapse

TickStep ==
  \/ Wake \/ Refresh \/ AnnounceCancellation \/ AnnounceGate \/ Advance
  \/ RequestFeedback \/ Recompute \/ AnnounceLeave \/ Nudge \/ Escalate

Next == Between \/ TickStep \/ TickCut

(* The loop always gets to its next step.  What happens to the trip from   *)
(* outside, and what goes wrong, need not happen.                          *)
MonitorSpec == Init /\ [][Next]_vars /\ WF_vars(TickStep)

-----------------------------------------------------------------------------
(* Properties.                                                             *)

(* Types, and what the places of the tick imply.                           *)
MonitorTypeOK ==
  /\ now \in 0..Horizon /\ pro \in BOOLEAN
  /\ row.status \in MONITORABLE_STATUSES \union {"complete"}
  /\ row.pushes \in 0..MaxPushes /\ row.sms \in 0..MaxSms
  /\ pc = "feedback" => row.status = "complete"
  /\ changes \subseteq {"gate", "status", "delay"}

(* A new gate, or the cancellation, is on the phone after the next tick    *)
(* that goes through (refresh_flight_status and its pushes), unless the    *)
(* agent takes the flight to be more than six hours out and the change is  *)
(* younger than the poll interval; what the push limit, a broken device or *)
(* a cut tick swallowed, and a lookup that failed, are the only other      *)
(* exceptions.  A trip without a stored departure is taken to leave at     *)
(* noon: it may be about to leave and still wait out the interval.         *)
NewsReachesTraveller ==
  LET fresh == SecondsToDeparture > FarOut /\ now - seen.news < Interval
  IN  pc = "sleep" /\ seen.through /\ seen.news < now /\ ~ fresh
      /\ "lookup" \notin seen.lost
      => /\ flight.gate # None /\ "gate" \notin seen.lost
            => seen.gate = flight.gate
         /\ ~ NotCancelled(flight.status) /\ "cancelled" \notin seen.lost
            => seen.cancelled

(* After a tick that goes through, the leave-by time the traveller was     *)
(* told last is less than the threshold away from the one that edits and   *)
(* traffic now call for, however slowly it has drifted (the comparison     *)
(* with last_pushed_leave_home_at); a swallowed push is the exception.     *)
TravellerKnowsLeave ==
  pc = "sleep" /\ seen.through /\ row.status = "active" /\ row.info
  /\ "leave" \notin seen.lost
  => /\ seen.leave # None
     /\ Distance(seen.leave, Departure - journey) < ShiftMin

(* The trip is never in a phase whose time in the stored plan has not come *)
(* (or, for en_route, a tap), so plans do not change under a trip that is  *)
(* on its way (_advance_trip_state and the early return after it).         *)
PhaseFollowsPlan ==
  CASE row.status = "en_route"   -> row.depart # None \/ Due("leave")
    [] row.status = "at_airport" -> Due("arrive")
    [] row.status = "at_gate"    -> Due("clear")
    [] row.status = "complete"   -> Past(Closing)
    [] OTHER                     -> TRUE

(* The time-to-go push is sent only when the plan jumps over the present:  *)
(* a trip whose stored plan says it is time to leave has been advanced to  *)
(* en_route a few lines earlier and returns before the nudge.              *)
NudgeMeansJump ==
  pc = "escalate" /\ row.time_to_go = now
  => seen.began = None \/ seen.began.leave > now

(* What the comment at polling_agent.py:605 promises: five minutes after   *)
(* the time-to-go push an SMS goes out, if the traveller has neither       *)
(* tapped nor touched the trip since.                                      *)
UnansweredNudgeEscalates ==
  LET sent == row.time_to_go
      waited == sent # None /\ now - sent >= SmsDelay
      answered ==
        \/ \E k \in DOMAIN tap : tap[k] # None /\ tap[k] >= sent
        \/ seen.edited # None /\ seen.edited >= sent
  IN  pc = "sleep" /\ seen.through /\ waited /\ ~ answered => row.sms > 0

(* A completed trip has asked for feedback, unless the tick that completed *)
(* it was cut before (_handle_feedback_request): nothing fetches it again. *)
FeedbackUnlessCut ==
  row.status = "complete" /\ pc = "sleep"
  => row.feedback \/ "feedback" \in seen.lost

(* A trip with a departure time completes as long as its user stays pro,   *)
(* whatever the plan, the failures and the cut ticks (the force close in   *)
(* _advance_trip_state).                                                   *)
Completes == row.known => <>(row.status = "complete" \/ ~ pro)
=============================================================================
