------------------------- MODULE TripMonitor_proofs -------------------------
(***************************************************************************)
(* Proofs about TripMonitor: each of its safety properties, for any times, *)
(* limits, flights and journeys, and any number of news, edits, failures   *)
(* and cut ticks.                                                          *)
(***************************************************************************)
EXTENDS TripMonitor, TLAPS

Kinds == {"timetogo_tap", "nav_tap"}

Rows ==
  [status : MONITORABLE_STATUSES \union {"complete"},
   known : BOOLEAN, info : BOOLEAN, timeline : Plans \union {None},
   flight : FlightStates \union {None}, updated : Nat \union {None},
   pushed : Int \union {None}, pushes : 0..MaxPushes,
   time_to_go : Nat \union {None}, sms : 0..MaxSms,
   depart : Nat \union {None}, feedback : BOOLEAN]

Looks ==
  [gate : Gates \union {None}, cancelled : BOOLEAN,
   leave : Int \union {None}, news : Nat, began : Plans \union {None},
   edited : Nat \union {None}, through : BOOLEAN,
   lost : SUBSET {"lookup", "gate", "cancelled", "leave", "feedback"}]

Places ==
  {"sleep", "refresh", "cancellation", "gate_change", "advance", "feedback",
   "recompute", "leave_by_shift", "time_to_go", "escalate"}

(* Types, and that nothing is dated in the future.                         *)
TypeInv ==
  /\ now \in 0..Horizon /\ pro \in BOOLEAN
  /\ flight \in FlightStates /\ journey \in Journeys
  /\ row \in Rows /\ seen \in Looks
  /\ cache \in Int \union {None}
  /\ pc \in Places /\ changes \subseteq {"gate", "status", "delay"}
  /\ tap \in [Kinds -> Nat \union {None}]
  /\ row.time_to_go # None => row.time_to_go <= now
  /\ row.updated # None => row.updated <= now
  /\ row.flight # None => row.updated # None
  /\ changes # {} => row.flight # None

(* What the places of the tick imply.                                      *)
BeforeAdvance == {"refresh", "cancellation", "gate_change", "advance"}
WithPlan == {"leave_by_shift", "time_to_go", "escalate"}

PlaceInv ==
  /\ pc \in BeforeAdvance =>
       row.status \in MONITORABLE_STATUSES /\ row.timeline = seen.began
  /\ pc = "feedback" => row.status = "complete"
  /\ pc \in {"recompute"} \union WithPlan =>
       /\ row.status = "active"
       /\ seen.began = None \/ seen.began.leave > now
  /\ pc \in WithPlan => row.timeline # None
  /\ pc # "sleep" => ~ seen.through

PhaseInv == TypeInv /\ PlaceInv /\ PhaseFollowsPlan

(* The SMS is sent only to a traveller who edited the trip after the       *)
(* nudge: otherwise the next tick finds the trip due and moves it on.      *)
SmsMeansEdited ==
  row.sms > 0 => seen.edited # None /\ seen.edited >= row.time_to_go

(* An active trip that was nudged, and not edited since, is due, and the   *)
(* tick has not got past the phases with it, but for the nudging one.      *)
SmsInv ==
  /\ row.sms > 0 => row.time_to_go # None
  /\ row.time_to_go # None /\ row.status = "active" =>
       \/ seen.edited # None /\ seen.edited >= row.time_to_go
       \/ /\ Due("leave")
          /\ pc \in {"sleep", "escalate"} \union BeforeAdvance
          /\ pc = "escalate" => row.time_to_go = now
  /\ SmsMeansEdited

(* What was announced last is what the phone knows, and at the end of a    *)
(* tick it is close to the plan, which is close to what is called for.     *)
LeaveInv ==
  /\ row.pushed # None /\ "leave" \notin seen.lost => seen.leave = row.pushed
  /\ pc \in {"time_to_go", "escalate"} =>
       /\ row.pushed # None
       /\ Distance(row.pushed, row.timeline.leave) < ShiftMin
  /\ pc \in WithPlan /\ row.info => row.timeline.leave = Departure - journey
  /\ pc = "sleep" /\ seen.through /\ row.status = "active" /\ row.info =>
       /\ row.pushed # None
       /\ Distance(row.pushed, Departure - journey) < ShiftMin

(* The stored flight is announced, being announced, or its announcement is *)
(* lost; and it is the flight as it is now, unless there was news since.   *)
Fresh == SecondsToDeparture > FarOut /\ now - seen.news < Interval

GatePart ==
  row.flight # None /\ row.flight.gate # None /\ "gate" \notin seen.lost =>
    \/ seen.gate = row.flight.gate
    \/ "gate" \in changes /\ pc \in {"cancellation", "gate_change"}

CancelledPart ==
  row.flight # None /\ row.flight.status = "Cancelled"
  /\ "cancelled" \notin seen.lost =>
    \/ seen.cancelled
    \/ "status" \in changes /\ pc = "cancellation"

StoredPart ==
  /\ row.flight # None /\ row.updated > seen.news => row.flight = flight
  /\ pc # "refresh" /\ (pc = "sleep" => seen.through)
     /\ "lookup" \notin seen.lost =>
       row.flight = flight \/ Fresh \/ seen.news >= now

NewsInv == GatePart /\ CancelledPart /\ StoredPart

(* The inductive invariant.                                                *)
MonitorInv ==
  PhaseInv /\ SmsInv /\ LeaveInv /\ NewsInv /\ FeedbackUnlessCut

-----------------------------------------------------------------------------
(* The clock goes on within the horizon.                                   *)
LEMMA LatestLater ==
  ASSUME now \in 0..Horizon, NEW d \in Nat
  PROVE  Latest(now + d) \in 0..Horizon /\ now <= Latest(now + d)
  BY MonitorAssumption DEF Latest

(* A plan is a plan.                                                       *)
LEMMA PlanType ==
  ASSUME NEW departure \in Int, NEW minutes \in Journeys
  PROVE  Plan(departure, minutes) \in Plans
         /\ Plan(departure, minutes) # None
         /\ Plan(departure, minutes).leave = departure - minutes
<1>1. minutes \in Nat /\ AtAirport \in Nat /\ PastSecurity \in Nat
  BY MonitorAssumption
<1>2. Plan(departure, minutes) \in Plans
  BY <1>1 DEF Plan, Plans
<1> QED
  BY <1>2, MonitorAssumption DEF Plan

(* What a snapshot departs at, and what is remembered of it, is a time.    *)
LEMMA SnapshotType ==
  ASSUME TypeInv, NEW departure \in Snapshots
  PROVE  departure \in Int /\ Remembered(departure) \in Int \union {None}
<1>1. flight.delay \in Delays \union {0} /\ Delays \subseteq Nat
  BY MonitorAssumption DEF TypeInv, FlightStates
<1>2. Departure \in Nat /\ Fallback \in Nat
  BY MonitorAssumption
<1> QED
  BY <1>1, <1>2 DEF Snapshots, Remembered, TypeInv

(* There is a latest tap among the recent ones.                            *)
LEMMA LatestTap ==
  ASSUME TypeInv, RecentTaps # {}
  PROVE  LastTap \in Nat
<1> DEFINE a == tap["timetogo_tap"]
           b == tap["nav_tap"]
<1>1. RecentTaps \subseteq {a, b} /\ \A t \in RecentTaps : t \in Nat
  BY DEF TypeInv, RecentTaps, Kinds
<1>2. \E t \in RecentTaps : \A u \in RecentTaps : t >= u
  <2>1. CASE a \in RecentTaps /\ b \in RecentTaps
    <3>1. a \in Nat /\ b \in Nat
      BY <1>1, <2>1
    <3>2. a >= b \/ b >= a
      BY <3>1
    <3> QED
      BY <1>1, <2>1, <3>1, <3>2
  <2>2. CASE ~ (a \in RecentTaps /\ b \in RecentTaps)
    <3>1. PICK t \in RecentTaps : RecentTaps = {t}
      BY <1>1, <2>2
    <3> QED
      BY <1>1, <3>1
  <2> QED
    BY <2>1, <2>2
<1> QED
  BY <1>1, <1>2 DEF LastTap

(* Two rows with nothing but messages between them.                        *)
Same(a, b) ==
  /\ a.status = b.status /\ a.known = b.known /\ a.info = b.info
  /\ a.timeline = b.timeline /\ a.flight = b.flight
  /\ a.updated = b.updated /\ a.sms = b.sms /\ a.depart = b.depart

(* A push that is counted leaves the rest of the row as it is.             *)
LEMMA PushedType ==
  ASSUME TypeInv, NEW reached \in BOOLEAN, Reached(reached)
  PROVE  /\ Pushed(reached) \in Rows /\ Same(Pushed(reached), row)
         /\ Pushed(reached).pushed = row.pushed
         /\ Pushed(reached).time_to_go = row.time_to_go
         /\ Pushed(reached).feedback = row.feedback
<1> USE DEF Same
<1>1. CASE reached
  <2>1. row.pushes + 1 \in 0..MaxPushes
    BY <1>1, MonitorAssumption DEF Reached, TypeInv, Rows
  <2> QED
    BY <1>1, <2>1 DEF Pushed, TypeInv, Rows
<1>2. CASE ~ reached
  BY <1>2 DEF Pushed, TypeInv
<1> QED
  BY <1>1, <1>2

-----------------------------------------------------------------------------
(* Initially every group of the invariant holds.                           *)
LEMMA InitTypes == Init => TypeInv
<1> SUFFICES ASSUME Init PROVE TypeInv
  OBVIOUS
<1>1. now \in 0..Horizon /\ pro \in BOOLEAN /\ journey \in Journeys
  BY MonitorAssumption DEF Init
<1>2. flight \in FlightStates
  BY DEF Init, FlightStates
<1>3. Plan(Departure, journey) \in Plans
  BY <1>1, PlanType, MonitorAssumption
<1>4. row \in Rows
  BY <1>2, <1>3, MonitorAssumption DEF Init, Rows, MONITORABLE_STATUSES
<1>5. seen \in Looks
  BY DEF Init, Looks
<1>6. cache \in Int \union {None} /\ tap \in [Kinds -> Nat \union {None}]
  BY MonitorAssumption DEF Init, Kinds
<1>7. pc \in Places /\ changes \subseteq {"gate", "status", "delay"}
  BY DEF Init, Places
<1>8. row.time_to_go = None /\ (row.updated # None => row.updated = now)
      /\ (row.flight # None => row.updated # None)
  BY MonitorAssumption DEF Init
<1>9. changes = {}
  BY DEF Init
<1> QED
  BY <1>1, <1>2, <1>4, <1>5, <1>6, <1>7, <1>8, <1>9 DEF TypeInv

(* Between two ticks the types are kept.                                   *)
LEMMA BetweenTypes ==
  ASSUME TypeInv, PlaceInv, Between
  PROVE  TypeInv'
<1> USE DEF TypeInv
<1>1. now \in Nat
  BY MonitorAssumption
<1>2. CASE News
  <2>1. flight' \in FlightStates
    <3>1. \/ \E g \in Gates \union {None} :
               flight' = [flight EXCEPT !.gate = g]
          \/ \E d \in Delays :
               flight' = [flight EXCEPT !.status = "Delayed", !.delay = d]
          \/ flight' = [flight EXCEPT !.status = "Cancelled"]
      BY <1>2 DEF News
    <3> QED
      BY <3>1 DEF FlightStates
  <2>2. seen' \in Looks
    BY <1>1, <1>2 DEF News, Looks
  <2> QED
    BY <1>2, <2>1, <2>2 DEF News
<1>3. CASE Traffic
  <2>1. seen' \in Looks
    BY <1>3 DEF Traffic, Looks
  <2> QED
    BY <1>3, <2>1 DEF Traffic
<1>4. CASE Edit
  <2>1. seen' \in Looks
    BY <1>1, <1>4 DEF Edit, Looks
  <2> DEFINE Kept == /\ row' \in Rows /\ cache' \in Int \union {None}
                     /\ row'.time_to_go = row.time_to_go
                     /\ row'.updated = row.updated
                     /\ row'.flight = row.flight
  <2>2. Kept
    <3>1. CASE UNCHANGED <<row, cache>>
      BY <3>1
    <3>2. ASSUME NEW departure \in Snapshots, cache' = Remembered(departure),
                 row' = [row EXCEPT !.timeline = Plan(departure, journey)]
          PROVE  Kept
      <4>1. Plan(departure, journey) \in Plans
        BY SnapshotType, PlanType
      <4> QED
        BY <3>2, <4>1, SnapshotType DEF Rows
    <3> QED
      BY <1>4, <3>1, <3>2 DEF Edit
  <2> QED
    BY <1>4, <2>1, <2>2 DEF Edit
<1>5. CASE Tap
  BY <1>1, <1>5 DEF Tap, Kinds
<1>6. CASE Lapse
  BY <1>6 DEF Lapse
<1> QED
  BY <1>2, <1>3, <1>4, <1>5, <1>6 DEF Between

(* Faults are spent, or not.  What the phone is told has a type.           *)
LEMMA ToldType ==
  ASSUME TypeInv, NEW reached \in BOOLEAN
  PROVE  /\ Told(reached, "cancelled", TRUE) \in Looks
         /\ \A g \in Gates : Told(reached, "gate", g) \in Looks
         /\ \A t \in Int : Told(reached, "leave", t) \in Looks
  BY DEF Told, TypeInv, Looks

(* A mark of the row beside a push.                                        *)
LEMMA MarkedType ==
  ASSUME NEW r \in Rows
  PROVE  /\ [r EXCEPT !.feedback = TRUE] \in Rows
         /\ Same([r EXCEPT !.feedback = TRUE], r)
         /\ [r EXCEPT !.feedback = TRUE].time_to_go = r.time_to_go
         /\ \A t \in Int : /\ [r EXCEPT !.pushed = t] \in Rows
                           /\ Same([r EXCEPT !.pushed = t], r)
                           /\ [r EXCEPT !.pushed = t].pushed = t
                           /\ [r EXCEPT !.pushed = t].time_to_go = r.time_to_go
         /\ \A t \in Nat \union {None} :
              /\ [r EXCEPT !.time_to_go = t] \in Rows
              /\ Same([r EXCEPT !.time_to_go = t], r)
              /\ [r EXCEPT !.time_to_go = t].time_to_go = t
              /\ [r EXCEPT !.time_to_go = t].pushed = r.pushed
<1>1. [r EXCEPT !.feedback = TRUE] \in Rows
      /\ Same([r EXCEPT !.feedback = TRUE], r)
      /\ [r EXCEPT !.feedback = TRUE].time_to_go = r.time_to_go
  BY DEF Rows, Same
<1>2. ASSUME NEW t \in Int
      PROVE  /\ [r EXCEPT !.pushed = t] \in Rows
             /\ Same([r EXCEPT !.pushed = t], r)
             /\ [r EXCEPT !.pushed = t].pushed = t
             /\ [r EXCEPT !.pushed = t].time_to_go = r.time_to_go
  BY DEF Rows, Same
<1>3. ASSUME NEW t \in Nat \union {None}
      PROVE  /\ [r EXCEPT !.time_to_go = t] \in Rows
             /\ Same([r EXCEPT !.time_to_go = t], r)
             /\ [r EXCEPT !.time_to_go = t].time_to_go = t
             /\ [r EXCEPT !.time_to_go = t].pushed = r.pushed
  BY DEF Rows, Same
<1> QED
  BY <1>1, <1>2, <1>3

(* The steps of a tick up to the phases keep the types.                    *)
LEMMA EarlyTypes ==
  ASSUME TypeInv, PlaceInv,
         \/ Wake \/ Refresh \/ AnnounceCancellation \/ AnnounceGate
  PROVE  TypeInv'
<1> USE DEF TypeInv
<1>1. now \in Nat
  BY MonitorAssumption
<1>2. CASE Wake
  <2>1. now' \in 0..Horizon /\ now <= now'
    BY <1>2, LatestLater, MonitorAssumption DEF Wake
  <2>2. seen' \in Looks
    BY <1>2 DEF Wake, Looks, Rows
  <2>3. row.time_to_go # None => row.time_to_go <= now'
    BY <1>1, <2>1, MonitorAssumption DEF Rows
  <2>4. row.updated # None => row.updated <= now'
    BY <1>1, <2>1, MonitorAssumption DEF Rows
  <2> QED
    BY <1>2, <2>1, <2>2, <2>3, <2>4 DEF Wake, Places
<1>3. CASE Refresh
  <2>1. seen' \in Looks
    BY <1>3 DEF Refresh, Looks
  <2>2. /\ row' \in Rows /\ row'.time_to_go = row.time_to_go
        /\ row'.updated # None => row'.updated <= now
        /\ row'.flight # None => row'.updated # None
    <3>1. CASE row' = [row EXCEPT !.flight = flight, !.updated = now]
      <4>1. row' \in Rows
        BY <1>1, <3>1 DEF Rows
      <4>2. row'.time_to_go = row.time_to_go /\ row'.updated = now
        BY <3>1 DEF Rows
      <4> QED
        BY <1>1, <4>1, <4>2, MonitorAssumption
    <3>2. CASE row' = row
      BY <3>2
    <3> QED
      BY <1>3, <3>1, <3>2 DEF Refresh
  <2>3. /\ changes' \subseteq {"gate", "status", "delay"}
        /\ changes' # {} => row'.flight # None
    <3>1. flight # None /\ DOMAIN flight = {"gate", "status", "delay"}
      BY MonitorAssumption DEF FlightStates
    <3>2. CASE /\ row' = [row EXCEPT !.flight = flight, !.updated = now]
               /\ changes' = Differences
      BY <3>1, <3>2 DEF Differences, Rows
    <3>3. CASE row' = row /\ changes' = changes
      BY <3>3
    <3> QED
      BY <1>3, <3>2, <3>3 DEF Refresh
  <2> QED
    BY <1>3, <2>1, <2>2, <2>3 DEF Refresh, Places
<1>4. CASE AnnounceCancellation
  <2>1. /\ row' \in Rows /\ seen' \in Looks
        /\ row'.time_to_go = row.time_to_go
        /\ row'.updated = row.updated /\ row'.flight = row.flight
    BY <1>4, PushedType, ToldType DEF AnnounceCancellation, Same
  <2> QED
    BY <1>4, <2>1 DEF AnnounceCancellation, Places
<1>5. CASE AnnounceGate
  <2>1. \A reached \in BOOLEAN :
          "gate" \in changes /\ row.flight.gate # None =>
          Told(reached, "gate", row.flight.gate) \in Looks
    BY ToldType DEF Rows, FlightStates
  <2>2. /\ row' \in Rows /\ seen' \in Looks
        /\ row'.time_to_go = row.time_to_go
        /\ row'.updated = row.updated /\ row'.flight = row.flight
    BY <1>5, <2>1, PushedType DEF AnnounceGate, Same
  <2> QED
    BY <1>5, <2>2 DEF AnnounceGate, Places
<1> QED
  BY <1>2, <1>3, <1>4, <1>5

(* The next phase is a status.                                             *)
LEMMA PhaseType ==
  ASSUME TypeInv
  PROVE  NextPhase \in MONITORABLE_STATUSES \union {"complete"}
  BY DEF NextPhase, TypeInv, Rows, MONITORABLE_STATUSES

(* In Advance the trip's phase and departure change, and nothing else.     *)
LEMMA AdvanceRow ==
  ASSUME TypeInv, Advance
  PROVE  \E tapped \in BOOLEAN :
           LET next == IF tapped THEN "en_route" ELSE NextPhase
           IN  /\ tapped <=> /\ NextPhase = "active" /\ row.status = "active"
                            /\ RecentTaps # {}
               /\ row' \in Rows
               /\ row'.status = next
               /\ tapped => row'.depart # None
               /\ ~ tapped => row'.depart = row.depart
               /\ row'.timeline = row.timeline /\ row'.known = row.known
               /\ row'.info = row.info /\ row'.flight = row.flight
               /\ row'.updated = row.updated /\ row'.pushed = row.pushed
               /\ row'.time_to_go = row.time_to_go /\ row'.sms = row.sms
               /\ row'.feedback = row.feedback
               /\ IF After(next) = "sleep" THEN Sleep(TRUE)
                  ELSE pc' = After(next) /\ UNCHANGED <<changes, seen>>
<1> DEFINE tapped == /\ NextPhase = "active" /\ row.status = "active"
                     /\ RecentTaps # {}
           next == IF tapped THEN "en_route" ELSE NextPhase
           when == IF tapped THEN LastTap ELSE row.depart
<1>1. row \in Rows
  BY DEF TypeInv
<1>2. row' = [row EXCEPT !.status = next, !.depart = when]
  BY <1>1 DEF Advance, Rows
<1>3. next \in MONITORABLE_STATUSES \union {"complete"}
  BY PhaseType DEF MONITORABLE_STATUSES
<1>4. when \in Nat \union {None} /\ (tapped => when # None)
  BY <1>1, LatestTap, MonitorAssumption DEF Rows
<1>5. ~ tapped => when = row.depart
  OBVIOUS
<1>6. IF After(next) = "sleep" THEN Sleep(TRUE)
      ELSE pc' = After(next) /\ UNCHANGED <<changes, seen>>
  BY DEF Advance
<1>7. tapped \in BOOLEAN
  OBVIOUS
<1> HIDE DEF next, when
<1>8. /\ row' \in Rows /\ row'.status = next /\ row'.depart = when
      /\ row'.timeline = row.timeline /\ row'.known = row.known
      /\ row'.info = row.info /\ row'.flight = row.flight
      /\ row'.updated = row.updated /\ row'.pushed = row.pushed
      /\ row'.time_to_go = row.time_to_go /\ row'.sms = row.sms
      /\ row'.feedback = row.feedback
  BY <1>1, <1>2, <1>3, <1>4 DEF Rows
<1> QED
  BY <1>4, <1>5, <1>6, <1>7, <1>8 DEF next

(* The steps of a tick from the phases on, and the cut, keep the types.    *)
LEMMA LateTypes ==
  ASSUME TypeInv, PlaceInv,
         \/ Advance \/ RequestFeedback \/ Recompute \/ AnnounceLeave
         \/ Nudge \/ Escalate \/ TickCut
  PROVE  TypeInv'
<1> USE DEF TypeInv
<1>1. now \in Nat
  BY MonitorAssumption
<1>2. Sleep(TRUE) \/ Sleep(FALSE)
      => pc' \in Places /\ changes' = {} /\ seen' \in Looks
  BY DEF Sleep, Looks, Places
<1>3. CASE Advance
  <2>1. PICK tapped \in BOOLEAN :
          LET next == IF tapped THEN "en_route" ELSE NextPhase
          IN  /\ row' \in Rows /\ row'.time_to_go = row.time_to_go
              /\ row'.updated = row.updated /\ row'.flight = row.flight
              /\ IF After(next) = "sleep" THEN Sleep(TRUE)
                 ELSE pc' = After(next) /\ UNCHANGED <<changes, seen>>
    BY <1>3, AdvanceRow
  <2>2. \A status : After(status) \in Places
    BY DEF After, Places
  <2>3. /\ pc' \in Places /\ seen' \in Looks
        /\ changes' = {} \/ changes' = changes
    BY <1>2, <2>1, <2>2
  <2> QED
    BY <1>3, <2>1, <2>3 DEF Advance
<1>4. CASE RequestFeedback
  <2>1. /\ row' \in Rows /\ row'.time_to_go = row.time_to_go
        /\ row'.updated = row.updated /\ row'.flight = row.flight
    <3>1. CASE row' = row
      BY <3>1
    <3>2. ASSUME NEW reached \in BOOLEAN, Reached(reached),
                 row' = [Pushed(reached) EXCEPT !.feedback = TRUE]
          PROVE  /\ row' \in Rows /\ row'.time_to_go = row.time_to_go
                 /\ row'.updated = row.updated /\ row'.flight = row.flight
      <4>1. Pushed(reached) \in Rows /\ Same(Pushed(reached), row)
            /\ Pushed(reached).time_to_go = row.time_to_go
        BY <3>2, PushedType
      <4> QED
        BY <3>2, <4>1, MarkedType DEF Same
    <3> QED
      BY <1>4, <3>1, <3>2 DEF RequestFeedback
  <2> QED
    BY <1>2, <1>4, <2>1 DEF RequestFeedback
<1>5. CASE Recompute
  <2>1. CASE UNCHANGED <<row, cache>> /\ Sleep(FALSE)
    BY <1>2, <1>5, <2>1 DEF Recompute
  <2>2. ASSUME NEW departure \in IF row.info THEN {Departure} ELSE Snapshots,
               row' = [row EXCEPT !.timeline = Plan(departure, journey)],
               cache' = IF row.info THEN cache ELSE Remembered(departure),
               pc' = "leave_by_shift", UNCHANGED <<changes, seen>>
        PROVE  TypeInv'
    <3>1. departure \in Int /\ cache' \in Int \union {None}
      BY <2>2, SnapshotType, MonitorAssumption
    <3>2. Plan(departure, journey) \in Plans
      BY <3>1, PlanType
    <3>3. /\ row' \in Rows /\ row'.time_to_go = row.time_to_go
          /\ row'.updated = row.updated /\ row'.flight = row.flight
      BY <2>2, <3>2 DEF Rows
    <3> QED
      BY <1>5, <2>2, <3>1, <3>3 DEF Recompute, Places
  <2> QED
    BY <1>5, <2>1, <2>2 DEF Recompute
<1>6. CASE AnnounceLeave
  <2>1. row.timeline.leave \in Int
    BY <1>6 DEF AnnounceLeave, PlaceInv, WithPlan, Rows, Plans
  <2>2. /\ row' \in Rows /\ seen' \in Looks
        /\ row'.time_to_go = row.time_to_go
        /\ row'.updated = row.updated /\ row'.flight = row.flight
    <3>1. CASE row' = row /\ seen' = seen
      BY <3>1
    <3>2. ASSUME NEW reached \in BOOLEAN, Reached(reached),
                 row' = [Pushed(reached) EXCEPT !.pushed = row.timeline.leave],
                 seen' = Told(reached, "leave", row.timeline.leave)
          PROVE  /\ row' \in Rows /\ seen' \in Looks
                 /\ row'.time_to_go = row.time_to_go
                 /\ row'.updated = row.updated /\ row'.flight = row.flight
      <4>1. Pushed(reached) \in Rows /\ Same(Pushed(reached), row)
            /\ Pushed(reached).time_to_go = row.time_to_go
        BY <3>2, PushedType
      <4> QED
        BY <2>1, <3>2, <4>1, MarkedType, ToldType DEF Same
    <3> QED
      BY <1>6, <3>1, <3>2 DEF AnnounceLeave
  <2> QED
    BY <1>6, <2>2 DEF AnnounceLeave, Places
<1>7. CASE Nudge
  <2>1. CASE row' = row
    BY <1>7, <2>1 DEF Nudge, Places
  <2>2. ASSUME NEW reached \in BOOLEAN, Reached(reached),
               row' = [Pushed(reached) EXCEPT !.time_to_go =
                         IF reached /\ @ = None THEN now ELSE @]
        PROVE  TypeInv'
    <3> DEFINE when == IF reached /\ row.time_to_go = None THEN now
                       ELSE row.time_to_go
    <3>1. /\ when \in Nat \union {None} /\ (when # None => when <= now)
      BY <1>1 DEF Rows
    <3>2. row' = [Pushed(reached) EXCEPT !.time_to_go = when]
      BY <2>2, PushedType
    <3>3. /\ row' \in Rows /\ row'.time_to_go = when
          /\ row'.updated = row.updated /\ row'.flight = row.flight
      <4> HIDE DEF when
      <4>1. Pushed(reached) \in Rows /\ Same(Pushed(reached), row)
        BY <2>2, PushedType
      <4> QED
        BY <3>1, <3>2, <4>1, MarkedType DEF Same
    <3> QED
      BY <1>7, <3>1, <3>3 DEF Nudge, Places
  <2> QED
    BY <1>7, <2>1, <2>2 DEF Nudge
<1>8. CASE Escalate
  <2>1. /\ row' \in Rows /\ row'.time_to_go = row.time_to_go
        /\ row'.updated = row.updated /\ row'.flight = row.flight
    <3>1. CASE SmsDue /\ row' = [row EXCEPT !.sms = @ + 1]
      <4>1. row.sms + 1 \in 0..MaxSms
        BY <3>1, MonitorAssumption DEF SmsDue, Rows
      <4> QED
        BY <3>1, <4>1 DEF Rows
    <3>2. CASE row' = row
      BY <3>2
    <3> QED
      BY <1>8, <3>1, <3>2 DEF Escalate
  <2> QED
    BY <1>2, <1>8, <2>1 DEF Escalate
<1>9. CASE TickCut
  <2>1. Abandoned \subseteq {"gate", "cancelled", "feedback"}
    BY DEF Abandoned
  <2>2. seen' \in Looks
    BY <1>9, <2>1 DEF TickCut, Looks
  <2> QED
    BY <1>9, <2>2 DEF TickCut, Places
<1> QED
  BY <1>3, <1>4, <1>5, <1>6, <1>7, <1>8, <1>9

-----------------------------------------------------------------------------
(* What each step leaves alone, as far as the invariants look at it.       *)

(* What the phone is told changes none of the marks of the tick.           *)
LEMMA ToldKeeps ==
  ASSUME TypeInv, NEW reached, NEW value, NEW what \in {"gate", "leave",
                                                       "cancelled"}
  PROVE  LET told == Told(reached, what, value)
         IN  /\ told.began = seen.began /\ told.news = seen.news
             /\ told.edited = seen.edited /\ told.through = seen.through
             /\ \A w \in {"gate", "leave", "cancelled"} \ {what} :
                  told[w] = seen[w]
             /\ \A w \in {"lookup", "feedback", "gate", "leave", "cancelled"}
                        \ {what} : w \in told.lost <=> w \in seen.lost
             /\ reached => told[what] = value
             /\ ~ reached => what \in told.lost
  BY DEF Told, TypeInv, Looks

(* The refresh changes what is stored of the flight.                       *)
LEMMA RefreshKeeps ==
  ASSUME TypeInv, Refresh
  PROVE  /\ row'.status = row.status /\ row'.known = row.known
         /\ row'.info = row.info /\ row'.timeline = row.timeline
         /\ row'.pushed = row.pushed /\ row'.time_to_go = row.time_to_go
         /\ row'.sms = row.sms /\ row'.depart = row.depart
         /\ row'.feedback = row.feedback
         /\ seen'.began = seen.began /\ seen'.through = seen.through
         /\ seen'.edited = seen.edited /\ seen'.news = seen.news
         /\ seen'.leave = seen.leave /\ seen'.gate = seen.gate
         /\ seen'.cancelled = seen.cancelled
         /\ \A w \in {"feedback", "gate", "leave", "cancelled"} :
              w \in seen'.lost <=> w \in seen.lost
<1>1. row' = row \/ row' = [row EXCEPT !.flight = flight, !.updated = now]
  BY DEF Refresh
<1>2. \/ seen' = seen
      \/ seen' = [seen EXCEPT !.lost = @ \ {"lookup"}]
      \/ seen' = [seen EXCEPT !.lost = @ \union {"lookup"}]
  BY DEF Refresh
<1>3. /\ row'.status = row.status /\ row'.known = row.known
      /\ row'.info = row.info /\ row'.timeline = row.timeline
      /\ row'.pushed = row.pushed /\ row'.time_to_go = row.time_to_go
      /\ row'.sms = row.sms /\ row'.depart = row.depart
      /\ row'.feedback = row.feedback
  BY <1>1 DEF TypeInv, Rows
<1> QED
  BY <1>2, <1>3 DEF TypeInv, Looks

(* Messages change no phase and no plan.                                   *)
LEMMA MessagesKeep ==
  ASSUME TypeInv, PlaceInv,
         \/ AnnounceCancellation \/ AnnounceGate \/ RequestFeedback
         \/ AnnounceLeave \/ Nudge
  PROVE  Same(row', row)
<1>1. /\ \A r \in Rows :
           Same(r, row) => Same([r EXCEPT !.feedback = TRUE], row)
      /\ \A r \in Rows, t \in Int :
           Same(r, row) => Same([r EXCEPT !.pushed = t], row)
      /\ \A r \in Rows, t \in Nat \union {None} :
           Same(r, row) => Same([r EXCEPT !.time_to_go = t], row)
  BY MarkedType DEF Same
<1>2. Same(row, row)
  BY DEF Same
<1>3. CASE AnnounceCancellation \/ AnnounceGate
  BY <1>2, <1>3, PushedType DEF AnnounceCancellation, AnnounceGate
<1>4. CASE RequestFeedback
  BY <1>1, <1>2, <1>4, PushedType DEF RequestFeedback
<1>5. CASE AnnounceLeave
  <2>1. row.timeline.leave \in Int
    BY <1>5 DEF AnnounceLeave, PlaceInv, WithPlan, TypeInv, Rows, Plans
  <2> QED
    BY <1>1, <1>2, <1>5, <2>1, PushedType DEF AnnounceLeave
<1>6. CASE Nudge
  <2>1. ASSUME NEW reached \in BOOLEAN, Reached(reached)
        PROVE  Same([Pushed(reached) EXCEPT !.time_to_go =
                       IF reached /\ @ = None THEN now ELSE @], row)
    <3>1. Pushed(reached) \in Rows /\ Same(Pushed(reached), row)
      BY <2>1, PushedType
    <3>2. (IF reached /\ Pushed(reached).time_to_go = None THEN now
           ELSE Pushed(reached).time_to_go) \in Nat \union {None}
      BY <3>1, MonitorAssumption DEF Rows, TypeInv
    <3> QED
      BY <1>1, <3>1, <3>2
  <2> QED
    BY <1>2, <1>6, <2>1 DEF Nudge
<1> QED
  BY <1>3, <1>4, <1>5, <1>6

(* The SMS changes its count alone, the cut and the end only the marks.    *)
LEMMA EscalateKeeps ==
  ASSUME TypeInv, Escalate
  PROVE  /\ row'.status = row.status /\ row'.known = row.known
         /\ row'.info = row.info /\ row'.timeline = row.timeline
         /\ row'.pushed = row.pushed /\ row'.time_to_go = row.time_to_go
         /\ row'.depart = row.depart /\ row'.flight = row.flight
         /\ row'.updated = row.updated /\ row'.feedback = row.feedback
         /\ row'.sms = row.sms \/ SmsDue
  BY DEF Escalate, TypeInv, Rows

(* The end of a tick clears the changes and sets one mark.                 *)
LEMMA SleepKeeps ==
  ASSUME TypeInv, NEW through \in BOOLEAN, Sleep(through)
  PROVE  /\ pc' = "sleep" /\ changes' = {} /\ seen'.through = through
         /\ seen'.began = seen.began /\ seen'.edited = seen.edited
         /\ seen'.news = seen.news /\ seen'.leave = seen.leave
         /\ seen'.gate = seen.gate /\ seen'.cancelled = seen.cancelled
         /\ seen'.lost = seen.lost
  BY DEF Sleep, TypeInv, Looks

(* A cut loses what was still to be said, and keeps the row.               *)
LEMMA CutKeeps ==
  ASSUME TypeInv, TickCut
  PROVE  /\ pc' = "sleep" /\ row' = row /\ seen'.through = seen.through
         /\ seen'.began = seen.began /\ seen'.edited = seen.edited
         /\ seen'.news = seen.news /\ seen'.leave = seen.leave
         /\ seen'.gate = seen.gate /\ seen'.cancelled = seen.cancelled
         /\ seen'.lost = seen.lost \union Abandoned
  BY DEF TickCut, TypeInv, Looks

-----------------------------------------------------------------------------
(* Places and phases.                                                      *)

(* A trip that a tick goes on with is active, and was not due when the     *)
(* tick began.                                                             *)
LEMMA StillActive ==
  ASSUME TypeInv, NextPhase = "active"
  PROVE  row.status = "active" /\ ~ Due("leave")
  BY DEF NextPhase

(* Each place of the tick is reached with what it implies.                 *)
LEMMA PlaceStep ==
  ASSUME TypeInv, PlaceInv, TypeInv', Next
  PROVE  PlaceInv'
<1> USE DEF PlaceInv, WithPlan, BeforeAdvance
<1>1. CASE Between
  BY <1>1 DEF Between, News, Traffic, Edit, Tap, Lapse
<1>2. CASE Wake
  <2>1. seen'.began = row.timeline /\ ~ seen'.through
    BY <1>2 DEF Wake, TypeInv, Looks
  <2> QED
    BY <1>2, <2>1 DEF Wake
<1>3. CASE Refresh
  <2>1. pc = "refresh" /\ pc' \in {"advance", "cancellation"}
    BY <1>3 DEF Refresh
  <2> QED
    BY <1>3, <2>1, RefreshKeeps
<1>4. CASE AnnounceCancellation
  <2>1. Same(row', row) /\ seen'.began = seen.began
        /\ seen'.through = seen.through
    <3>1. \/ seen' = seen
          \/ \E reached \in BOOLEAN :
               seen' = Told(reached, "cancelled", TRUE)
      BY <1>4 DEF AnnounceCancellation
    <3>2. seen'.began = seen.began /\ seen'.through = seen.through
      BY <3>1 DEF Told, TypeInv, Looks
    <3> QED
      BY <1>4, <3>2, MessagesKeep
  <2> QED
    BY <1>4, <2>1 DEF AnnounceCancellation, Same
<1>5. CASE AnnounceGate
  <2>1. Same(row', row) /\ seen'.began = seen.began
        /\ seen'.through = seen.through
    <3>1. \/ seen' = seen
          \/ \E reached \in BOOLEAN :
               seen' = Told(reached, "gate", row.flight.gate)
      BY <1>5 DEF AnnounceGate
    <3> QED
      BY <1>5, <3>1, MessagesKeep, ToldKeeps
  <2> QED
    BY <1>5, <2>1 DEF AnnounceGate, Same
<1>6. CASE Advance
  <2>1. PICK tapped \in BOOLEAN :
          LET next == IF tapped THEN "en_route" ELSE NextPhase
          IN  /\ row'.status = next /\ row'.timeline = row.timeline
              /\ IF After(next) = "sleep" THEN Sleep(TRUE)
                 ELSE pc' = After(next) /\ UNCHANGED <<changes, seen>>
    BY <1>6, AdvanceRow
  <2> DEFINE next == IF tapped THEN "en_route" ELSE NextPhase
  <2>2. CASE After(next) = "sleep"
    BY <2>1, <2>2, SleepKeeps
  <2>3. CASE After(next) # "sleep"
    <3>1. pc' = After(next) /\ seen' = seen /\ now' = now
      BY <1>6, <2>1, <2>3 DEF Advance
    <3>2. CASE next = "complete"
      BY <1>6, <2>1, <3>1, <3>2 DEF After, Advance
    <3>3. CASE next = "active"
      <4>1. ~ Due("leave") /\ row.timeline = seen.began
        BY <1>6, <3>3, StillActive DEF Advance
      <4>2. seen.began = None \/ seen.began.leave > now
        BY <4>1, MonitorAssumption DEF Due, TypeInv, Looks, Plans
      <4> QED
        BY <1>6, <2>1, <3>1, <3>3, <4>2 DEF After, Advance
    <3> QED
      BY <2>3, <3>2, <3>3 DEF After
  <2> QED
    BY <2>2, <2>3
<1>7. CASE RequestFeedback
  BY <1>7, SleepKeeps DEF RequestFeedback
<1>8. CASE Recompute
  <2>1. CASE Sleep(FALSE)
    BY <1>8, <2>1, SleepKeeps DEF Recompute
  <2>2. ASSUME NEW departure \in IF row.info THEN {Departure} ELSE Snapshots,
               row' = [row EXCEPT !.timeline = Plan(departure, journey)],
               pc' = "leave_by_shift", UNCHANGED seen
        PROVE  PlaceInv'
    <3>1. Plan(departure, journey) # None
      BY SnapshotType, PlanType, MonitorAssumption DEF TypeInv
    <3>2. row'.status = row.status /\ row'.timeline # None
      BY <2>2, <3>1 DEF TypeInv, Rows
    <3> QED
      BY <1>8, <2>2, <3>2 DEF Recompute
  <2> QED
    BY <1>8, <2>1, <2>2 DEF Recompute
<1>9. CASE AnnounceLeave
  <2>1. Same(row', row) /\ seen'.began = seen.began
        /\ seen'.through = seen.through
    BY <1>9, MessagesKeep, ToldKeeps DEF AnnounceLeave
  <2> QED
    BY <1>9, <2>1 DEF AnnounceLeave, Same
<1>10. CASE Nudge
  BY <1>10, MessagesKeep DEF Nudge, Same
<1>11. CASE Escalate
  BY <1>11, SleepKeeps DEF Escalate
<1>12. CASE TickCut
  BY <1>12, CutKeeps
<1> QED
  BY <1>1, <1>2, <1>3, <1>4, <1>5, <1>6, <1>7, <1>8, <1>9, <1>10, <1>11,
     <1>12 DEF Next, TickStep

(* A phase is entered when its time has come, and by then the plan no      *)
(* longer changes.                                                         *)
LEMMA PhaseStep ==
  ASSUME PhaseInv, TypeInv', Next
  PROVE  PhaseFollowsPlan'
<1> USE DEF PhaseInv
<1> DEFINE Kept == /\ row'.status = row.status /\ row'.known = row.known
                   /\ row'.timeline = row.timeline
                   /\ row'.depart = row.depart
<1>1. now \in Int /\ now' \in Int /\ now <= now'
  <2>1. now' = now \/ Wake
    BY DEF Next, Between, News, Traffic, Edit, Tap, Lapse, TickStep, Refresh,
           AnnounceCancellation, AnnounceGate, Advance, RequestFeedback,
           Recompute, AnnounceLeave, Nudge, Escalate, TickCut
  <2>2. now \in Nat
    BY MonitorAssumption DEF TypeInv
  <2>3. CASE Wake
    BY <2>2, <2>3, LatestLater, MonitorAssumption DEF Wake, TypeInv
  <2> QED
    BY <2>1, <2>2, <2>3
<1>2. /\ row.timeline # None => row.timeline \in Plans
      /\ Departure \in Nat /\ Closing \in Nat /\ ForceClose \in Nat
      /\ Closing < ForceClose
  BY MonitorAssumption DEF TypeInv, Rows
<1>3. ASSUME Kept PROVE PhaseFollowsPlan'
  BY <1>1, <1>2, <1>3 DEF PhaseFollowsPlan, Due, Past, Plans
<1>4. ASSUME row.status = "active", row'.status = "active"
      PROVE  PhaseFollowsPlan'
  BY <1>4 DEF PhaseFollowsPlan
<1>5. CASE Between
  <2>1. (row.status = "active" /\ row'.status = "active") \/ Kept
    BY <1>5 DEF Between, News, Traffic, Edit, Tap, Lapse, TypeInv, Rows
  <2> QED
    BY <1>3, <1>4, <2>1
<1>6. CASE Wake
  BY <1>3, <1>6 DEF Wake
<1>7. CASE Refresh
  BY <1>3, <1>7, RefreshKeeps
<1>8. CASE \/ AnnounceCancellation \/ AnnounceGate \/ RequestFeedback
          \/ AnnounceLeave \/ Nudge
  BY <1>3, <1>8, MessagesKeep DEF Same
<1>9. CASE Advance
  <2>1. PICK tapped \in BOOLEAN :
          /\ tapped => NextPhase = "active"
          /\ row'.status = IF tapped THEN "en_route" ELSE NextPhase
          /\ tapped => row'.depart # None
          /\ ~ tapped => row'.depart = row.depart
          /\ row'.timeline = row.timeline /\ row'.known = row.known
    BY <1>9, AdvanceRow
  <2>2. now' = now
    BY <1>9 DEF Advance
  <2>3. CASE tapped
    BY <2>1, <2>3 DEF PhaseFollowsPlan
  <2>4. CASE ~ tapped /\ NextPhase = row.status
    BY <1>3, <2>1, <2>4
  <2>5. CASE ~ tapped /\ NextPhase # row.status
    <3>1. \/ NextPhase = "complete" /\ Past(Closing)
          \/ NextPhase = "en_route" /\ Due("leave")
          \/ NextPhase = "at_airport" /\ Due("arrive")
          \/ NextPhase = "at_gate" /\ Due("clear")
      BY <1>1, <1>2, <2>5 DEF NextPhase, Past
    <3> QED
      BY <2>1, <2>2, <2>5, <3>1 DEF PhaseFollowsPlan, Due, Past
  <2> QED
    BY <2>3, <2>4, <2>5
<1>10. CASE Recompute
  <2>1. row.status = "active" /\ row \in Rows
    BY <1>10 DEF Recompute, PlaceInv, TypeInv
  <2>2. (\E plan : row' = [row EXCEPT !.timeline = plan]) \/ row' = row
    BY <1>10, Zenon DEF Recompute
  <2>3. (row.status = "active" /\ row'.status = "active") \/ row' = row
    BY <2>1, <2>2 DEF Rows
  <2>4. Kept \/ row' # row
    BY <1>10 DEF Recompute
  <2> QED
    BY <1>3, <1>4, <2>3, <2>4
<1>11. CASE Escalate
  BY <1>3, <1>11, EscalateKeeps
<1>12. CASE TickCut
  BY <1>3, <1>12, CutKeeps
<1> QED
  BY <1>5, <1>6, <1>7, <1>8, <1>9, <1>10, <1>11, <1>12 DEF Next, TickStep

-----------------------------------------------------------------------------
(* The nudge and the SMS.                                                  *)
LEMMA SmsStep ==
  ASSUME PhaseInv, SmsInv, TypeInv', Next
  PROVE  SmsInv'
<1> USE DEF PhaseInv, BeforeAdvance
<1> DEFINE Marks == /\ row'.time_to_go = row.time_to_go /\ row'.sms = row.sms
                    /\ seen'.edited = seen.edited
           Edited == row.time_to_go # None =>
                       seen.edited # None /\ seen.edited >= row.time_to_go
<1>1. /\ now \in Int /\ row.sms \in Nat /\ row.time_to_go \in Int \union {None}
      /\ seen.edited \in Int \union {None}
      /\ row.timeline # None => row.timeline.leave \in Int
  BY MonitorAssumption DEF TypeInv, Rows, Looks, Plans
<1>2. ASSUME Marks, row'.status = "active" => Edited
      PROVE  SmsInv'
  BY <1>1, <1>2 DEF SmsInv, SmsMeansEdited
<1>3. ASSUME Marks, row'.status = row.status, row'.timeline = row.timeline,
             now' = now, pc' \in {"sleep"} \union BeforeAdvance
      PROVE  SmsInv'
  BY <1>1, <1>3 DEF SmsInv, SmsMeansEdited, Due
<1>4. CASE News \/ Traffic \/ Tap \/ Lapse
  <2>1. Marks /\ row' = row /\ now' = now /\ pc' = pc /\ pc = "sleep"
    BY <1>4 DEF News, Traffic, Tap, Lapse, TypeInv, Looks
  <2> QED
    BY <1>3, <2>1
<1>5. CASE Edit
  <2>1. /\ row'.time_to_go = row.time_to_go /\ row'.sms = row.sms
        /\ seen'.edited = now
    BY <1>5 DEF Edit, TypeInv, Rows, Looks
  <2>2. now # None /\ (row.time_to_go # None => row.time_to_go <= now)
    BY <1>1, MonitorAssumption DEF TypeInv
  <2> QED
    BY <1>1, <2>1, <2>2 DEF SmsInv, SmsMeansEdited
<1>6. CASE Wake
  <2>1. Marks /\ row' = row /\ pc' = "refresh" /\ pc = "sleep"
    BY <1>6 DEF Wake, TypeInv, Looks
  <2>2. now' \in Int /\ now <= now'
    <3>1. now \in Nat
      BY MonitorAssumption DEF TypeInv
    <3> QED
      BY <1>6, <3>1, LatestLater, MonitorAssumption DEF Wake, TypeInv
  <2> QED
    BY <1>1, <2>1, <2>2 DEF SmsInv, SmsMeansEdited, Due
<1>7. CASE Refresh
  <2>1. now' = now /\ pc' \in {"advance", "cancellation"}
    BY <1>7 DEF Refresh
  <2> QED
    BY <1>3, <1>7, <2>1, RefreshKeeps
<1>8. CASE AnnounceCancellation \/ AnnounceGate
  <2>1. /\ Same(row', row) /\ row'.time_to_go = row.time_to_go
        /\ now' = now /\ pc' \in {"gate_change", "advance"}
    BY <1>8, MessagesKeep, PushedType DEF AnnounceCancellation, AnnounceGate
  <2>2. seen'.edited = seen.edited
    BY <1>8 DEF AnnounceCancellation, AnnounceGate, Told, TypeInv, Looks
  <2> QED
    BY <1>3, <2>1, <2>2 DEF Same
<1>9. CASE Advance
  <2>1. PICK tapped \in BOOLEAN :
          LET next == IF tapped THEN "en_route" ELSE NextPhase
          IN  /\ row'.status = next /\ row'.timeline = row.timeline
              /\ row'.time_to_go = row.time_to_go /\ row'.sms = row.sms
              /\ IF After(next) = "sleep" THEN Sleep(TRUE)
                 ELSE pc' = After(next) /\ UNCHANGED <<changes, seen>>
    BY <1>9, AdvanceRow
  <2>2. Marks
    BY <2>1, SleepKeeps
  <2>3. ASSUME row'.status = "active" PROVE Edited
    <3>1. NextPhase = "active"
      BY <2>1, <2>3
    <3>2. row.status = "active" /\ ~ Due("leave")
      BY <3>1, StillActive
    <3> QED
      BY <3>2 DEF SmsInv
  <2> QED
    BY <1>2, <2>2, <2>3
<1>10. CASE RequestFeedback
  <2>1. /\ row'.sms = row.sms /\ row'.status = row.status
        /\ row.status = "complete"
    BY <1>10, MessagesKeep DEF Same, RequestFeedback, PlaceInv
  <2>2. row'.time_to_go = row.time_to_go
    <3>1. ASSUME NEW reached \in BOOLEAN, Reached(reached)
          PROVE  [Pushed(reached) EXCEPT !.feedback = TRUE].time_to_go
                   = row.time_to_go
      BY <3>1, PushedType, MarkedType
    <3> QED
      BY <1>10, <3>1 DEF RequestFeedback
  <2>3. Marks
    BY <1>10, <2>1, <2>2, SleepKeeps DEF RequestFeedback
  <2> QED
    BY <1>2, <2>1, <2>3
<1>11. CASE Recompute
  <2>1. row'.time_to_go = row.time_to_go /\ row'.sms = row.sms
    BY <1>11 DEF Recompute, TypeInv, Rows
  <2>2. seen'.edited = seen.edited
    BY <1>11, SleepKeeps DEF Recompute
  <2>3. row.status = "active" /\ pc = "recompute"
    BY <1>11 DEF Recompute, PlaceInv
  <2> QED
    BY <1>2, <2>1, <2>2, <2>3 DEF SmsInv
<1>12. CASE AnnounceLeave
  <2>1. row'.time_to_go = row.time_to_go
    <3>1. row.timeline.leave \in Int
      BY <1>12 DEF AnnounceLeave, PlaceInv, WithPlan, TypeInv, Rows, Plans
    <3>2. ASSUME NEW reached \in BOOLEAN, Reached(reached)
          PROVE  [Pushed(reached) EXCEPT !.pushed = row.timeline.leave]
                   .time_to_go = row.time_to_go
      BY <3>1, <3>2, PushedType, MarkedType
    <3> QED
      BY <1>12, <3>2 DEF AnnounceLeave
  <2>2. row'.sms = row.sms
    BY <1>12, MessagesKeep DEF Same
  <2>3. seen'.edited = seen.edited
    BY <1>12, ToldKeeps DEF AnnounceLeave
  <2>4. row.status = "active" /\ pc = "leave_by_shift"
    BY <1>12 DEF AnnounceLeave, PlaceInv, WithPlan
  <2> QED
    BY <1>2, <2>1, <2>2, <2>3, <2>4 DEF SmsInv
<1>13. CASE Nudge
  <2>1. row.status = "active" /\ pc = "time_to_go"
    BY <1>13 DEF Nudge, PlaceInv, WithPlan
  <2>2. Edited
    BY <2>1 DEF SmsInv
  <2>3. Same(row', row) /\ seen' = seen /\ now' = now /\ pc' = "escalate"
    BY <1>13, MessagesKeep DEF Nudge
  <2>4. CASE row'.time_to_go = row.time_to_go
    BY <1>2, <2>2, <2>3, <2>4 DEF Same
  <2>5. CASE row'.time_to_go # row.time_to_go
    <3>1. ASSUME NEW reached \in BOOLEAN, Reached(reached)
          PROVE  [Pushed(reached) EXCEPT !.time_to_go =
                    IF reached /\ @ = None THEN now ELSE @].time_to_go
                   = IF reached /\ row.time_to_go = None THEN now
                     ELSE row.time_to_go
      <4>1. Pushed(reached) \in Rows
            /\ Pushed(reached).time_to_go = row.time_to_go
        BY <3>1, PushedType
      <4>2. now \in Nat
        BY MonitorAssumption DEF TypeInv
      <4> QED
        BY <4>1, <4>2 DEF Rows
    <3>2. row.time_to_go = None /\ row'.time_to_go = now /\ Due("leave")
      BY <1>13, <2>5, <3>1 DEF Nudge
    <3> QED
      BY <1>1, <2>3, <3>2 DEF SmsInv, SmsMeansEdited, Same, Due
  <2> QED
    BY <2>4, <2>5
<1>14. CASE Escalate
  <2>1. row.status = "active" /\ pc = "escalate" /\ now' = now
        /\ pc' = "sleep" /\ seen'.edited = seen.edited
    BY <1>14, SleepKeeps DEF Escalate, PlaceInv, WithPlan
  <2>2. CASE row'.sms = row.sms
    BY <1>3, <1>14, <2>1, <2>2, EscalateKeeps
  <2>3. CASE SmsDue
    <3>1. row.time_to_go # None /\ row.time_to_go # now
      BY <1>1, <2>3, MonitorAssumption DEF SmsDue
    <3>2. Edited
      BY <2>1, <3>1 DEF SmsInv
    <3>3. row'.time_to_go = row.time_to_go
      BY <1>14, EscalateKeeps
    <3> QED
      BY <2>1, <3>1, <3>2, <3>3 DEF SmsInv, SmsMeansEdited
  <2> QED
    BY <1>14, <2>2, <2>3, EscalateKeeps
<1>15. CASE TickCut
  <2>1. Marks /\ row' = row /\ now' = now /\ pc' = "sleep"
    BY <1>15, CutKeeps DEF TickCut
  <2> QED
    BY <1>3, <2>1
<1> QED
  BY <1>4, <1>5, <1>6, <1>7, <1>8, <1>9, <1>10, <1>11, <1>12, <1>13, <1>14,
     <1>15 DEF Next, Between, TickStep

-----------------------------------------------------------------------------
(* The leave-by time.                                                      *)

(* The distance of two times.                                              *)
LEMMA DistanceZero ==
  ASSUME NEW a \in Int
  PROVE  Distance(a, a) = 0
  BY DEF Distance

(* The announced time stays close to the plan, and the plan to the truth.  *)
LEMMA LeaveStep ==
  ASSUME PhaseInv, LeaveInv, TypeInv', Next
  PROVE  LeaveInv'
<1> USE DEF PhaseInv, WithPlan
<1> DEFINE Known == /\ row'.pushed = row.pushed /\ seen'.leave = seen.leave
                    /\ "leave" \in seen'.lost <=> "leave" \in seen.lost
           Plan0 == /\ row'.timeline = row.timeline /\ row'.info = row.info
                    /\ row'.status = row.status
           Still == journey' = journey
<1>1. ASSUME Known, pc' \notin WithPlan,
             pc' = "sleep" /\ seen'.through => row'.status # "active"
      PROVE  LeaveInv'
  BY <1>1 DEF LeaveInv
<1>2. CASE News \/ Tap \/ Lapse
  <2>1. /\ Known /\ Plan0 /\ Still /\ seen'.through = seen.through
        /\ pc' = pc /\ pc = "sleep"
    BY <1>2 DEF News, Tap, Lapse, TypeInv, Looks
  <2> QED
    BY <2>1 DEF LeaveInv
<1>3. CASE Traffic \/ Edit
  <2>1. Known /\ ~ seen'.through /\ pc' = "sleep"
    BY <1>3 DEF Traffic, Edit, TypeInv, Rows, Looks
  <2> QED
    BY <1>1, <2>1
<1>4. CASE Wake
  <2>1. Known /\ pc' = "refresh"
    BY <1>4 DEF Wake, TypeInv, Looks
  <2> QED
    BY <1>1, <2>1
<1>5. CASE Refresh
  <2>1. pc' \in {"advance", "cancellation"}
    BY <1>5 DEF Refresh
  <2> QED
    BY <1>1, <1>5, <2>1, RefreshKeeps
<1>6. CASE AnnounceCancellation \/ AnnounceGate
  <2>1. pc' \in {"gate_change", "advance"}
    BY <1>6 DEF AnnounceCancellation, AnnounceGate
  <2>2. row'.pushed = row.pushed
    BY <1>6, PushedType DEF AnnounceCancellation, AnnounceGate
  <2>3. /\ seen'.leave = seen.leave
        /\ "leave" \in seen'.lost <=> "leave" \in seen.lost
    <3>1. \/ seen' = seen
          \/ \E reached \in BOOLEAN :
               \/ seen' = Told(reached, "cancelled", TRUE)
               \/ seen' = Told(reached, "gate", row.flight.gate)
      BY <1>6 DEF AnnounceCancellation, AnnounceGate
    <3>2. ASSUME NEW reached \in BOOLEAN,
                 seen' = Told(reached, "cancelled", TRUE)
          PROVE  /\ seen'.leave = seen.leave
                 /\ "leave" \in seen'.lost <=> "leave" \in seen.lost
      BY <3>2 DEF Told, TypeInv, Looks
    <3>3. ASSUME NEW reached \in BOOLEAN,
                 seen' = Told(reached, "gate", row.flight.gate)
          PROVE  /\ seen'.leave = seen.leave
                 /\ "leave" \in seen'.lost <=> "leave" \in seen.lost
      BY <3>3 DEF Told, TypeInv, Looks
    <3> QED
      BY <3>1, <3>2, <3>3
  <2> QED
    BY <1>1, <2>1, <2>2, <2>3
<1>7. CASE Advance
  <2>1. PICK tapped \in BOOLEAN :
          LET next == IF tapped THEN "en_route" ELSE NextPhase
          IN  /\ row'.status = next /\ row'.pushed = row.pushed
              /\ IF After(next) = "sleep" THEN Sleep(TRUE)
                 ELSE pc' = After(next) /\ UNCHANGED <<changes, seen>>
    BY <1>7, AdvanceRow
  <2>2. Known
    BY <2>1, SleepKeeps
  <2>3. After(row'.status) = "sleep" => row'.status # "active"
    BY DEF After
  <2>4. pc' = After(row'.status) /\ pc' \notin WithPlan
    BY <2>1, SleepKeeps DEF After
  <2> QED
    BY <1>1, <2>2, <2>3, <2>4
<1>8. CASE RequestFeedback
  <2>1. row.status = "complete" /\ row'.status = row.status
    BY <1>8, MessagesKeep DEF RequestFeedback, PlaceInv, Same
  <2>2. row'.pushed = row.pushed
    <3>1. ASSUME NEW reached \in BOOLEAN, Reached(reached)
          PROVE  [Pushed(reached) EXCEPT !.feedback = TRUE].pushed = row.pushed
      BY <3>1, PushedType DEF Rows
    <3> QED
      BY <1>8, <3>1 DEF RequestFeedback
  <2> QED
    BY <1>1, <1>8, <2>1, <2>2, SleepKeeps DEF RequestFeedback
<1>9. CASE Recompute
  <2>1. CASE Sleep(FALSE) /\ UNCHANGED row
    BY <1>1, <2>1, SleepKeeps
  <2>2. ASSUME NEW departure \in IF row.info THEN {Departure} ELSE Snapshots,
               row' = [row EXCEPT !.timeline = Plan(departure, journey)],
               pc' = "leave_by_shift", UNCHANGED seen
        PROVE  LeaveInv'
    <3>1. Plan(departure, journey).leave = departure - journey
      BY SnapshotType, PlanType, MonitorAssumption DEF TypeInv
    <3>2. /\ row'.timeline.leave = departure - journey
          /\ row'.pushed = row.pushed /\ row'.info = row.info
      BY <2>2, <3>1 DEF TypeInv, Rows
    <3>3. journey' = journey
      BY <1>9 DEF Recompute
    <3> QED
      BY <2>2, <3>2, <3>3 DEF LeaveInv
  <2> QED
    BY <1>9, <2>1, <2>2 DEF Recompute
<1>10. CASE AnnounceLeave
  <2> DEFINE leave == row.timeline.leave
  <2>1. leave \in Int /\ leave # None /\ ShiftMin > 0
    BY <1>10, MonitorAssumption
       DEF AnnounceLeave, PlaceInv, TypeInv, Rows, Plans
  <2>2. Same(row', row) /\ pc' = "time_to_go" /\ pc = "leave_by_shift"
        /\ journey' = journey
    BY <1>10, MessagesKeep DEF AnnounceLeave
  <2>3. CASE Shifted
    <3>1. PICK reached \in BOOLEAN :
            /\ Reached(reached)
            /\ row' = [Pushed(reached) EXCEPT !.pushed = leave]
            /\ seen' = Told(reached, "leave", leave)
      BY <1>10, <2>3 DEF AnnounceLeave
    <3>2. row'.pushed = leave
      BY <2>1, <3>1, PushedType, MarkedType
    <3>3. "leave" \notin seen'.lost => seen'.leave = leave
      BY <3>1, ToldKeeps
    <3> QED
      BY <2>1, <2>2, <3>2, <3>3, DistanceZero DEF LeaveInv, Same
  <2>4. CASE ~ Shifted
    <3>1. row' = row /\ seen' = seen
      BY <1>10, <2>4 DEF AnnounceLeave
    <3>2. row.pushed # None /\ Distance(row.pushed, leave) < ShiftMin
      BY <2>1, <2>4, MonitorAssumption DEF Shifted, Distance, TypeInv, Rows
    <3> QED
      BY <2>2, <3>1, <3>2 DEF LeaveInv
  <2> QED
    BY <2>3, <2>4
<1>11. CASE Nudge
  <2>1. Same(row', row) /\ pc' = "escalate" /\ pc = "time_to_go"
        /\ journey' = journey /\ seen' = seen
    BY <1>11, MessagesKeep DEF Nudge
  <2>2. row'.pushed = row.pushed
    <3>1. ASSUME NEW reached \in BOOLEAN, Reached(reached)
          PROVE  [Pushed(reached) EXCEPT !.time_to_go =
                    IF reached /\ @ = None THEN now ELSE @].pushed
                   = row.pushed
      BY <3>1, PushedType DEF Rows
    <3> QED
      BY <1>11, <3>1 DEF Nudge
  <2> QED
    BY <2>1, <2>2 DEF LeaveInv, Same
<1>12. CASE Escalate
  <2>1. Known /\ Plan0 /\ Still /\ pc' = "sleep" /\ pc = "escalate"
    BY <1>12, EscalateKeeps, SleepKeeps DEF Escalate
  <2> QED
    BY <2>1 DEF LeaveInv
<1>13. CASE TickCut
  <2>1. "leave" \notin Abandoned
    BY DEF Abandoned
  <2>2. Known /\ pc' = "sleep" /\ pc # "sleep"
        /\ seen'.through = seen.through
    BY <1>13, <2>1, CutKeeps DEF TickCut
  <2> QED
    BY <1>1, <2>2 DEF PlaceInv
<1> QED
  BY <1>2, <1>3, <1>4, <1>5, <1>6, <1>7, <1>8, <1>9, <1>10, <1>11, <1>12,
     <1>13 DEF Next, Between, TickStep

-----------------------------------------------------------------------------
(* The news.                                                               *)

(* The agent takes the departure to be some whole time away.               *)
LEMMA SomeTimeAway ==
  ASSUME TypeInv
  PROVE  SecondsToDeparture \in Int
  BY MonitorAssumption DEF SecondsToDeparture, TypeInv

(* Nobody stores a departure, or takes it away: while the clock stands,    *)
(* the agent takes the departure to be as far away as before.              *)
LEMMA DepartureStands ==
  ASSUME TypeInv, Next, now' = now
  PROVE  SecondsToDeparture' = SecondsToDeparture
<1>1. row'.known = row.known
  <2> USE DEF TypeInv, Rows
  <2>1. CASE Between
    BY <2>1 DEF Between, News, Traffic, Edit, Tap, Lapse
  <2>2. CASE Wake \/ Refresh \/ RequestFeedback \/ Recompute \/ Escalate
    BY <2>2 DEF Wake, Refresh, RequestFeedback, Pushed, Recompute, Escalate
  <2>3. CASE AnnounceCancellation \/ AnnounceGate
    BY <2>3 DEF AnnounceCancellation, AnnounceGate, Pushed
  <2>4. CASE AnnounceLeave \/ Nudge
    BY <2>4 DEF AnnounceLeave, Nudge, Pushed
  <2>5. CASE Advance
    BY <2>5 DEF Advance
  <2>6. CASE TickCut
    BY <2>6 DEF TickCut
  <2> QED
    BY <2>1, <2>2, <2>3, <2>4, <2>5, <2>6 DEF Next, TickStep
<1> QED
  BY <1>1 DEF SecondsToDeparture

(* A step that touches neither the flight nor what was said of it.         *)
LEMMA NewsUntouched ==
  ASSUME NewsInv, SecondsToDeparture' = SecondsToDeparture,
         row'.flight = row.flight, row'.updated = row.updated,
         flight' = flight, now' = now, seen'.news = seen.news,
         seen'.gate = seen.gate, seen'.cancelled = seen.cancelled,
         \A w \in {"gate", "cancelled", "lookup"} :
           w \in seen'.lost <=> w \in seen.lost,
         pc \notin {"cancellation", "gate_change", "sleep", "refresh"}
  PROVE  NewsInv'
  BY DEF NewsInv, GatePart, CancelledPart, StoredPart, Fresh

(* What is stored of the flight is announced or lost, and is the flight.   *)
LEMMA NewsStep ==
  ASSUME PhaseInv, NewsInv, TypeInv', Next
  PROVE  NewsInv'
<1> USE DEF PhaseInv, NewsInv
<1>0. now' = now => SecondsToDeparture' = SecondsToDeparture
  BY DepartureStands
<1> USE <1>0
<1>1. CASE News
  <2>1. /\ seen'.news = now /\ seen'.gate = seen.gate /\ row' = row
        /\ seen'.cancelled = seen.cancelled /\ seen'.lost = seen.lost
        /\ seen'.through = seen.through
        /\ pc' = pc /\ now' = now /\ changes' = changes
    BY <1>1 DEF News, TypeInv, Looks
  <2>2. row.updated # None => row.updated <= now
    BY DEF TypeInv
  <2>3. now \in Nat /\ row.updated \in Nat \union {None}
        /\ (row.flight # None => row.updated # None)
    BY MonitorAssumption DEF TypeInv, Rows
  <2>4. GatePart' /\ CancelledPart'
    BY <2>1 DEF GatePart, CancelledPart
  <2> QED
    BY <2>1, <2>2, <2>3, <2>4 DEF StoredPart
<1>2. CASE Traffic \/ Tap \/ Lapse \/ Edit
  <2>1. /\ row'.flight = row.flight /\ row'.updated = row.updated
        /\ seen'.news = seen.news /\ seen'.gate = seen.gate
        /\ seen'.cancelled = seen.cancelled /\ seen'.lost = seen.lost
        /\ seen'.through => seen.through
    <3>1. seen \in Looks
      BY DEF TypeInv
    <3>2. CASE Traffic
      BY <3>1, <3>2 DEF Traffic, Looks
    <3>3. CASE Tap
      BY <3>3 DEF Tap
    <3>4. CASE Lapse
      BY <3>4 DEF Lapse
    <3>5. CASE Edit
      <4>1. /\ seen' = [seen EXCEPT !.edited = now, !.through = FALSE]
            /\ \/ \E departure \in Snapshots :
                     row' = [row EXCEPT
                               !.timeline = Plan(departure, journey)]
               \/ row' = row
        BY <3>5 DEF Edit
      <4>2. row'.flight = row.flight /\ row'.updated = row.updated
        BY <4>1 DEF TypeInv, Rows
      <4> QED
        BY <3>1, <4>1, <4>2 DEF Looks
    <3> QED
      BY <1>2, <3>2, <3>3, <3>4, <3>5
  <2>2. /\ flight' = flight /\ now' = now /\ changes' = changes
        /\ pc' = pc
    BY <1>2 DEF Traffic, Tap, Lapse, Edit
  <2> QED
    BY <2>1, <2>2 DEF GatePart, CancelledPart, StoredPart, Fresh
<1>3. CASE Wake
  <2>1. /\ row' = row /\ flight' = flight /\ pc' = "refresh" /\ pc = "sleep"
        /\ seen'.news = seen.news /\ seen'.gate = seen.gate
        /\ seen'.cancelled = seen.cancelled /\ seen'.lost = seen.lost
    BY <1>3 DEF Wake, TypeInv, Looks
  <2> QED
    BY <2>1 DEF GatePart, CancelledPart, StoredPart
<1>4. CASE Refresh
  <2>1. /\ pc = "refresh" /\ flight' = flight /\ now' = now
    BY <1>4 DEF Refresh
  <2>2. CASE /\ row' = [row EXCEPT !.flight = flight, !.updated = now]
             /\ changes' = Differences /\ pc' = "cancellation"
    <3>1. row'.flight = flight
      BY <2>2 DEF TypeInv, Rows
    <3>2. "gate" \notin changes'
          => row.flight # None /\ row.flight.gate = flight.gate
      BY <2>2 DEF Differences, TypeInv, FlightStates
    <3>3. "status" \notin changes'
          => row.flight # None /\ row.flight.status = flight.status
      BY <2>2 DEF Differences, TypeInv, FlightStates
    <3> QED
      BY <1>4, <2>1, <2>2, <3>1, <3>2, <3>3, RefreshKeeps
         DEF GatePart, CancelledPart, StoredPart
  <2>3. CASE row' = row /\ changes' = changes /\ pc' = "advance"
    <3>1. GatePart' /\ CancelledPart'
      BY <1>4, <2>1, <2>3, RefreshKeeps DEF GatePart, CancelledPart
    <3>2. CASE SkipRefresh
      <4>1. /\ now \in Nat /\ Interval \in Nat /\ seen.news \in Nat
            /\ row.flight # None /\ row.updated \in Nat
        BY <3>2, MonitorAssumption DEF SkipRefresh, TypeInv, Rows, Looks
      <4>2. row.flight = flight \/ row.updated <= seen.news
        BY <4>1 DEF StoredPart
      <4>3. row.flight = flight \/ Fresh
        BY <3>2, <4>1, <4>2, SomeTimeAway DEF SkipRefresh, Fresh
      <4> QED
        BY <1>4, <2>1, <2>3, <3>1, <4>3, RefreshKeeps DEF StoredPart, Fresh
    <3>3. CASE ~ SkipRefresh
      <4>1. seen' = [seen EXCEPT !.lost = @ \union {"lookup"}]
        BY <1>4, <2>3, <3>3 DEF Refresh
      <4>2. "lookup" \in seen'.lost
        BY <4>1 DEF TypeInv, Looks
      <4> QED
        BY <1>4, <2>1, <2>3, <3>1, <4>2, RefreshKeeps DEF StoredPart
    <3> QED
      BY <3>2, <3>3
  <2> QED
    BY <1>4, <2>2, <2>3 DEF Refresh
<1>5. CASE AnnounceCancellation
  <2>1. /\ Same(row', row) /\ flight' = flight /\ now' = now
        /\ changes' = changes /\ pc = "cancellation" /\ pc' = "gate_change"
    BY <1>5, MessagesKeep DEF AnnounceCancellation
  <2>2. /\ seen'.news = seen.news /\ seen'.gate = seen.gate
        /\ "gate" \in seen'.lost <=> "gate" \in seen.lost
        /\ "lookup" \in seen'.lost <=> "lookup" \in seen.lost
    <3>1. \/ seen' = seen
          \/ \E reached \in BOOLEAN : seen' = Told(reached, "cancelled", TRUE)
      BY <1>5 DEF AnnounceCancellation
    <3>2. ASSUME NEW reached \in BOOLEAN,
                 seen' = Told(reached, "cancelled", TRUE)
          PROVE  /\ seen'.news = seen.news /\ seen'.gate = seen.gate
                 /\ "gate" \in seen'.lost <=> "gate" \in seen.lost
                 /\ "lookup" \in seen'.lost <=> "lookup" \in seen.lost
      BY <3>2 DEF Told, TypeInv, Looks
    <3> QED
      BY <3>1, <3>2
  <2>3. GatePart' /\ StoredPart'
    BY <2>1, <2>2 DEF GatePart, StoredPart, Fresh, Same
  <2>4. CancelledPart'
    <3>1. CASE "status" \in changes /\ row.flight.status = "Cancelled"
      <4>1. PICK reached \in BOOLEAN : seen' = Told(reached, "cancelled", TRUE)
        BY <1>5, <3>1 DEF AnnounceCancellation
      <4>2. "cancelled" \in seen'.lost \/ seen'.cancelled
        BY <4>1 DEF Told, TypeInv, Looks
      <4> QED
        BY <4>2 DEF CancelledPart
    <3>2. CASE ~ ("status" \in changes /\ row.flight.status = "Cancelled")
      <4>1. seen' = seen
        BY <1>5, <3>2 DEF AnnounceCancellation
      <4> QED
        BY <2>1, <3>2, <4>1 DEF CancelledPart, Same
    <3> QED
      BY <3>1, <3>2
  <2> QED
    BY <2>3, <2>4
<1>6. CASE AnnounceGate
  <2>1. /\ Same(row', row) /\ flight' = flight /\ now' = now
        /\ changes' = changes /\ pc = "gate_change" /\ pc' = "advance"
    BY <1>6, MessagesKeep DEF AnnounceGate
  <2>2. /\ seen'.news = seen.news /\ seen'.cancelled = seen.cancelled
        /\ "cancelled" \in seen'.lost <=> "cancelled" \in seen.lost
        /\ "lookup" \in seen'.lost <=> "lookup" \in seen.lost
    <3>1. \/ seen' = seen
          \/ \E reached \in BOOLEAN :
               seen' = Told(reached, "gate", row.flight.gate)
      BY <1>6 DEF AnnounceGate
    <3>2. ASSUME NEW reached \in BOOLEAN,
                 seen' = Told(reached, "gate", row.flight.gate)
          PROVE  /\ seen'.news = seen.news /\ seen'.cancelled = seen.cancelled
                 /\ "cancelled" \in seen'.lost <=> "cancelled" \in seen.lost
                 /\ "lookup" \in seen'.lost <=> "lookup" \in seen.lost
      BY <3>2 DEF Told, TypeInv, Looks
    <3> QED
      BY <3>1, <3>2
  <2>3. CancelledPart' /\ StoredPart'
    BY <2>1, <2>2 DEF CancelledPart, StoredPart, Fresh, Same
  <2>4. GatePart'
    <3>1. CASE "gate" \in changes /\ row.flight.gate # None
      <4>1. PICK reached \in BOOLEAN :
              seen' = Told(reached, "gate", row.flight.gate)
        BY <1>6, <3>1 DEF AnnounceGate
      <4>2. "gate" \in seen'.lost \/ seen'.gate = row.flight.gate
        BY <4>1 DEF Told, TypeInv, Looks
      <4> QED
        BY <2>1, <4>2 DEF GatePart, Same
    <3>2. CASE ~ ("gate" \in changes /\ row.flight.gate # None)
      <4>1. seen' = seen
        BY <1>6, <3>2 DEF AnnounceGate
      <4> QED
        BY <2>1, <3>2, <4>1 DEF GatePart, Same
    <3> QED
      BY <3>1, <3>2
  <2> QED
    BY <2>3, <2>4
<1>7. CASE Advance
  <2>1. PICK tapped \in BOOLEAN :
          LET next == IF tapped THEN "en_route" ELSE NextPhase
          IN  /\ row'.flight = row.flight /\ row'.updated = row.updated
              /\ IF After(next) = "sleep" THEN Sleep(TRUE)
                 ELSE pc' = After(next) /\ UNCHANGED <<changes, seen>>
    BY <1>7, AdvanceRow
  <2>2. /\ flight' = flight /\ now' = now /\ pc = "advance"
    BY <1>7 DEF Advance
  <2>3. /\ seen'.news = seen.news /\ seen'.gate = seen.gate
        /\ seen'.cancelled = seen.cancelled /\ seen'.lost = seen.lost
        /\ pc' # "refresh"
    BY <2>1, SleepKeeps DEF After
  <2> QED
    BY <2>1, <2>2, <2>3, NewsUntouched
<1>8. CASE RequestFeedback \/ Nudge
  <2>1. /\ flight' = flight /\ now' = now /\ pc \in {"feedback", "time_to_go"}
        /\ pc' # "refresh" /\ (seen' = seen \/ Sleep(TRUE))
    BY <1>8 DEF RequestFeedback, Nudge, Sleep
  <2>2. /\ seen'.news = seen.news /\ seen'.gate = seen.gate
        /\ seen'.cancelled = seen.cancelled /\ seen'.lost = seen.lost
    BY <2>1, SleepKeeps
  <2> QED
    BY <1>8, <2>1, <2>2, MessagesKeep, NewsUntouched DEF Same
<1>9. CASE Recompute
  <2>1. /\ flight' = flight /\ now' = now /\ pc = "recompute"
        /\ pc' # "refresh" /\ (seen' = seen \/ Sleep(FALSE))
    BY <1>9 DEF Recompute, Sleep
  <2>2. /\ seen'.news = seen.news /\ seen'.gate = seen.gate
        /\ seen'.cancelled = seen.cancelled /\ seen'.lost = seen.lost
    BY <2>1, SleepKeeps
  <2>3. row'.flight = row.flight /\ row'.updated = row.updated
    BY <1>9 DEF Recompute, TypeInv, Rows
  <2> QED
    BY <2>1, <2>2, <2>3, NewsUntouched
<1>10. CASE AnnounceLeave
  <2>1. /\ Same(row', row) /\ flight' = flight /\ now' = now
        /\ pc = "leave_by_shift" /\ pc' = "time_to_go"
    BY <1>10, MessagesKeep DEF AnnounceLeave
  <2>2. /\ seen'.news = seen.news /\ seen'.gate = seen.gate
        /\ seen'.cancelled = seen.cancelled
        /\ \A w \in {"gate", "cancelled", "lookup"} :
             w \in seen'.lost <=> w \in seen.lost
    BY <1>10, ToldKeeps DEF AnnounceLeave
  <2> QED
    BY <2>1, <2>2, NewsUntouched DEF Same
<1>11. CASE Escalate
  <2>1. /\ flight' = flight /\ now' = now /\ pc = "escalate"
        /\ pc' # "refresh" /\ Sleep(TRUE)
    BY <1>11 DEF Escalate, Sleep
  <2> QED
    BY <1>11, <2>1, EscalateKeeps, SleepKeeps, NewsUntouched
<1>12. CASE TickCut
  <2>1. /\ row' = row /\ flight' = flight /\ now' = now /\ pc # "sleep"
        /\ pc' = "sleep" /\ ~ seen'.through
    BY <1>12, CutKeeps DEF TickCut, PlaceInv
  <2>2. /\ "gate" \in changes /\ pc \in {"cancellation", "gate_change"}
           => "gate" \in Abandoned
        /\ "status" \in changes /\ pc = "cancellation"
           => "cancelled" \in Abandoned
    BY DEF Abandoned
  <2> QED
    BY <1>12, <2>1, <2>2, CutKeeps DEF GatePart, CancelledPart, StoredPart
<1> QED
  BY <1>1, <1>2, <1>3, <1>4, <1>5, <1>6, <1>7, <1>8, <1>9, <1>10, <1>11,
     <1>12 DEF Next, Between, TickStep

-----------------------------------------------------------------------------
(* The request for feedback.                                               *)
LEMMA FeedbackStep ==
  ASSUME PhaseInv, FeedbackUnlessCut, TypeInv', Next
  PROVE  FeedbackUnlessCut'
<1> USE DEF PhaseInv, PlaceInv, BeforeAdvance, WithPlan,
            MONITORABLE_STATUSES
<1>1. CASE News \/ Traffic \/ Tap \/ Lapse \/ Edit
  <2>1. /\ row'.status = row.status /\ row'.feedback = row.feedback
        /\ seen'.lost = seen.lost /\ pc' = pc
    <3>1. CASE News \/ Traffic \/ Tap \/ Lapse
      BY <3>1 DEF News, Traffic, Tap, Lapse, TypeInv, Looks
    <3>2. CASE Edit
      <4>1. row' = row \/ \E plan : row' = [row EXCEPT !.timeline = plan]
        BY <3>2 DEF Edit
      <4> QED
        BY <3>2, <4>1 DEF Edit, TypeInv, Rows, Looks
    <3> QED
      BY <1>1, <3>1, <3>2
  <2> QED
    BY <2>1 DEF FeedbackUnlessCut
<1>2. CASE \/ Wake \/ Refresh \/ AnnounceCancellation \/ AnnounceGate
          \/ AnnounceLeave \/ Nudge
  BY <1>2 DEF FeedbackUnlessCut, Wake, Refresh, AnnounceCancellation,
              AnnounceGate, AnnounceLeave, Nudge
<1>3. CASE Advance
  <2>1. pc' = After(row'.status)
    <3>1. PICK tapped \in BOOLEAN :
            LET next == IF tapped THEN "en_route" ELSE NextPhase
            IN  /\ row'.status = next
                /\ IF After(next) = "sleep" THEN Sleep(TRUE)
                   ELSE pc' = After(next) /\ UNCHANGED <<changes, seen>>
      BY <1>3, AdvanceRow
    <3> QED
      BY <3>1, SleepKeeps
  <2> QED
    BY <2>1 DEF FeedbackUnlessCut, After
<1>4. CASE RequestFeedback
  <2>1. row.status = "complete" /\ Past(Closing)
    BY <1>4 DEF RequestFeedback, PhaseFollowsPlan
  <2>2. CASE ~ FeedbackDue
    BY <1>4, <2>1, <2>2 DEF RequestFeedback, FeedbackDue, FeedbackUnlessCut
  <2>3. CASE FeedbackDue
    <3>1. PICK reached \in BOOLEAN :
            /\ Reached(reached)
            /\ row' = [Pushed(reached) EXCEPT !.feedback = TRUE]
      BY <1>4, <2>3 DEF RequestFeedback
    <3>2. row'.feedback
      BY <3>1, PushedType DEF Rows
    <3> QED
      BY <3>2 DEF FeedbackUnlessCut
  <2> QED
    BY <2>2, <2>3
<1>5. CASE Recompute
  <2>1. row'.status = "active"
    BY <1>5 DEF Recompute, TypeInv, Rows
  <2> QED
    BY <2>1 DEF FeedbackUnlessCut
<1>6. CASE Escalate
  <2>1. row.status = "active"
    BY <1>6 DEF Escalate
  <2>2. row'.status = "active"
    BY <1>6, <2>1, EscalateKeeps
  <2> QED
    BY <2>2 DEF FeedbackUnlessCut
<1>7. CASE TickCut
  <2>1. row.status = "complete" => "feedback" \in Abandoned
    BY <1>7 DEF TickCut, Abandoned, TypeInv, Places
  <2> QED
    BY <1>7, <2>1, CutKeeps DEF FeedbackUnlessCut
<1> QED
  BY <1>1, <1>2, <1>3, <1>4, <1>5, <1>6, <1>7 DEF Next, Between, TickStep

-----------------------------------------------------------------------------
(* The invariant holds at the start and is kept by every step.             *)
LEMMA InitMonitor == Init => MonitorInv
<1> SUFFICES ASSUME Init PROVE MonitorInv
  OBVIOUS
<1>1. TypeInv
  BY InitTypes
<1>2. PlaceInv /\ PhaseFollowsPlan /\ FeedbackUnlessCut
  BY DEF Init, PlaceInv, PhaseFollowsPlan, FeedbackUnlessCut, BeforeAdvance,
         WithPlan
<1>3. SmsInv
  BY DEF Init, SmsInv, SmsMeansEdited
<1>4. LeaveInv
  BY DEF Init, LeaveInv, WithPlan
<1>5. NewsInv
  <2>1. /\ row.flight # None => row.flight = flight
        /\ flight.gate = None /\ flight.status = "Expected"
        /\ pc = "sleep" /\ ~ seen.through
    BY DEF Init
  <2> QED
    BY <2>1 DEF NewsInv, GatePart, CancelledPart, StoredPart
<1> QED
  BY <1>1, <1>2, <1>3, <1>4, <1>5 DEF MonitorInv, PhaseInv

(* Every step keeps the invariant.                                         *)
LEMMA StepMonitor == MonitorInv /\ [Next]_vars => MonitorInv'
<1> SUFFICES ASSUME MonitorInv, [Next]_vars PROVE MonitorInv'
  OBVIOUS
<1> USE DEF MonitorInv
<1>1. CASE Next
  <2>1. TypeInv'
    BY <1>1, BetweenTypes, EarlyTypes, LateTypes
       DEF PhaseInv, Next, TickStep
  <2>2. PlaceInv'
    BY <1>1, <2>1, PlaceStep DEF PhaseInv
  <2>3. PhaseFollowsPlan'
    BY <1>1, <2>1, PhaseStep
  <2> QED
    BY <1>1, <2>1, <2>2, <2>3, SmsStep, LeaveStep, NewsStep, FeedbackStep
       DEF PhaseInv
<1>2. CASE UNCHANGED vars
  BY <1>2 DEF vars, PhaseInv, TypeInv, PlaceInv, PhaseFollowsPlan, Due, Past,
     SmsInv, SmsMeansEdited, LeaveInv, NewsInv, GatePart, CancelledPart,
     StoredPart, Fresh, SecondsToDeparture, FeedbackUnlessCut
<1> QED
  BY <1>1, <1>2

(* So it always holds.                                                     *)
LEMMA MonitorInvariant == MonitorSpec => []MonitorInv
  BY InitMonitor, StepMonitor, PTL DEF MonitorSpec

(* Rows, places and counters keep their types, and a trip that asks for    *)
(* feedback is complete, for any limits (_process_trip).                   *)
THEOREM MonitorTypes == MonitorSpec => []MonitorTypeOK
<1>1. MonitorInv => MonitorTypeOK
  BY DEF MonitorInv, PhaseInv, TypeInv, PlaceInv, Rows, MonitorTypeOK
<1> QED
  BY <1>1, MonitorInvariant, PTL

(* No trip is ahead of its stored plan (_advance_trip_state).              *)
THEOREM PhasesFollowPlan == MonitorSpec => []PhaseFollowsPlan
<1>1. MonitorInv => PhaseFollowsPlan
  BY DEF MonitorInv, PhaseInv
<1> QED
  BY <1>1, MonitorInvariant, PTL

(* The time-to-go push goes out only when the plan jumps over the present. *)
THEOREM NudgesAreJumps == MonitorSpec => []NudgeMeansJump
<1>1. MonitorInv => NudgeMeansJump
  BY DEF MonitorInv, PhaseInv, PlaceInv, WithPlan, NudgeMeansJump
<1> QED
  BY <1>1, MonitorInvariant, PTL

(* The SMS goes out only after an edit that followed the nudge.            *)
THEOREM SmsAreEdits == MonitorSpec => []SmsMeansEdited
<1>1. MonitorInv => SmsMeansEdited
  BY DEF MonitorInv, SmsInv
<1> QED
  BY <1>1, MonitorInvariant, PTL

(* A completed trip has asked for feedback unless its tick was cut.        *)
THEOREM FeedbackIsAsked == MonitorSpec => []FeedbackUnlessCut
<1>1. MonitorInv => FeedbackUnlessCut
  BY DEF MonitorInv
<1> QED
  BY <1>1, MonitorInvariant, PTL

(* After a tick that goes through, the traveller knows a leave-by time     *)
(* within the threshold of the right one, unless its push was swallowed.   *)
THEOREM LeaveIsKnown == MonitorSpec => []TravellerKnowsLeave
<1>1. MonitorInv => TravellerKnowsLeave
  <2> SUFFICES ASSUME MonitorInv, pc = "sleep", seen.through,
                      row.status = "active", row.info,
                      "leave" \notin seen.lost
               PROVE  /\ seen.leave # None
                      /\ Distance(seen.leave, Departure - journey) < ShiftMin
    BY DEF TravellerKnowsLeave
  <2> QED
    BY DEF MonitorInv, LeaveInv
<1> QED
  BY <1>1, MonitorInvariant, PTL

(* After a tick that goes through, the gate and a cancellation are on the  *)
(* phone, unless too young, swallowed, or cut off.                         *)
THEOREM NewsIsDelivered == MonitorSpec => []NewsReachesTraveller
<1>1. MonitorInv => NewsReachesTraveller
  <2> SUFFICES ASSUME MonitorInv, pc = "sleep", seen.through,
                      seen.news < now, ~ Fresh, "lookup" \notin seen.lost
               PROVE  /\ flight.gate # None /\ "gate" \notin seen.lost
                         => seen.gate = flight.gate
                      /\ ~ NotCancelled(flight.status)
                         /\ "cancelled" \notin seen.lost => seen.cancelled
    BY DEF NewsReachesTraveller, Fresh
  <2>1. now \in Nat /\ seen.news \in Nat /\ flight # None
    BY MonitorAssumption DEF MonitorInv, PhaseInv, TypeInv, Looks
  <2>2. row.flight = flight
    BY <2>1 DEF MonitorInv, NewsInv, StoredPart
  <2> QED
    BY <2>1, <2>2
       DEF MonitorInv, NewsInv, GatePart, CancelledPart, NotCancelled
<1> QED
  BY <1>1, MonitorInvariant, PTL

=============================================================================
