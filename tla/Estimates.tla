----------------------------- MODULE Estimates -----------------------------
(***************************************************************************)
(* The recommendation engine (app/services/recommendation_service.py) and  *)
(* the estimates it adds up: drive time (integrations/google_maps.py),     *)
(* walking times (airport_graph.py), security wait (tsa_model.py); and     *)
(* what the trip routes read off a recommendation: the projected timeline  *)
(* and the accuracy delta (api/routes/trips.py).  No state.                *)
(*                                                                         *)
(* Times are minutes.  The journey is a record of durations rather than a  *)
(* list of segments: the code leaves out a segment of zero minutes, which  *)
(* no sum and no time mark can tell from a segment that is there.          *)
(***************************************************************************)
EXTENDS Integers

CONSTANT None

ASSUME NoneAssumption == None \notin Int

Modes == {"rideshare", "driving", "train", "bus", "other"}
Profiles == {"safety", "sweet", "risk"}
Accesses == {"none", "precheck", "clear", "clear_precheck", "priority_lane"}

(* TripPreferences, as far as the engine reads it.                         *)
Preferences ==
  [transport_mode : Modes, confidence_profile : Profiles,
   bag_count : 0..10, traveling_with_children : BOOLEAN,
   extra_time_minutes : {0, 15, 30}, has_boarding_pass : BOOLEAN,
   security_access : Accesses, gate_time_minutes : (0..180) \union {None}]

(* _effective_context, and existing.update(overrides) in the recompute     *)
(* route: the keys an override gives replace those of the preferences.     *)
Effective(prefs, overrides) ==
  [k \in DOMAIN prefs |->
     IF k \in DOMAIN overrides THEN overrides[k] ELSE prefs[k]]

Larger(a, b) == IF a > b THEN a ELSE b

(* math.ceil(minutes * percent / 100)                                      *)
ScaledUp(minutes, percent) == (minutes * percent + 99) \div 100

(* The walking multiplier for children.                                    *)
Walk(minutes, children) ==
  IF children THEN ScaledUp(minutes, 140) ELSE minutes

(* round(): to the nearest, ties to even.  The floats of the code differ   *)
(* from it only where a tie is not exact.                                  *)
Rounded(num, den) ==
  LET whole == num \div den
      rest == 2 * (num % den)
  IN  IF rest > den \/ (rest = den /\ whole % 2 = 1)
      THEN whole + 1 ELSE whole

-----------------------------------------------------------------------------
(* Drive time.  maps is what Google answers: None for any failure (no      *)
(* route, no leg, no duration, an exception), or its durations, where each *)
(* of the two traffic variants may be None.                                *)

FALLBACK_DRIVE == 45

(* _fetch_traffic_variants                                                 *)
TrafficVariants(maps) ==
  [pessimistic |-> IF maps.pessimistic = None
                   THEN ScaledUp(maps.duration, 130) ELSE maps.pessimistic,
   optimistic |-> IF maps.optimistic = None
                  THEN ScaledUp(maps.duration, 85) ELSE maps.optimistic]

(* get_drive_time: durations for the three profiles.  ahead: a departure   *)
(* time was given and it is still in the future.                           *)
DriveTime(maps, mode, ahead) ==
  IF maps = None
  THEN [duration |-> FALLBACK_DRIVE, pessimistic |-> FALLBACK_DRIVE,
        optimistic |-> FALLBACK_DRIVE]
  ELSE LET plain == maps.duration
           driven == mode \notin {"train", "bus"}
           traffic == TrafficVariants(maps)
       IN  [duration |-> plain,
            pessimistic |-> IF ~ ahead THEN plain
                            ELSE IF driven THEN traffic.pessimistic
                            ELSE plain + 10,
            optimistic |-> IF ahead /\ driven THEN traffic.optimistic
                           ELSE plain]

RIDESHARE_PICKUP_WAIT_MINUTES == 5

(* The transport segment: the profile picks the duration, and leaving three *)
(* hours before departure is what traffic is asked for.                    *)
Transport(maps, prefs, ahead) ==
  LET drive == DriveTime(maps, prefs.transport_mode, ahead)
      minutes == CASE prefs.confidence_profile = "safety" -> drive.pessimistic
                   [] prefs.confidence_profile = "risk" -> drive.optimistic
                   [] OTHER -> drive.duration
  IN  IF prefs.transport_mode = "rideshare"
      THEN minutes + RIDESHARE_PICKUP_WAIT_MINUTES ELSE minutes

-----------------------------------------------------------------------------
(* Walking times.  A graph is None, or what it knows: minutes (None when   *)
(* there is no such edge) from each kind of entry node it has to the       *)
(* check-in, from there to security, and from security to the gate.        *)

EntryKind(mode) ==
  CASE mode = "driving" -> "parking"
    [] mode \in {"train", "bus"} -> "transit"
    [] OTHER -> "curb"

Known(edge, default) == IF edge = None THEN default ELSE edge

(* resolve_walking_times: None without a graph.  Without the entry node    *)
(* the graph's defaults are returned as they are, children or not.         *)
WalkingTimes(graph, mode, gate, children) ==
  IF graph = None THEN None
  ELSE LET kind == EntryKind(mode)
           std == graph.defaults
       IN  IF kind \notin DOMAIN graph.entry THEN std
           ELSE [entry |-> Walk(Known(graph.entry[kind], std.entry), children),
                 security |-> Walk(Known(graph.security, std.security),
                                   children),
                 gate |-> Walk(Known(IF gate THEN graph.gate ELSE None,
                                     std.gate), children)]

(* The flat defaults of airport_defaults.py, when there is no graph.       *)
FlatTimes(timings, mode, children) ==
  [entry |-> Walk(IF mode \in {"train", "bus"} THEN timings.transit
                  ELSE timings.curb, children),
   security |-> Walk(timings.security, children),
   gate |-> Walk(timings.gate, children)]

(* Faulty variant: children slow the walk from the curb alone.             *)
ParkingMinutesAdults(timings, children) ==
  Larger(timings.parking - Walk(timings.curb, children), 0)

(* The parking segment a driver gets: from a graph the curb's walk is      *)
(* taken off, from the flat defaults the walk already computed (the same). *)
ParkingMinutes(timings, children) ==
  Larger(Walk(timings.parking, children) - Walk(timings.curb, children), 0)

(* Faulty variant: more parking than walk leaves a negative walk.          *)
AfterParkingUnclamped(walk, parking) == walk - parking

(* What remains of the graph's walk from the entry once parking is out.    *)
AfterParking(walk, parking) == Larger(walk - parking, 0)

(* Parking and the three walks of a traveller.                             *)
Walks(airport, prefs, gate) ==
  LET children == prefs.traveling_with_children
      mode == prefs.transport_mode
      graph == WalkingTimes(airport.graph, mode, gate, children)
      flat == FlatTimes(airport.timings, mode, children)
      parking == IF mode = "driving"
                 THEN ParkingMinutes(airport.timings, children) ELSE 0
      split == IF graph = None THEN flat.entry
               ELSE AfterParking(graph.entry, parking)
  IN  [parking |-> parking, entry |-> split,
       security |-> IF graph = None THEN flat.security ELSE graph.security,
       gate |-> IF graph = None THEN flat.gate ELSE graph.gate]

-----------------------------------------------------------------------------
(* Security wait.  live is a fresh answer of the TSA wait API, or None; no *)
(* caller passes user feedback or a flight volume.                         *)

TSA_FLOOR == 3

(* SECURITY_ACCESS_MULTIPLIERS, in percent.                                *)
Discount(access) ==
  CASE access = "precheck" -> 35
    [] access = "clear" -> 70
    [] access = "clear_precheck" -> 20
    [] access = "priority_lane" -> 50
    [] OTHER -> 100

(* _compute_weights and the blend: 0.375 of the baseline's median and      *)
(* 0.625 of the live wait, as a fraction of 8.                             *)
Blended8(cell, live) ==
  IF live = None THEN 8 * cell.p50 ELSE 3 * cell.p50 + 5 * live

(* estimate_tsa_wait: the other percentiles keep their ratio to the median. *)
TsaWait(cell, live, access) ==
  LET scaled(p) == IF cell.p50 = 0 THEN Rounded(p * Discount(access), 100)
                   ELSE Rounded(p * Blended8(cell, live) * Discount(access),
                                800 * cell.p50)
  IN  [p25 |-> Larger(TSA_FLOOR, scaled(cell.p25)),
       p50 |-> Rounded(Blended8(cell, live) * Discount(access), 800),
       p80 |-> scaled(cell.p80)]

(* The wait a profile plans with.                                          *)
Security(cell, live, prefs) ==
  LET wait == TsaWait(cell, live, prefs.security_access)
  IN  CASE prefs.confidence_profile = "safety" -> wait.p80
        [] prefs.confidence_profile = "risk" -> wait.p25
        [] OTHER -> wait.p50

-----------------------------------------------------------------------------
(* The journey.                                                            *)

(* Faulty variant: the two counter times are swapped.                      *)
CounterMinutesSwapped(prefs) ==
  LET bags == prefs.bag_count
  IN  IF bags > 0
      THEN (IF prefs.has_boarding_pass THEN 8 ELSE 5) + (bags - 1) * 3
      ELSE IF prefs.has_boarding_pass THEN 0 ELSE 5

(* The stop between the entry and security: nothing with a boarding pass   *)
(* and no bags, else the counter, and from there the walk to security.     *)
CounterMinutes(prefs) ==
  LET bags == prefs.bag_count
  IN  IF bags > 0
      THEN (IF prefs.has_boarding_pass THEN 5 ELSE 8) + (bags - 1) * 3
      ELSE IF prefs.has_boarding_pass THEN 0 ELSE 5

Straight(prefs) == prefs.bag_count = 0 /\ prefs.has_boarding_pass

GateBuffer(prefs) ==
  IF prefs.gate_time_minutes # None THEN prefs.gate_time_minutes
  ELSE CASE prefs.confidence_profile = "safety" -> 30
         [] prefs.confidence_profile = "sweet" -> 15
         [] OTHER -> 0

(* _compute_segments, and the comfort buffer _build_response adds.  world  *)
(* is what the services say now; the snapshot is the flight's.             *)
Journey(world, prefs, snapshot) ==
  LET walks == Walks(world.airport, prefs, snapshot.gate # None)
  IN  [transport |-> Transport(world.maps, prefs, world.ahead),
       parking |-> walks.parking,
       at_airport |-> walks.entry + (IF Straight(prefs)
                                     THEN walks.security ELSE 0),
       counter |-> IF Straight(prefs) THEN 0
                   ELSE CounterMinutes(prefs) + walks.security,
       tsa |-> Security(world.cell, world.live, prefs),
       walk_to_gate |-> walks.gate,
       gate_buffer |-> GateBuffer(prefs),
       comfort_buffer |-> prefs.extra_time_minutes]

(* From leaving home to the gate, without the two buffers.                 *)
ToGate(j) == j.transport + j.parking + j.at_airport + j.counter + j.tsa
             + j.walk_to_gate

BOARDING == 30

(* _build_response                                                         *)
LeaveHomeAt(departure, j) ==
  departure - BOARDING - (ToGate(j) + j.gate_buffer + j.comfort_buffer)
GateArrivalAt(departure, j) == LeaveHomeAt(departure, j) + ToGate(j)

(* _build_projected_timeline: the ends of the last segment of each group.  *)
(* A gate buffer is the last segment with "gate" in its name.              *)
Timeline(departure, j) ==
  LET leave == LeaveHomeAt(departure, j)
      arrive == leave + j.transport + j.parking
      clear == arrive + j.at_airport + j.counter + j.tsa
  IN  [leave_home_at |-> leave, arrive_airport_at |-> arrive,
       clear_security_at |-> clear,
       at_gate_at |-> clear + j.walk_to_gate + j.gate_buffer]

(* _compute_accuracy_delta, for a feedback that has minutes_at_gate.       *)
AccuracyDelta(minutesAtGate, timeline, departure) ==
  minutesAtGate - (departure - timeline.at_gate_at)
=============================================================================
