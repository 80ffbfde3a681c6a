------------------------------ MODULE Flights ------------------------------
(***************************************************************************)
(* Flights as AeroDataBox reports them and what is kept of them            *)
(* (app/services/integrations/aerodatabox.py, flight_snapshot_service.py). *)
(* No state.  A flight is what parse_flight or parse_departure leaves of   *)
(* it: the scheduled and the revised departure, each in UTC and as the     *)
(* local hour, None when missing; status, gate and destination.  A lookup  *)
(* is answered by a sequence of flights or by the class of its error.      *)
(***************************************************************************)
EXTENDS Estimates, Sequences

NotFound == "NotFound"
RateLimited == "RateLimited"
Unavailable == "Unavailable"
Timeout == "Timeout"

AdbErrors == {NotFound, RateLimited, Unavailable, Timeout}

(* What a request to AeroDataBox comes to: an HTTP status with its list    *)
(* (only 200 has one), a 200 whose body is not JSON (malformed) or is JSON *)
(* of another shape than expected (shape), or no response at all.          *)
Ok(list) == [kind |-> "status", status |-> 200, list |-> list]
Replied(code) == [kind |-> "status", status |-> code, list |-> <<>>]
Failed(how) == [kind |-> how, status |-> 0, list |-> <<>>]

(* A list of flights with whole minutes for the departures it knows.       *)
ReplyTypes(reply) ==
  LET list == reply.list
  IN  /\ list # None /\ list \in Seq({list[i] : i \in DOMAIN list})
      /\ \A i \in DOMAIN list : /\ list[i].scheduled \in Int \union {None}
                               /\ list[i].revised \in Int \union {None}

(* _classify_status                                                        *)
Classify(code) ==
  CASE code = 404 -> NotFound
    [] code = 429 -> RateLimited
    [] OTHER -> Unavailable

IsError(answer) == answer.error # "none"

(* lookup_flights: 204 is an empty list, another shape is an outage.       *)
Lookup(reply) ==
  LET raised(error) == [error |-> error, flights |-> <<>>]
  IN  CASE reply.kind = "timeout" -> raised(Timeout)
        [] reply.kind \in {"connection", "malformed", "shape"} ->
             raised(Unavailable)
        [] reply.kind = "status" /\ reply.status \in {200, 204} ->
             [error |-> "none", flights |-> reply.list]
        [] OTHER -> raised(Classify(reply.status))

(* _fetch_departures_window: another shape passes for an empty window.     *)
LookupWindow(reply) ==
  IF reply.kind = "shape" THEN [error |-> "none", flights |-> <<>>]
  ELSE Lookup(reply)

(* _ADB_SEVERITY                                                           *)
Severity(error) ==
  CASE error = Unavailable -> 4
    [] error = Timeout -> 3
    [] error = RateLimited -> 2
    [] error = NotFound -> 1

(* The later departure of a delayed flight: revised, when it is known and  *)
(* after the scheduled one.                                                *)
Delayed(f) ==
  f.revised # None /\ f.scheduled # None /\ f.revised > f.scheduled

Departure(f) == IF Delayed(f) THEN f.revised ELSE f.scheduled

UtcHour(time) == (time \div 60) % 24

(* _select_flight: the flight that departs at the selected time, or the    *)
(* first.                                                                  *)
SelectFlight(flights, selected) ==
  LET matching == {i \in DOMAIN flights :
                     selected # None /\ flights[i].scheduled = selected}
      first == CHOOSE i \in matching : \A j \in matching : i <= j
  IN  IF matching = {} THEN flights[1] ELSE flights[first]

-----------------------------------------------------------------------------
(* The columns.                                                            *)

(* Faulty variant: the hour frozen is the hour in UTC.                     *)
FlightInfoInUtc(f) ==
  [scheduled |-> f.scheduled, origin |-> f.origin,
   hour |-> IF f.scheduled = None THEN None ELSE UtcHour(f.scheduled)]

(* build_flight_info_and_status: what is frozen at track time ...          *)
FlightInfo(f) ==
  [scheduled |-> f.scheduled, origin |-> f.origin,
   hour |-> IF f.localHour = None /\ f.scheduled # None
            THEN UtcHour(f.scheduled) ELSE f.localHour]

(* ... and what the polling agent keeps up to date.                        *)
FlightStatus(f) ==
  [gate |-> f.gate, status |-> f.status,
   delay |-> IF Delayed(f) THEN f.revised - f.scheduled ELSE 0]

-----------------------------------------------------------------------------
(* Snapshots.                                                              *)

(* _build_fallback_snapshot: ten o'clock UTC on the day of departure.      *)
FallbackSnapshot(day) ==
  [departure |-> day + 10 * 60, gate |-> None, hour |-> 10,
   source |-> "fallback"]

(* snapshot_from_columns: the schedule, whatever the delay.                *)
SnapshotFromColumns(info, status) ==
  IF info = None \/ info.scheduled = None \/ info.origin = None THEN None
  ELSE [departure |-> info.scheduled,
        gate |-> IF status = None THEN None ELSE status.gate,
        hour |-> info.hour, source |-> "columns"]

(* The local hour of a delayed flight.  Hour 0 counts as missing.          *)
RevisedHour(f) ==
  IF f.revisedHour \in {None, 0} THEN UtcHour(f.revised) ELSE f.revisedHour

(* build_flight_snapshot, once the flights are looked up.                  *)
SnapshotOf(flights, selected, day) ==
  IF flights = <<>> THEN FallbackSnapshot(day)
  ELSE LET f == SelectFlight(flights, selected)
       IN  IF Departure(f) = None THEN FallbackSnapshot(day)
           ELSE [departure |-> Departure(f), gate |-> f.gate,
                 hour |-> IF Delayed(f) THEN RevisedHour(f) ELSE f.localHour,
                 source |-> "adb"]
=============================================================================
